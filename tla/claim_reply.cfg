SPECIFICATION Spec
CONSTANTS
  Requests = {r1, r2, r3}
  Agents = {ana}
  NoAgent = NoAgent
  NoRequest = NoRequest
  HandoffText = HandoffText
  Ops = {"customer", "reply"}
  Faults = FALSE
INVARIANT RepliesAreDelivered
