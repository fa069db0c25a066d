SPECIFICATION Spec
CONSTANTS
  Requests = {r1, r2}
  Agents = {ana}
  NoAgent = NoAgent
  NoRequest = NoRequest
  HandoffText = HandoffText
  Ops = {"customer"}
  Faults = FALSE
INVARIANT IdleTurnsStillAnswer
