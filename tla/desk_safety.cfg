SPECIFICATION Spec
CONSTANTS
  Requests = {r1, r2, r3}
  Agents = {ana}
  NoAgent = NoAgent
  NoRequest = NoRequest
  HandoffText = HandoffText
  Ops = {"customer", "human", "resolve", "reply", "takeover", "close", "confirm"}
  Faults = TRUE
SYMMETRY Symmetry
INVARIANTS TypeOK  QueueIsDated
PROPERTIES ImplementsLedger
