SPECIFICATION Spec
CONSTANTS
  Requests = {r1, r2}
  Agents = {ana}
  NoAgent = NoAgent
  NoRequest = NoRequest
  HandoffText = HandoffText
  Ops = {"customer", "takeover"}
  Faults = FALSE
PROPERTY NoTalkingOver
