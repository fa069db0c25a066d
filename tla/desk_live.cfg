SPECIFICATION FairSpec
CONSTANTS
  Requests = {r1, r2}
  Agents = {ana}
  NoAgent = NoAgent
  NoRequest = NoRequest
  HandoffText = HandoffText
  Ops = {"customer", "human", "resolve", "reply", "takeover", "close", "confirm"}
  Faults = TRUE
PROPERTIES ClosedStaysClosed RequestsEnd
