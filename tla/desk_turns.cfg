SPECIFICATION Spec
CONSTANTS
  Requests = {r1, r2, r3, r4}
  Agents = {ana}
  NoAgent = NoAgent
  NoRequest = NoRequest
  HandoffText = HandoffText
  Ops = {"customer", "human", "reply", "takeover", "close", "confirm"}
  Faults = FALSE
SYMMETRY Symmetry
INVARIANTS AnswersFollowQuestions WaitingIsQueued
