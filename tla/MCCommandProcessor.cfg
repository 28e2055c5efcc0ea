SPECIFICATION FairSpec
CONSTANTS
  list = list
  say = say
  tellraw = tellraw
  none = none
  Request <- MCRequest
  KindOf <- MCKindOf
  NoRequest = none
  Cap = 1
  MaxLines = 2
  MaxIncidents = 1
INVARIANTS
  AnswersInOrder
  SignalMeetsItsCommand
  LinesInOrder
  ResponsesSound
PROPERTY
  EveryCommandAnswered
CHECK_DEADLOCK FALSE
