SPECIFICATION Spec
CONSTANTS
  Base = 10
  FracDigits = 2
  MaxInt = 200
  MaxNanos = 99999
  MaxSecs = 1000
  Malformed = Malformed
  Refused = Refused
  Nothing = Nothing
  Models <- MCModels
  EdgeModels <- MCEdgeModels
  Plans <- MCPlans
  Requests <- MCRequests
  Messages <- MCMessages
  MaxId = 2
  MaxEdgeId = 1
INVARIANT RequestsArriveIntact
INVARIANT RefusalsAreJustified
INVARIANT AnswersArriveIntact
INVARIANT ReadsReturnWrites
