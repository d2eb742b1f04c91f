SPECIFICATION Spec
CONSTANTS
  u1 = u1
  u2 = u2
  b1 = b1
  Jobs <- MCJobs
  User <- MCUser
  Boards <- MCBoards
  MaxFlights = 2
  MaxAsks = 4
  MaxHeats = 2
CHECK_DEADLOCK FALSE
INVARIANTS DebriefOfItsFlight
PROPERTIES IsJobBoard JobsAnswered
