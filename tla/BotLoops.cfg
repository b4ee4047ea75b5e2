\* One user with two vacancies over two days, each of them a week as well.
SPECIFICATION Spec
CONSTANTS
  Users = {u1}
  Vacancies = {v1, v2}
  Wanted <- WideFilters
  MaxPerDay = 2
  MaxTime = 6
  MaxFaults = 1
  MaxMoves = 2
  WeekDays = 1
  SendDay = 0
  NoWeek = NoWeek
INVARIANTS
  SendingIsRecorded
  
PROPERTIES
  LoopsCatchUp
CHECK_DEADLOCK FALSE
