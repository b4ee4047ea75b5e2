SPECIFICATION MCSpec
CONSTANTS
  u1 = u1
  u2 = u2
  u3 = u3
  day0 = day0
  day10 = day10
  day20 = day20
  other = other
  s1 = s1
  s2 = s2
  None = None
  Uids <- MCUids
  Jobs <- MCJobs
  Similar <- MCSimilar
  Rank <- MCRank
  Sources <- MCSources
  SourceOf <- MCSourceOf
  JobsOf <- MCJobsOf
  KeyOf <- MCKeyOf
  PageSize = 2
  MaxConsecutive = 2
  GiveUp = 2
  Due = {1, 2, 3}
  MaxListPages = 6
  RunBudget = 8
  Reserve = 2
  MaxRetries <- MCRetries
  Consecutive = 2
  Threshold = 2
  Pause = 2
  MaxClock = 3
  Callers = {x1, x2, x3}
  Interval = 2
  MaxQueue = 3
  MaxLate = 1
  MaxInstant = 7
INVARIANTS
  OpenVacanciesAreShown
  BudgetIsKept
  RequestsAreSpaced
PROPERTIES
  RowsCloseForAReason
  AnswersAreRead
