\* One viewer who may clear the chat once, two threads, five ticks over two days
\* of one month and the first of the next: entries stamped in one minute or day and counted in the next,
\* usage below and above the reservation.  Or one source with four ticks, two
\* visits, one restart, an hour and a window of two ticks and limits of one.
SPECIFICATION LimitsSpec
CONSTANTS
  v1 = v1
  w1 = w1
  w2 = w2
  Sessions = {v1}
  Workers = {w1, w2}
  MaxTime = 4
  Minute = 1
  DayStart <- MCDayStart
  MonthStart <- MCMonthStart
  GlobalPerMinute = 2
  SessionPerMinute = 1
  DailyAttempts = 2
  MonthlyTokens = 7
  PlanningReservation = 1
  AnsweringReservation = 3
  Usages = {1, 4}
  MaxEpoch = 1
  a1 = a1
  Sources = {a1}
  Threads = {w1, w2}
  EndOfTime = 3
  MaxVisits = 2
  MaxRestarts = 1
  Hour = 2
  ViewersPerHour = 1
  IdleTTL = 1
  AbsoluteTTL = 2
  Window = 2
  MaxFailed = 1
SYMMETRY Symmetry
CHECK_DEADLOCK FALSE
INVARIANTS
  AttemptsRespected
  MonthlyTokensRespected
  SourcesLimited
PROPERTIES
  RunOutIsFinal
