SPECIFICATION MCSpec
CONSTANTS
  FailureThreshold = 3  SuccessThreshold = 3  Cooldown = 4  MaxStreak = 4
  Sources = 2
  RefreshesToken = TRUE  SilentWhenEmpty = TRUE  CanReset = TRUE
  Callers = {c1, c2}  SenseKinds = {"none", "asr"}  MaxInstances = 2
  Takers = {p, q}  Limits <- mcLimits  One = 1000  Interval = 4  MinSleep = 1
  MaxClock = 8
  Order <- mcOrder  Untimed = {"slack"}
  Requests = {1, 2, 3}  Addresses = {a}  Limit = 1  Window = 2  Room = 1
  LastSecond = 5
  LogRoom = 2  Levels = {"INFO", "WARN"}  LastEntry = 5
  Visitors = {u, v}  Switches = {"git"}
INVARIANTS
  ServicesTypeOK TripsInTime ActiveIsRunning RateBound
  TwiceTheLimit LogsAreNewest ToggleConsistent
  OwnTagsKept ClassFits
PROPERTIES
  PollsKeepOff FollowsUpstream EveryCallEnds HealthShown EveryRequestAnswered
CHECK_DEADLOCK FALSE
