SPECIFICATION MCSpec
CONSTANTS
  p = p  q = q  t = t  n = n  u = u  o = o  s = s  x = x  y = y
  NoSource = NoSource  Unknown = Unknown
  Event <- mcEvent  Source <- mcSource  Block <- mcBlock
  SourceOf <- mcSourceOf  PayloadOf <- mcPayloadOf
  MaxEventSize = 2  SampleSize = 1  Window = 2
  RawCap = 1  OutCap = 1  SinkMayEnd = TRUE
  Files <- mcFiles  Envs <- mcEnvs  Unparsable = {"loud="}  WorkerCounts = {2}
  Jobs = {j}  Invocations = {{"status"}}  MaxEdits = 0
PROPERTIES ShutdownEnds
CHECK_DEADLOCK FALSE
