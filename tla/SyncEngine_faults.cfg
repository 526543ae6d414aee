SPECIFICATION Spec
CONSTANTS
  a1 = a1  a2 = a2  b = b  i1 = i1  i2 = i2  h1 = h1  h2 = h2
  t1 = t1  t2 = t2  t3 = t3  x = x  y = y
  Event <- mcEvent  Id <- mcId  Fresh = Fresh  None = None
  Hash <- mcHash  TagKey <- mcTagKey  TagVal <- mcTagVal
  IdOf <- mcIdOf  HashOf <- mcHashOf  TimeOf <- mcTimeOf  TagsOf <- mcTagsOf
  Strategy = "keep_both"
  BatchSize = 2  ChunkSize = 2
  EnableStreaming = TRUE  DiskMayFail = TRUE  SoulRejects = TRUE
  ChanCap = 1  MaxSends = 3  MaxRuns = 1  MaxOutages = 1
INVARIANTS NoEventSkipped
