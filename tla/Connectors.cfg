CONSTANTS
  Kinds <- mcAll
  MaxItem = 3
  Ignorable = {{1}, {2}}
  ReplyTo <- mcReplyTo
  ClassOf <- mcClassOf
  PageLimit = 2
  SeenLimit = 1
  SeenKept = 1
  MaxAttempts = 2
  RawRoom = 1
SPECIFICATION FairSpec
INVARIANTS TypeOK NoDuplicates NothingElseLost
PROPERTIES PollsReport OrderKept EventuallyForwarded
CHECK_DEADLOCK FALSE
