SPECIFICATION SourceSpec
CONSTANTS
  Sources = {"git", "obsidian", "process", "network", "clipboard", "file"}
  Paths = {1, 2}  Clip = 1  MaxVersion = 3  Unreadable = {2}  Threshold = 1
  MaxChanges = 2
INVARIANTS SourceTypeOK RememberedIsTold
PROPERTIES NoFalseEnd CatchesUp
CHECK_DEADLOCK FALSE
