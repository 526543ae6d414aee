SPECIFICATION SourceSpec
CONSTANTS
  Sources = {"file"}
  Paths = {1, 2}  Clip = 1  MaxVersion = 2  Unreadable = {2}  Threshold = 1
  MaxChanges = 1
PROPERTIES FilesMonitored
CHECK_DEADLOCK FALSE
