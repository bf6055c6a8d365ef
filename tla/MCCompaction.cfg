CONSTANTS
  Outputs = {o1}
  Sizes = {2}
  Limit = 6
  Windows = {5}
  DedupCap = 1
  MaxNodes = 9
  MaxSends = 2
SPECIFICATION CompactionSpec
CHECK_DEADLOCK FALSE
PROPERTIES
  CompactionEnds
