SPECIFICATION FairSpec
CONSTANTS
  Fds = {1, 2}
  Cap = 2
PROPERTIES
  CleansOnlyHangOrProcessing
