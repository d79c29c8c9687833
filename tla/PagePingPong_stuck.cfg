SPECIFICATION FairSpec
CONSTANTS
  Props = {q1}
  Readers = {r1}
  MaxVersion = 2
  MaxFiles = 1
  FilesRunOut = FALSE
CHECK_DEADLOCK FALSE
PROPERTIES
  ReadsFinish
