SPECIFICATION Spec
CONSTANTS
  Props = {q1}
  Readers = {r1}
  MaxVersion = 2
  MaxFiles = 1
  FilesRunOut = TRUE
CHECK_DEADLOCK FALSE
INVARIANTS
  QuietPageCurrent
