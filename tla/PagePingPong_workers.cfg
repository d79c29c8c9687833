SPECIFICATION CrashSpec
CONSTANTS
  Props = {q1}
  Readers = {r1, r2}
  MaxVersion = 3
  MaxFiles = 2
  FilesRunOut = TRUE
SYMMETRY Symmetry
CHECK_DEADLOCK FALSE
INVARIANTS
  TypeOK
  IntactUntilFlip
  PermitsConserved
