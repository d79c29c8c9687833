SPECIFICATION FairSpec
CONSTANTS
  Props = {q1, q2}
  Readers = {r1}
  MaxVersion = 2
  MaxFiles = 1
  FilesRunOut = FALSE
CHECK_DEADLOCK FALSE
INVARIANTS
  ValidPageWhole
  QuietPageCurrent
PROPERTIES
  PublicationSpec
  EventuallyPublished
