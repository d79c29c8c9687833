SPECIFICATION FairSpec
CONSTANTS
  Texts <- MCTexts
  Empty = ""
  Label = "Search"
  Squeezed <- MCSqueezed
  Stripped <- MCStripped
  Tables <- MCTables
  SectionCount = 2
  MaxTimers = 2
INVARIANTS TypeOK OneTimer PausedShowsField EscapeIsFinal NothingVanishes
PROPERTY TypedIsSearched
