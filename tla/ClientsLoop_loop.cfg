SPECIFICATION FairSpec
CONSTANTS
  Fds = {1, 2, 3}
  Cap = 2
CONSTRAINT UntilRaced
INVARIANTS
  TypeOK
  OneOwner
  FreshEvents
PROPERTIES
  ReadyClientServed
