SPECIFICATION FairSpec
CONSTANTS
  Servers = {json, html}
  Adders = {a1, a2}
  Conns = {c1, c2}
  MaxCalls = 2
  None = None
INVARIANTS TypeOK AddedOnce AlwaysResolved PassedToOwn
PROPERTIES WaitingAccepted StopReturns
