\* Two connections of one player, and the goroutines that serve them.
SPECIFICATION FairSpec
CONSTANTS
  None = None
  Player = {p1}
  Conn = {c1, c2}
  Dispatcher = {redis}
INVARIANTS TypeOK NoLeak IndexesSound NewestReachable
PROPERTY ClosedIsForgotten
