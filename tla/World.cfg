\* One clan with modes, roles and mutes; two clans in an alliance with modes; or two
\* parties and a command channel.
SPECIFICATION MCSpec
CONSTANTS
  None = None
  Player = {p1, p2}
  Party = {q1, q2}
  Clan = {k1, k2}
  Home = {k1}
  Ally = {a1}
  Mode = {m1}
  Scope = {"clan", "ally"}
  Channel = {cc1}
  MaxRoster = 2
  Preferences <- Alike
SYMMETRY PlayerSymmetry
INVARIANTS TypeOK PartyIndex MembersIndexed ModeOwned OneMutePerPair RouteFollowsMatrix
PROPERTY RemovalPurges
