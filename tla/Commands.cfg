\* Clan commands, remote mutes or speak grants racing with events.
SPECIFICATION MCSpec
CONSTANTS
  None = None
  Player = {p1, p2}
  Party = {}
  Clan = {k1}
  Ally = {a1}
  Mode = {m1}
  Scope = {"clan", "ally"}
  Channel = {cc1}
  MaxRoster = 2
  Ops = {"promote", "mode", "optout", "mute", "grant"}
SYMMETRY PlayerSymmetry
INVARIANTS CommandsTypeOK GhostNeedsRace
PROPERTY Spec
