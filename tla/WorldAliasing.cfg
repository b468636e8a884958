\* A departure from the middle of a member list.
SPECIFICATION MCSpec
CONSTANTS
  None = None
  Player = {p1, p2, p3}
  Party = {}
  Clan = {}
  Home = {}
  Ally = {}
  Mode = {}
  Scope = {}
  Channel = {cc1}
  MaxRoster = 3
  Preferences <- Alike
SYMMETRY PlayerSymmetry
INVARIANT SpeakersAreMembers
