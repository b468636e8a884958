\* The user's own character and another one, which voice.ini may name as the user's;
\* their names are written under a key each or under one; one explicit key, the main
\* key, and every kind of selected channel; others are heard in a clan mode.
SPECIFICATION FairSpec
CONSTANTS
  Name = {a, b}
  NoName = NoName
  Mine = {a}
  CharName = {NoName, b}
  IniKey = {a, b}
  Spellings <- ApartOrAlike
  Key = {"clan", "proximity"}
  Sel = {0, 4}
  HeardOn = {8}
  Hang = 2
INVARIANTS TypeOK FileFollowsTable OpenForHangover UnifiedIsNotProximity
PROPERTIES IndicatorGoesOut
