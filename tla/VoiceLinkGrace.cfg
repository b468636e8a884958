\* A player logs out and in again at once, right when the TCP table is read.
SPECIFICATION Spec
CONSTANTS
  Port = {p1}
  NoPort = NoPort
  RefreshEvery = 3
  Grace = 2
  MaxFaults = 0
PROPERTIES SuspendsAfterGrace
