\* One game connection that comes and goes; a refresh comes less often than the
\* grace lasts, as in the code (7.5 s against 5 s).
SPECIFICATION FairSpec
CONSTANTS
  Port = {p1}
  NoPort = NoPort
  RefreshEvery = 2
  Grace = 1
  MaxFaults = 1
INVARIANTS TypeOK ClaimBacked TimerNeedsAbsence SuspendedIsSilent
PROPERTIES KeepsPromise VoiceReturns
