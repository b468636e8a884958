\* One session of the player; the ring holds two frames and may be overrun.
SPECIFICATION FairSpec
CONSTANTS
  Src = {s1}
  Peer = Peer
  Cap = 2
  MaxQueued = 3
INVARIANTS TypeOK PlayedInOrder NoNameForgotten NoLeftoverMute
PROPERTIES MuteTakesEffect
