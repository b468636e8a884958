------------------------------- MODULE Belief -------------------------------
(***************************************************************************)
(* What a voice connection promises, with everything between the two ends  *)
(* left out: the server grants a connection to at most one player, and the *)
(* client believes in a session only while the connection the server       *)
(* granted it for is the current one.  A connection that is replaced takes *)
(* the belief with it.                                                     *)
(***************************************************************************)
CONSTANTS Player, Nobody

VARIABLES
  granted,   \* the player the server resolved the current connection to
  believed   \* the player the client's session id stands for

Init == granted = Nobody /\ believed = Nobody

\* The server resolves the connection, once.
Grant ==
  /\ granted = Nobody
  /\ granted' \in Player
  /\ UNCHANGED believed

\* The client learns of it.
Believe ==
  /\ granted # Nobody
  /\ believed' = granted
  /\ UNCHANGED granted

\* The client gives its session up.
Forget ==
  /\ believed' = Nobody
  /\ UNCHANGED granted

\* Another connection takes the place of this one: only after Forget.
Renew ==
  /\ believed = Nobody
  /\ granted' = Nobody
  /\ UNCHANGED believed

Next == Grant \/ Believe \/ Forget \/ Renew

Spec == Init /\ [][Next]_<<granted, believed>>
=============================================================================
