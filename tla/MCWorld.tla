------------------------------ MODULE MCWorld ------------------------------
(***************************************************************************)
(* World and Router for the model checker: the players are                 *)
(* interchangeable, and all of them have the same preferences, of which    *)
(* those that decide anything are tried.  A listener's preferences are     *)
(* read for itself alone, so mixed tables decide nothing new.              *)
(*                                                                         *)
(* The clans of a world and its parties and channels do not depend on each *)
(* other: a behaviour of MCSpec moves one part and leaves the others as    *)
(* they were at the start, and one run covers all of them.  The part       *)
(* "clans" has every change of one clan, with sub-leaders and mutes; the   *)
(* part "allies" has all the clans, without them.                          *)
(***************************************************************************)
EXTENDS Router

CONSTANT Home   \* bound: the clans of the part "clans"

VARIABLE part   \* the part of the world a behaviour explores

MCInit == Init /\ part \in {"clans", "allies", "groups"}

OnlyHome ==
  /\ clans' \subseteq Home
  /\ \A p \in Player : clanOf'[p] \in Home \union {None}

MCNext ==
  /\ Next
  /\ part \in {"clans", "allies"} => UNCHANGED <<partyOf, parties, ccVars>>
  /\ part = "clans" => OnlyHome
  /\ part = "allies" => UNCHANGED <<isLeader, subLeaders, mutes>>
  /\ part = "groups" => UNCHANGED <<clanOf, allyOf, isLeader, clanVars, mutes>>
  /\ UNCHANGED part

MCSpec == MCInit /\ [][MCNext]_<<worldVars, part>>

PlayerSymmetry == Permutations(Player)

Alike ==
  {[p \in Player |-> [enabled |-> on, muted |-> off, whisper |-> "always"]] :
     on \in {{ch} : ch \in Toggle}, off \in {{}, Player}}
=============================================================================
