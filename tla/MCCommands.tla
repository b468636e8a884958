---------------------------- MODULE MCCommands ----------------------------
(***************************************************************************)
(* Commands for the model checker: the players are interchangeable, and a  *)
(* behaviour runs the commands of one family against the part of the world *)
(* they depend on.  One run covers the families.                           *)
(***************************************************************************)
EXTENDS Commands

VARIABLE family   \* the commands a behaviour explores

Family == [clan |-> {"promote", "mode"}, optout |-> {"optout"},
           mute |-> {"mute"}, grant |-> {"grant"}]

MCInit == CInit /\ family \in DOMAIN Family

MCNext ==
  /\ CNext
  /\ \A p \in Player : cmd'[p].stage # "idle" => cmd'[p].op \in Family[family]
  /\ UNCHANGED <<partyOf, parties, family>>
  /\ family \in {"clan", "optout"} => UNCHANGED <<allyOf, mutes, ccVars>>
  /\ family = "mute" => UNCHANGED ccVars
  /\ family = "grant" => UNCHANGED <<clanOf, allyOf, isLeader, clanVars, mutes>>

MCSpec == MCInit /\ [][MCNext]_<<vars, family>>

PlayerSymmetry == Permutations(Player)
=============================================================================
