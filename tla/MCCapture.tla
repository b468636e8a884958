----------------------------- MODULE MCCapture -----------------------------
(***************************************************************************)
(* Capture for the model checker: every name has a key of its own in the   *)
(* file, which is the name itself, or all of them are written as one.      *)
(***************************************************************************)
EXTENDS Capture

Apart == [n \in Name |-> n]
Alike == [n \in Name |-> CHOOSE k \in IniKey : TRUE]

ApartOrAlike == {Apart, Alike}
=============================================================================
