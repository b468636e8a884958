---------------------------- MODULE MCSessions ----------------------------
(***************************************************************************)
(* Sessions for the model checker: players, connections and dispatchers    *)
(* are each interchangeable.                                               *)
(***************************************************************************)
EXTENDS Sessions, TLC

Symmetry ==
  Permutations(Player) \union Permutations(Conn) \union Permutations(Dispatcher)
=============================================================================
