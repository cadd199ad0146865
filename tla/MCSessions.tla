----------------------------- MODULE MCSessions -----------------------------
(* Small instances of Sessions: one piece of gear, one stackable item. *)
EXTENDS Sessions, TLC
CONSTANTS sword, potion
MCStackMax == (sword :> 1) @@ (potion :> 2)
Symmetry == Permutations(Conns) \cup Permutations(Chars)
=============================================================================
