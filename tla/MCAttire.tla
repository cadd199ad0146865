------------------------------ MODULE MCAttire ------------------------------
(***************************************************************************)
(* Two slots with two figures each and three tiers.  The thresholds of the *)
(* first slot are divisible by four and not; those of the second are less  *)
(* than four, and so low that MaxOps clicks go past the last tier's.       *)
(***************************************************************************)
EXTENDS Attire

MCFigures == {1, 3}
MCThreshold == <<<<8, 5, 4>>, <<1, 2, 1>>>>
=============================================================================
