---------------------------- MODULE DurableStore ----------------------------
(***************************************************************************)
(* What storage.py promises to the gateway: one image of the account data  *)
(* that the process works on ("live") and one that a restart brings back   *)
(* ("durable").  Persisting replaces the durable image by the live one as  *)
(* a whole; a crash loses the live image, and the next process begins with *)
(* the durable one.                                                        *)
(***************************************************************************)
CONSTANTS Images,   \* every value the account data may take
          Fresh     \* that of a server that was never used

VARIABLES up,       \* there is a process
          live, durable

vars == <<up, live, durable>>

Init == up = TRUE /\ live = Fresh /\ durable = Fresh

Change  == up /\ live' \in Images /\ UNCHANGED <<up, durable>>
Persist == up /\ durable' = live /\ UNCHANGED <<up, live>>
Crash   == up /\ up' = FALSE /\ live' = Fresh /\ UNCHANGED durable
Restart == ~up /\ up' = TRUE /\ live' = durable /\ UNCHANGED durable

Next == Change \/ Persist \/ Crash \/ Restart

Spec == Init /\ [][Next]_vars
=============================================================================
