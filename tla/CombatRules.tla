---------------------------- MODULE CombatRules ----------------------------
(* The parameters of a fight, for Combat and for Field, which refines it. *)
EXTENDS Integers, FiniteSets

CONSTANTS
    Uids,           \* monster uids
    MaxHp,          \* s.maxhp
    MaxBlow,        \* the most a blow takes; the least, maxhp // 200, is 1
    MAX_ATTACKERS

ASSUME CombatAssumption ==
    /\ MaxHp \in Nat \ {0} /\ MaxBlow \in Nat \ {0} /\ MAX_ATTACKERS \in Nat \ {0}
    /\ IsFiniteSet(Uids)
=============================================================================
