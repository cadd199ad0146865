------------------------------- MODULE Rewards -------------------------------
(***************************************************************************)
(* Quests and Levels of one character together: what kills and quests pay  *)
(* (gateway.py, on_attack, on_task_op, _give_award).  Both components are  *)
(* parts of one session and one row of the store, so they are entered,     *)
(* saved, left and lost at the same instants; exp flows from on_attack and *)
(* from the exp parts of an award into grant_exp.                          *)
(*                                                                         *)
(* An attack saves once for each victim, when the quests have progressed   *)
(* (advance_kill_quests), and once for the exp of them all.  What fails in *)
(* between is lost, since on_attack is left.                               *)
(***************************************************************************)
EXTENDS Quests, FiniteSetsExt

CONSTANTS
    LastLevel, next_lv_exp,     \* as in Levels
    KillExp,                    \* monster_exp
    AwardExp,                   \* of each part of each award, the exp; 0 if it
                                \* is money or an item
    MaxEarned                   \* bound on all the exp of a character

VARIABLES
    s, lrow, ldisk, hud, earned,        \* Levels; faults are shared
    credit,         \* on_attack's total_exp
    slain           \* ghost: the exp of kills, in the row and on disk

levelVars == <<s, lrow, ldisk, hud, earned>>
allVars   == <<vars, levelVars, credit, slain>>

ExpParts(t) == 1..Awards[t]
Amounts == 0..MaxEarned      \* an attack may kill several

L == INSTANCE Levels WITH row <- lrow, disk <- ldisk

\* The exp of the first parts of awards, as many as given says of each quest.
Paid(given) == MapThenSumSet(
    LAMBDA t : MapThenSumSet(LAMBDA i : AwardExp[t][i], 1..given[t]), Tasks)

ASSUME RewardsAssumption ==
    /\ IsFiniteSet(Tasks) /\ KillExp \in [Monsters -> Nat]
    /\ \A t \in Tasks : AwardExp[t] \in [ExpParts(t) -> Nat]
    /\ Paid(Awards) <= MaxEarned
    /\ L!LevelsAssumption

RewardsInit ==
    /\ Init /\ L!Init
    /\ credit = 0 /\ slain = [row |-> 0, disk |-> 0]

\* A save raises; the finally block may succeed.
Raises(end) == SaveRaises /\ disk' = IF end = "lost" THEN disk ELSE row

Saved(end) == slain' = IF end = "lost" THEN slain ELSE [slain EXCEPT !.disk = slain.row]

\* No attack is under way: the next request may be served.
Free == pc = "idle" /\ credit = 0

\* on_login_gateway.
EnterWorld == Enter /\ L!LoginGateway /\ UNCHANGED <<credit, slain>>

\* on_task_op, up to its first save.
TaskOp(t) ==
    /\ Free
    /\ Accept(t) \/ Submit(t)
    /\ UNCHANGED <<levelVars, credit, slain>>

\* on_attack: one victim more.
Slay(m) ==
    /\ Kill(m)
    /\ earned + credit + KillExp[m] + Paid(Awards) <= MaxEarned
    /\ credit' = credit + KillExp[m]
    /\ UNCHANGED <<levelVars, slain>>

\* The end of on_attack: grant_exp, whose save may raise.
GrantKills(end) ==
    /\ pc = "idle" /\ credit > 0 /\ credit' = 0
    /\ L!GrantExp(credit, end)
    /\ slain' = LET n == slain.row + credit
                IN  [row |-> n, disk |-> IF end = "lost" THEN slain.disk ELSE n]
    /\ IF end = "ok" THEN OtherSave ELSE Raises(end)

\* The exp of the part of the award that is being given.
PartExp == AwardExp[task][Awards[task] - left + 1]

\* _give_award: the row takes the next part, without its exp so far.
GiveAward == (AwardPart \/ Unlock) /\ UNCHANGED <<levelVars, credit, slain>>

\* A bug: the exp of a quest is granted without regard to levels and rows.
PartDoneUngranted ==
    /\ PartSaved /\ Saved("ok")
    /\ L!OtherSave
    /\ UNCHANGED credit

\* A part is in the store: exp by grant_exp, the rest by a save of its own.
PartDone ==
    /\ PartSaved /\ Saved("ok")
    /\ IF PartExp > 0 THEN L!GrantExp(PartExp, "ok") ELSE L!OtherSave
    /\ UNCHANGED credit

\* The last save of on_task_op, and that of advance_kill_quests.
OpDone == OpSaved /\ Saved("ok") /\ L!OtherSave /\ UNCHANGED credit

\* A save raises in on_task_op or advance_kill_quests, and handle_conn leaves.
Fails(end) ==
    /\ pc \in {"part", "op"} /\ end # "ok"
    /\ Raises(end) /\ Saved(end)
    /\ IF pc = "part" /\ PartExp > 0 THEN L!GrantExp(PartExp, end) ELSE L!Finally(end)
    /\ credit' = 0

\* An orderly end of the connection, and a save of somebody else's.
Leave == Free /\ Disconnect /\ L!Finally("ok") /\ Saved("ok") /\ UNCHANGED credit
SaveElsewhere == Free /\ OtherSave /\ L!OtherSave /\ Saved("ok") /\ UNCHANGED credit

Restart == Die /\ L!Die /\ credit' = 0 /\ slain' = [slain EXCEPT !.row = slain.disk]

RewardsNext ==
    \/ EnterWorld \/ Leave \/ SaveElsewhere \/ Restart
    \/ \E t \in Tasks : TaskOp(t)
    \/ \E m \in Monsters : Slay(m)
    \/ GiveAward \/ PartDone \/ OpDone
    \/ \E end \in L!Ends : GrantKills(end) \/ Fails(end)

RewardsSpec == RewardsInit /\ [][RewardsNext]_allVars
-----------------------------------------------------------------------------
\* Levels' property holds of the whole: no level-up is left undone, and the HUD is
\* right (grant_exp).
LevelsShown == L!LevelsShown

\* The exp and level of a row are worth what its kills and the exp parts of its
\* awards have paid, in memory and in accounts.json: no crash, failed save or
\* reconnect leaves a part of an award marked as given without its exp, or pays it
\* again (_give_award, grant_exp, save_session).
Worth(l) == L!Spent(l.level) + l.exp
ExpAccounted ==
    /\ pc # "part" => Worth(lrow) = slain.row + Paid(row.given)
    /\ Worth(ldisk) = slain.disk + Paid(disk.given)
=============================================================================
