------------------------------- MODULE Levels -------------------------------
(***************************************************************************)
(* Experience and levels (gateway.py): grant_exp adds an amount, levels up *)
(* as often as the curve of tb_lvexp allows, tells the HUD and saves the   *)
(* session; monsters and quests both grant.  exp_to_next is 0 from the     *)
(* last level of the curve on, where exp only piles up.                    *)
(*                                                                         *)
(* One character, on one connection at a time.  Abstracted: a save is one  *)
(* step (Storage has its steps) that may raise.  Rewards puts this module  *)
(* and Quests together.                                                    *)
(***************************************************************************)
EXTENDS Integers, FiniteSetsExt

CONSTANTS
    LastLevel,          \* the curve has a next_lv_exp for the levels before it
    next_lv_exp,        \* of those levels
    Amounts,            \* what a monster or a quest grants
    MaxEarned,          \* bound on all of it
    MaxFaults           \* bound on the saves that raise and the crashes

LevelsAssumption ==
    /\ LastLevel \in Nat \ {0}
    /\ next_lv_exp \in [1..(LastLevel - 1) -> Nat]
    /\ Amounts \subseteq Int /\ MaxEarned \in Nat /\ MaxFaults \in Nat

VARIABLES
    online,         \* the character is in the world on a connection
    s,              \* the session's level and exp
    row, disk,      \* the character's, in storage._data and in accounts.json
    hud,            \* what the client was last told
    earned,         \* ghost: all the exp granted, as the session and the row know it
    faults          \* saves that raised, and crashes

vars == <<online, s, row, disk, hud, earned, faults>>

New == [level |-> 1, exp |-> 0]

Init ==
    /\ online = FALSE
    /\ s = New /\ row = New /\ disk = New /\ hud = New
    /\ earned = 0 /\ faults = 0

exp_to_next(l) == IF l < LastLevel THEN next_lv_exp[l] ELSE 0

\* What the levels below l have cost.
Spent(l) == MapThenSumSet(exp_to_next, 1..(l - 1))

\* on_login_gateway: load the row, send level and exp.
LoginGateway ==
    /\ ~online /\ online' = TRUE
    /\ s' = row /\ hud' = row
    /\ UNCHANGED <<row, disk, earned, faults>>

\* A session's level and exp, and the loop of grant_exp on it.
Standing == [level : Nat \ {0}, exp : Nat]
LevelUp[c \in Standing] ==
    LET need == exp_to_next(c.level)
    IN  IF need > 0 /\ c.exp >= need
        THEN LevelUp[[level |-> c.level + 1, exp |-> c.exp - need]] ELSE c

\* Bugs a change of this code could bring in stand before the definition they
\* would replace; they only show that a property below notices them.
\* Level and exp after a grant of that many.
Granted(c) == LevelUp[c]

HudEither(c) ==             \* LEVEL in place of EXP
    IF c.level # s.level THEN [hud EXCEPT !.level = c.level] ELSE [hud EXCEPT !.exp = c.exp]

\* CL_UPDATE_INFO names EXP always, LEVEL if it has changed.
Hud(c) == [hud EXCEPT !.exp = c.exp, !.level = IF c.level # s.level THEN c.level ELSE @]

\* How a save ends: it succeeds; it raises, the connection ends, and the finally
\* block of handle_conn saves after all ("late"); or that fails too ("lost").
Ends == {"ok", "late", "lost"}

\* save_session.
SaveSession(end) ==
    /\ row' = s'
    /\ disk' = IF end = "lost" THEN disk ELSE row'
    /\ online' = (end = "ok")
    /\ faults' = IF end = "ok" THEN faults ELSE faults + 1
    /\ faults' <= MaxFaults

\* grant_exp returns at once for an amount that is not positive.
GrantExp(amount, end) ==
    /\ online /\ amount > 0
    /\ earned + amount <= MaxEarned
    /\ earned' = earned + amount
    /\ s' = Granted([s EXCEPT !.exp = @ + amount])
    /\ hud' = Hud(s')
    /\ SaveSession(end)

\* The finally block of handle_conn, when the client has gone or another save
\* of this character's handlers has raised.
Finally(end) ==
    /\ online /\ online' = FALSE
    /\ row' = s
    /\ disk' = IF end = "lost" THEN disk ELSE row'
    /\ faults' = IF end = "ok" THEN faults ELSE faults + 1
    /\ faults' <= MaxFaults
    /\ UNCHANGED <<s, hud, earned>>

\* A save that has nothing to do with levels: the store is one file.
OtherSave ==
    /\ disk' = row
    /\ UNCHANGED <<online, s, row, hud, earned, faults>>

\* The process dies and starts again; what was not saved was never earned.
Die ==
    /\ online' = FALSE /\ row' = disk
    /\ earned' = Spent(disk.level) + disk.exp
    /\ faults < MaxFaults /\ faults' = faults + 1
    /\ UNCHANGED <<s, disk, hud>>

Next ==
    \/ LoginGateway \/ OtherSave \/ Die
    \/ \E end \in Ends : Finally(end)
    \/ \E amount \in Amounts, end \in Ends : GrantExp(amount, end)

Spec == Init /\ [][Next]_vars
-----------------------------------------------------------------------------
\* No level-up is left undone, however much was granted at once, and the HUD shows
\* the session's level and exp, which CL_UPDATE_INFO names in part (grant_exp).
LevelsShown ==
    /\ \A c \in {s, row, disk} : exp_to_next(c.level) > 0 => c.exp < exp_to_next(c.level)
    /\ online => hud = s
=============================================================================
