------------------------------- MODULE Quests -------------------------------
(***************************************************************************)
(* The quest chain of one character (gateway.py, on_task_op,               *)
(* advance_kill_quests, _give_award and what on_login_gateway sends of it).*)
(* Submitting a quest saves the store once for each part of the award and  *)
(* once at the end, when the next quest is unlocked.  No other handler     *)
(* runs in between, but the process may die there, or a save may raise:    *)
(* the handler is left and handle_conn closes the connection.              *)
(*                                                                         *)
(* Abstracted: an award is its number of parts (exp, money and items:      *)
(* Sessions has what each does); a save is one step (Storage).             *)
(***************************************************************************)
EXTENDS Integers

CONSTANTS
    Tasks,          \* task ids of tb_task
    First,          \* task 1
    NextTask,       \* next_task of each
    NoTask,         \* there is none
    Monsters,       \* mapmonster keys
    Target, Need,   \* mid and count of a kill quest's commit_conds; Need is 0
                    \* for a quest that asks for no kill
    Awards,         \* parts of each award that exist
    AnyTask,        \* TRUE: the client may accept a quest it was not offered
    MaxFaults       \* bound on the failures

ASSUME QuestsAssumption ==
    /\ First \in Tasks /\ NoTask \notin Tasks
    /\ NextTask \in [Tasks -> Tasks \cup {NoTask}]
    /\ Target \in [Tasks -> Monsters]
    /\ Need \in [Tasks -> Nat] /\ Awards \in [Tasks -> Nat]
    /\ AnyTask \in BOOLEAN /\ MaxFaults \in Nat

VARIABLES
    online,     \* the character is in the world on a connection
    row,        \* the character's row in storage._data
    disk,       \* the row as accounts.json has it
    view,       \* the quest list the client shows
    pc,         \* on_task_op's progress: "idle"; "award", between two parts of the
                \* award; "part", a part's save to come; "op", the last save to come
    task, left, \* the quest being submitted, and the parts of its award to come
    faults      \* bound: failures so far

vars == <<online, row, disk, view, pc, task, left, faults>>

\* TS_CAN_ACCEPT, TS_ACCEPTED, TS_CAN_COMMIT, TS_COMMIT; "none" is no entry.
States == {"none", "can_accept", "accepted", "can_commit", "commit"}

\* given is a ghost: the parts of each quest's award the row has received.
Row == [tasks : [Tasks -> States], prog : [Tasks -> Nat], given : [Tasks -> Nat]]

\* on_create_player's row.
NewRow == [tasks |-> [t \in Tasks |-> IF t = First THEN "can_accept" ELSE "none"],
           prog |-> [t \in Tasks |-> 0], given |-> [t \in Tasks |-> 0]]

NoView == [t \in Tasks |-> "none"]

Init ==
    /\ online = FALSE
    /\ row = NewRow /\ disk = NewRow
    /\ view = NoView
    /\ pc = "idle" /\ task = First /\ left = 0
    /\ faults = 0

\* What CL_PLAYER_TASKS lists: everything but finished quests.
Listed(tasks) == [t \in Tasks |-> IF tasks[t] = "commit" THEN "none" ELSE tasks[t]]

\* on_login_gateway.
Enter ==
    /\ ~online
    /\ online' = TRUE
    /\ view' = Listed(row.tasks)
    /\ UNCHANGED <<row, disk, pc, task, left, faults>>

\* on_task_op, accept: whatever the state of the quest was.
Accept(t) ==
    /\ online /\ pc = "idle"
    /\ view[t] = "can_accept" \/ AnyTask
    /\ LET new == IF Need[t] > 0 THEN "accepted" ELSE "can_commit" IN
       /\ row' = [row EXCEPT !.tasks[t] = new,
                             !.prog[t] = IF Need[t] > 0 THEN 0 ELSE @]
       /\ view' = [view EXCEPT ![t] = new]
    /\ pc' = "op"
    /\ UNCHANGED <<online, disk, task, left, faults>>

\* The accepted quests that ask for monster m.
Hunting(m) == {t \in Tasks : row.tasks[t] = "accepted" /\ Need[t] > 0 /\ Target[t] = m}

\* min(prog + 1, need).
Progress(t) == IF row.prog[t] < Need[t] THEN row.prog[t] + 1 ELSE Need[t]

\* Bugs a change of this code could bring in stand before the definition they
\* would replace; they only show that a property below notices them.
DoneLate(m) == {t \in Hunting(m) : row.prog[t] >= Need[t]}      \* one kill late

\* Those that this kill completes.
Done(m) == {t \in Hunting(m) : Progress(t) >= Need[t]}

\* advance_kill_quests, for a monster just killed; on_attack awards the exp and
\* saves again, which changes nothing here.
Kill(m) ==
    /\ online /\ pc = "idle"
    /\ row' = [row EXCEPT
                  !.prog = [t \in Tasks |-> IF t \in Hunting(m) THEN Progress(t) ELSE @[t]],
                  !.tasks = [t \in Tasks |-> IF t \in Done(m) THEN "can_commit" ELSE @[t]]]
    /\ view' = [t \in Tasks |-> IF t \in Done(m) THEN "can_commit" ELSE view[t]]
    /\ pc' = "op"
    /\ UNCHANGED <<online, disk, task, left, faults>>

SubmitLate(t) ==        \* the quest stays committable until after the award
    /\ online /\ pc = "idle"
    /\ row.tasks[t] = "can_commit"
    /\ view' = [view EXCEPT ![t] = "none"]
    /\ pc' = "award" /\ task' = t /\ left' = Awards[t]
    /\ UNCHANGED <<online, row, disk, faults>>

\* on_task_op, submit, up to the award.  The client forgets the quest.
Submit(t) ==
    /\ online /\ pc = "idle"
    /\ row.tasks[t] = "can_commit"
    /\ row' = [row EXCEPT !.tasks[t] = "commit"]
    /\ view' = [view EXCEPT ![t] = "none"]
    /\ pc' = "award" /\ task' = t /\ left' = Awards[t]
    /\ UNCHANGED <<online, disk, faults>>

\* One part of _give_award: grant_exp, grant_money or give_item changes the row ...
AwardPart ==
    /\ pc = "award" /\ left > 0
    /\ row' = [row EXCEPT !.given[task] = @ + 1]
    /\ pc' = "part"
    /\ UNCHANGED <<online, disk, view, task, left, faults>>

\* ... and saves the store.
PartSaved ==
    /\ pc = "part" /\ disk' = row
    /\ pc' = "award" /\ left' = left - 1
    /\ UNCHANGED <<online, row, view, task, faults>>

UnlockSilent ==         \* the client is not told of the next quest
    /\ pc = "award" /\ left = 0
    /\ IF NextTask[task] \in Tasks /\ row.tasks[NextTask[task]] = "none"
       THEN row' = [row EXCEPT !.tasks[NextTask[task]] = "can_accept"]
       ELSE UNCHANGED row
    /\ pc' = "op"
    /\ UNCHANGED <<online, disk, view, task, left, faults>>

\* The rest of the submission: the next quest, unless the character has it.
Unlock ==
    /\ pc = "award" /\ left = 0
    /\ IF NextTask[task] \in Tasks /\ row.tasks[NextTask[task]] = "none"
       THEN /\ row' = [row EXCEPT !.tasks[NextTask[task]] = "can_accept"]
            /\ view' = [view EXCEPT ![NextTask[task]] = "can_accept"]
       ELSE UNCHANGED <<row, view>>
    /\ pc' = "op"
    /\ UNCHANGED <<online, disk, task, left, faults>>

OpUnsaved ==            \* no storage.save at the end
    /\ pc = "op" /\ pc' = "idle"
    /\ UNCHANGED <<online, row, disk, view, task, left, faults>>

\* The handler's last save; the request is answered.
OpSaved ==
    /\ pc = "op" /\ disk' = row
    /\ pc' = "idle"
    /\ UNCHANGED <<online, row, view, task, left, faults>>
-----------------------------------------------------------------------------
\* A save raises, one of on_task_op or of any other handler.  The exception ends
\* the connection, and the finally block of handle_conn saves once more, which
\* may fail too.
SaveRaises ==
    /\ online /\ pc # "award" /\ faults < MaxFaults
    /\ online' = FALSE /\ pc' = "idle" /\ view' = NoView
    /\ disk' \in {disk, row}
    /\ faults' = faults + 1
    /\ UNCHANGED <<row, task, left>>

\* The process dies and starts again.
Die ==
    /\ faults < MaxFaults
    /\ online' = FALSE /\ pc' = "idle" /\ view' = NoView
    /\ row' = disk
    /\ faults' = faults + 1
    /\ UNCHANGED <<disk, task, left>>

\* An orderly disconnect (save_session), or another character's handler: either
\* saves the store.
Disconnect ==
    /\ online /\ pc = "idle"
    /\ online' = FALSE /\ view' = NoView
    /\ disk' = row
    /\ UNCHANGED <<row, pc, task, left, faults>>

OtherSave ==
    /\ pc = "idle" /\ disk' = row
    /\ UNCHANGED <<online, row, view, pc, task, left, faults>>

Next ==
    \/ Enter \/ Disconnect \/ OtherSave \/ SaveRaises \/ Die
    \/ \E t \in Tasks : Accept(t) \/ Submit(t)
    \/ \E m \in Monsters : Kill(m)
    \/ AwardPart \/ PartSaved \/ Unlock \/ OpSaved

Spec == Init /\ [][Next]_vars
-----------------------------------------------------------------------------
\* Type invariant.
TypeOK ==
    /\ online \in BOOLEAN
    /\ row \in Row /\ disk \in Row
    /\ view \in [Tasks -> States]
    /\ pc \in {"idle", "award", "part", "op"}
    /\ task \in Tasks /\ left \in 0..Awards[task]
    /\ faults \in 0..MaxFaults

Images == {row, disk}

\* Whatever fails and when: no part of an award is given twice, and none without
\* the quest being finished, in memory or after a restart (on_task_op).
RewardedOnce == \A r \in Images, t \in Tasks :
    /\ r.given[t] <= Awards[t]
    /\ r.given[t] > 0 => r.tasks[t] = "commit"

\* A kill quest may be submitted when the kills are made and not before
\* (advance_kill_quests, on_task_op).
DoneWhenKilled == \A r \in Images, t \in Tasks : Need[t] > 0 =>
    /\ r.prog[t] <= Need[t]
    /\ r.tasks[t] = "accepted" => r.prog[t] < Need[t]
    /\ r.tasks[t] \in {"can_commit", "commit"} => r.prog[t] = Need[t]

\* The client's quest list is the server's: a quest it does not show cannot be
\* accepted or submitted by the player, and one it should not show would be.
ViewTrue == online /\ pc = "idle" => view = Listed(row.tasks)

\* "Reward + advance chain": as long as nothing fails, every part of an answered
\* submission's award is given, the next quest is there, and all of it is saved.
ChainAdvances == \A t \in Tasks : row.tasks[t] = "commit" =>
    /\ row.given[t] = Awards[t]
    /\ NextTask[t] \in Tasks => row.tasks[NextTask[t]] # "none"
ChainAdvancesUnlessFault == faults = 0 /\ pc = "idle" => ChainAdvances /\ disk = row
=============================================================================
