---------------------------- MODULE QuestsProofs ----------------------------
(***************************************************************************)
(* What holds of Quests, and of Rewards, which puts Quests and Levels      *)
(* together, for any quests, objectives, awards and experience curve, and  *)
(* any failures:                                                           *)
(*   1. the invariants of Quests, for any client as far as they hold for   *)
(*      any, the rest for a client that accepts what it was offered;       *)
(*   2. sums over finite sets and intervals (MapThenSumSet);               *)
(*   3. the curve: Spent, Paid, and the loop of grant_exp;                 *)
(*   4. Rewards: it implements Quests and Levels, and its own invariants.  *)
(***************************************************************************)
EXTENDS Rewards, FiniteSetTheorems, WellFoundedInduction, TLAPS

Offered == ~AnyTask

Inside == /\ pc # "idle" => online
          /\ pc = "part" => left > 0

Shown == online => view = Listed(row.tasks)

AInv == TypeOK /\ Inside /\ Shown /\ DoneWhenKilled

\* How far the award of the quest being submitted has come.
Paying ==
    /\ pc = "award" => row.tasks[task] = "commit" /\ row.given[task] + left = Awards[task]
    /\ pc = "part" => /\ row.tasks[task] = "commit" /\ left > 0
                      /\ row.given[task] + left = Awards[task] + 1

\* What holds of the quests whose submission is over.
Chained == faults = 0 =>
    /\ \A t \in Tasks : row.tasks[t] = "commit" /\ (t = task => pc \in {"idle", "op"}) =>
           /\ row.given[t] = Awards[t]
           /\ NextTask[t] \in Tasks => row.tasks[NextTask[t]] # "none"
    /\ pc = "idle" => disk = row

IInv == AInv /\ RewardedOnce /\ Paying /\ Chained

LEMMA AInvInit == Init => AInv
<1> SUFFICES ASSUME Init PROVE AInv
    OBVIOUS
<1>1. NewRow \in Row
    BY DEF NewRow, Row, States
<1>2. 0 \in 0..MaxFaults /\ 0 \in 0..Awards[First]
    BY QuestsAssumption
<1>3. TypeOK
    BY <1>1, <1>2, QuestsAssumption DEF Init, TypeOK, NoView, States
<1>4. DoneWhenKilled
    BY QuestsAssumption DEF Init, DoneWhenKilled, Images, NewRow
<1> QED BY <1>3, <1>4 DEF Init, AInv, Inside, Shown

\* What a kill does to one quest.
LEMMA KillRow ==
    ASSUME TypeOK, NEW m \in Monsters, Kill(m), NEW t \in Tasks
    PROVE  /\ t \in Hunting(m) => row'.prog[t] = Progress(t)
           /\ t \notin Hunting(m) => row'.prog[t] = row.prog[t]
           /\ t \in Done(m) => row'.tasks[t] = "can_commit" /\ view'[t] = "can_commit"
           /\ t \notin Done(m) => row'.tasks[t] = row.tasks[t] /\ view'[t] = view[t]
           /\ row'.given = row.given
BY DEF Kill, TypeOK, Row

LEMMA AInvKill == ASSUME AInv, NEW m \in Monsters, Kill(m) PROVE AInv'
<1>1. TypeOK /\ row \in Row
    BY DEF AInv, TypeOK
<1>2. \A t \in Tasks : row.prog[t] \in Nat /\ Need[t] \in Nat
    BY <1>1, QuestsAssumption DEF Row
<1>3. ASSUME NEW t \in Tasks PROVE Progress(t) \in Nat
    <2>1. row.prog[t] \in Nat /\ Need[t] \in Nat
        BY <1>2
    <2> QED BY <2>1 DEF Progress
<1>4. row' \in Row /\ view' \in [Tasks -> States]
    <2> DEFINE p == [t \in Tasks |-> IF t \in Hunting(m) THEN Progress(t) ELSE row.prog[t]]
               q == [t \in Tasks |-> IF t \in Done(m) THEN "can_commit" ELSE row.tasks[t]]
    <2>1. p \in [Tasks -> Nat] /\ q \in [Tasks -> States]
        BY <1>1, <1>2, <1>3 DEF Row, States
    <2>2. row' = [row EXCEPT !.prog = p, !.tasks = q]
        BY DEF Kill
    <2>3. view' \in [Tasks -> States]
        BY <1>1 DEF Kill, TypeOK, States
    <2> HIDE DEF p, q
    <2> QED BY <2>1, <2>2, <2>3, <1>1 DEF Row
<1>5. TypeOK'
    BY <1>1, <1>4 DEF Kill, TypeOK
<1>6. Inside'
    BY DEF Kill, Inside
<1>7. Shown'
    <2>1. ASSUME NEW t \in Tasks PROVE view'[t] = Listed(row'.tasks)[t]
        <3>1. view[t] = IF row.tasks[t] = "commit" THEN "none" ELSE row.tasks[t]
            BY DEF Kill, AInv, Shown, Listed
        <3>2. Listed(row'.tasks)[t] = IF row'.tasks[t] = "commit" THEN "none" ELSE row'.tasks[t]
            BY DEF Listed
        <3>3. CASE t \in Done(m)
            BY <3>2, <3>3, <1>1, KillRow
        <3>4. CASE t \notin Done(m)
            BY <3>1, <3>2, <3>4, <1>1, KillRow
        <3> QED BY <3>3, <3>4
    <2> QED BY <2>1, <1>4 DEF Shown, Listed
<1>8. DoneWhenKilled'
    <2>1. disk' = disk
        BY DEF Kill
    <2>2. ASSUME NEW t \in Tasks, Need[t] > 0
          PROVE  /\ row'.prog[t] <= Need[t]
                 /\ row'.tasks[t] = "accepted" => row'.prog[t] < Need[t]
                 /\ row'.tasks[t] \in {"can_commit", "commit"} => row'.prog[t] = Need[t]
        <3>1. /\ row.prog[t] <= Need[t]
              /\ row.tasks[t] = "accepted" => row.prog[t] < Need[t]
              /\ row.tasks[t] \in {"can_commit", "commit"} => row.prog[t] = Need[t]
            BY <2>2 DEF AInv, DoneWhenKilled, Images
        <3>2. CASE t \in Hunting(m)
            <4>1. row.tasks[t] = "accepted" /\ row'.prog[t] = Progress(t)
                BY <3>2, <1>1, KillRow DEF Hunting
            <4>2. Progress(t) = row.prog[t] + 1
                BY <4>1, <3>1, <1>2 DEF Progress
            <4>3. CASE t \in Done(m)
                BY <4>1, <4>2, <4>3, <3>1, <1>1, <1>2, KillRow DEF Done
            <4>4. CASE t \notin Done(m)
                BY <4>1, <4>2, <4>4, <3>1, <3>2, <1>1, <1>2, KillRow DEF Done
            <4> QED BY <4>3, <4>4
        <3>3. CASE t \notin Hunting(m)
            BY <3>1, <3>3, <1>1, KillRow DEF Done
        <3> QED BY <3>2, <3>3
    <2> QED BY <2>1, <2>2 DEF AInv, DoneWhenKilled, Images
<1> QED BY <1>5, <1>6, <1>7, <1>8 DEF AInv

\* Accepting a quest starts its count over.
LEMMA AInvAccept == ASSUME AInv, NEW t \in Tasks, Accept(t) PROVE AInv'
<1> DEFINE new == IF Need[t] > 0 THEN "accepted" ELSE "can_commit"
           p   == IF Need[t] > 0 THEN 0 ELSE row.prog[t]
           r1  == [row EXCEPT !.tasks[t] = new]
           r2  == [r1 EXCEPT !.prog[t] = p]
<1>1. row \in Row /\ p \in Nat /\ new \in States /\ new # "commit"
    BY DEF AInv, TypeOK, Row, States
<1>2. r1 \in Row /\ r1.tasks = [row.tasks EXCEPT ![t] = new] /\ r1.prog = row.prog
    BY <1>1 DEF Row
<1>3. row' = r2 /\ view' = [view EXCEPT ![t] = new] /\ disk' = disk /\ online
    BY <1>1 DEF Accept, Row
<1> HIDE DEF r1
<1>4. row' \in Row /\ row'.tasks = r1.tasks /\ row'.prog = [row.prog EXCEPT ![t] = p]
    BY <1>1, <1>2, <1>3 DEF Row
<1>5. TypeOK'
    BY <1>1, <1>3, <1>4 DEF Accept, AInv, TypeOK
<1>6. Inside'
    BY DEF Accept, Inside
<1>7. Shown'
    <2>1. view = Listed(row.tasks) /\ view \in [Tasks -> States]
        BY <1>3 DEF AInv, Shown, TypeOK
    <2>2. ASSUME NEW q \in Tasks PROVE view'[q] = Listed(row'.tasks)[q]
        BY <2>1, <1>1, <1>2, <1>3, <1>4 DEF Listed, Row
    <2>3. view' \in [Tasks -> States]
        BY <1>5 DEF TypeOK
    <2> QED BY <2>2, <2>3 DEF Shown, Listed
<1>8. DoneWhenKilled'
    <2>1. ASSUME NEW q \in Tasks, Need[q] > 0
          PROVE  /\ row'.prog[q] <= Need[q]
                 /\ row'.tasks[q] = "accepted" => row'.prog[q] < Need[q]
                 /\ row'.tasks[q] \in {"can_commit", "commit"} => row'.prog[q] = Need[q]
        <3>1. CASE q = t
            <4>1. row'.prog[q] = 0 /\ row'.tasks[q] = "accepted"
                BY <2>1, <3>1, <1>1, <1>2, <1>4 DEF Row
            <4> QED BY <4>1, <2>1, QuestsAssumption
        <3>2. CASE q # t
            <4>1. row'.prog[q] = row.prog[q] /\ row'.tasks[q] = row.tasks[q]
                BY <3>2, <1>1, <1>2, <1>4 DEF Row
            <4>2. /\ row.prog[q] <= Need[q]
                  /\ row.tasks[q] = "accepted" => row.prog[q] < Need[q]
                  /\ row.tasks[q] \in {"can_commit", "commit"} => row.prog[q] = Need[q]
                BY <2>1 DEF AInv, DoneWhenKilled, Images
            <4> QED BY <4>1, <4>2
        <3> QED BY <3>1, <3>2
    <2> QED BY <2>1, <1>3 DEF AInv, DoneWhenKilled, Images
<1> QED BY <1>5, <1>6, <1>7, <1>8 DEF AInv

LEMMA AInvSubmit == ASSUME AInv, NEW t \in Tasks, Submit(t) PROVE AInv'
<1>1. row \in Row
    BY DEF AInv, TypeOK
<1>2. /\ row' \in Row /\ row'.prog = row.prog /\ row'.given = row.given
      /\ row'.tasks = [row.tasks EXCEPT ![t] = "commit"]
    BY <1>1 DEF Submit, Row, States
<1>3. left' \in 0..Awards[t] /\ task' = t
    BY QuestsAssumption DEF Submit
<1>4. TypeOK'
    BY <1>2, <1>3 DEF Submit, AInv, TypeOK, States
<1>5. Inside'
    BY DEF Submit, Inside
<1>6. Shown'
    BY <1>1, <1>2 DEF Submit, AInv, Shown, Listed, Row
<1>7. DoneWhenKilled'
    <2>1. ASSUME NEW q \in Tasks PROVE \/ row'.tasks[q] = row.tasks[q]
                                       \/ row.tasks[q] = "can_commit" /\ row'.tasks[q] = "commit"
        <3>1. row.tasks[t] = "can_commit" /\ row.tasks \in [Tasks -> States]
            BY <1>1 DEF Submit, Row
        <3>2. CASE q = t
            BY <3>1, <3>2, <1>2
        <3>3. CASE q # t
            BY <3>1, <3>3, <1>2
        <3> QED BY <3>2, <3>3
    <2>2. ASSUME NEW q \in Tasks, Need[q] > 0
          PROVE  /\ row'.prog[q] <= Need[q]
                 /\ row'.tasks[q] = "accepted" => row'.prog[q] < Need[q]
                 /\ row'.tasks[q] \in {"can_commit", "commit"} => row'.prog[q] = Need[q]
        <3>1. /\ row.prog[q] <= Need[q]
              /\ row.tasks[q] = "accepted" => row.prog[q] < Need[q]
              /\ row.tasks[q] \in {"can_commit", "commit"} => row.prog[q] = Need[q]
            BY <2>2 DEF AInv, DoneWhenKilled, Images
        <3> QED BY <3>1, <2>1, <1>2
    <2>3. disk' = disk
        BY DEF Submit
    <2> QED BY <2>2, <2>3 DEF AInv, DoneWhenKilled, Images
<1> QED BY <1>4, <1>5, <1>6, <1>7 DEF AInv

\* Unlocking the next quest lists it.
LEMMA AInvUnlock == ASSUME AInv, Unlock PROVE AInv'
<1>1. row \in Row /\ disk' = disk /\ online /\ online' = online /\ task \in Tasks
    BY DEF AInv, TypeOK, Inside, Unlock
<1>2. /\ row' \in Row /\ row'.prog = row.prog
      /\ \A q \in Tasks : row'.tasks[q] = row.tasks[q] \/ row'.tasks[q] = "can_accept"
    BY <1>1 DEF Unlock, Row, States
<1>3. TypeOK'
    BY <1>2 DEF Unlock, AInv, TypeOK, States
<1>4. Inside'
    BY <1>1 DEF Unlock, Inside
<1>5. Shown'
    BY <1>1 DEF Unlock, AInv, Shown, Listed, Row
<1>6. DoneWhenKilled'
    BY <1>1, <1>2 DEF AInv, DoneWhenKilled, Images
<1> QED BY <1>3, <1>4, <1>5, <1>6 DEF AInv

LEMMA AInvNext == AInv /\ [Next]_vars => AInv'
<1> SUFFICES ASSUME AInv, [Next]_vars PROVE AInv'
    OBVIOUS
<1>t. row \in Row /\ disk \in Row /\ Listed(row.tasks) \in [Tasks -> States]
          /\ NoView \in [Tasks -> States]
    BY DEF AInv, TypeOK, Row, Listed, NoView, States
<1>1. CASE Enter
    <2>1. TypeOK'
        BY <1>1, <1>t DEF Enter, AInv, TypeOK
    <2>2. online' = TRUE /\ pc' = pc /\ left' = left /\ view' = Listed(row'.tasks)
        BY <1>1 DEF Enter
    <2>4. Inside' /\ Shown'
        BY <2>2 DEF AInv, Inside, Shown
    <2>3. DoneWhenKilled'
        BY <1>1 DEF Enter, AInv, DoneWhenKilled, Images
    <2> QED BY <2>1, <2>3, <2>4 DEF AInv
<1>2. CASE Disconnect \/ OtherSave
    <2>1. row' = row /\ disk' = row /\ pc = "idle" /\ pc' = "idle" /\ UNCHANGED <<task, left, faults>>
        BY <1>2 DEF Disconnect, OtherSave
    <2>2. view' \in [Tasks -> States] /\ online' \in BOOLEAN
        BY <1>2, <1>t DEF Disconnect, OtherSave, AInv, TypeOK
    <2>3. Shown'
        BY <1>2 DEF Disconnect, OtherSave, AInv, Shown
    <2>4. TypeOK'
        BY <2>1, <2>2 DEF AInv, TypeOK
    <2> QED BY <2>1, <2>3, <2>4 DEF AInv, Inside, DoneWhenKilled, Images
<1>3. CASE SaveRaises \/ Die
    <2>1. /\ online' = FALSE /\ pc' = "idle" /\ view' = NoView /\ faults' = faults + 1
          /\ row' \in {row, disk} /\ disk' \in {row, disk} /\ faults < MaxFaults
          /\ task' = task /\ left' = left
        BY <1>3 DEF SaveRaises, Die
    <2>2. faults' \in 0..MaxFaults
        BY <2>1, QuestsAssumption DEF AInv, TypeOK
    <2>3. TypeOK'
        BY <2>1, <2>2, <1>t DEF AInv, TypeOK
    <2>4. DoneWhenKilled'
        BY <2>1 DEF AInv, DoneWhenKilled, Images
    <2> QED BY <2>1, <2>3, <2>4 DEF AInv, Inside, Shown
<1>4. ASSUME NEW t \in Tasks, Accept(t) \/ Submit(t) PROVE AInv'
    BY <1>4, AInvAccept, AInvSubmit
<1>5. ASSUME NEW m \in Monsters, Kill(m) PROVE AInv'
    BY <1>5, AInvKill
<1>6. CASE AwardPart
    <2>1. row' \in Row /\ row'.tasks = row.tasks /\ row'.prog = row.prog
        BY <1>6, <1>t DEF AwardPart, Row
    <2>2. TypeOK'
        BY <1>6, <2>1 DEF AwardPart, AInv, TypeOK
    <2> QED BY <1>6, <2>1, <2>2 DEF AwardPart, AInv, Inside, Shown, DoneWhenKilled, Images
<1>7. CASE PartSaved
    <2>1. task \in Tasks /\ Awards[task] \in Nat /\ left \in 0..Awards[task] /\ left > 0
        BY <1>7, QuestsAssumption DEF PartSaved, AInv, TypeOK, Inside
    <2>2. left' \in 0..Awards[task]'
        BY <1>7, <2>1 DEF PartSaved
    <2>3. TypeOK'
        BY <1>7, <2>2 DEF PartSaved, AInv, TypeOK
    <2> QED BY <1>7, <2>3 DEF PartSaved, AInv, Inside, Shown, DoneWhenKilled, Images
<1>8. CASE Unlock
    BY <1>8, AInvUnlock
<1>9. CASE OpSaved
    BY <1>9 DEF OpSaved, AInv, TypeOK, Inside, Shown, DoneWhenKilled, Images
<1>10. CASE UNCHANGED vars
    BY <1>10 DEF vars, AInv, TypeOK, Inside, Shown, DoneWhenKilled, Images
<1> QED BY <1>1, <1>2, <1>3, <1>4, <1>5, <1>6, <1>7, <1>8, <1>9, <1>10 DEF Next
-----------------------------------------------------------------------------
\* The second half: nothing is given twice.

LEMMA IInvInit == Init => IInv
BY AInvInit, QuestsAssumption DEF Init, IInv, RewardedOnce, Images, Paying, Chained, NewRow

\* Which quests are finished, and what was given for them, for the cases below.
LEMMA RowTypes ==
    ASSUME AInv
    PROVE  /\ row.tasks \in [Tasks -> States] /\ disk.tasks \in [Tasks -> States]
           /\ row.given \in [Tasks -> Nat] /\ disk.given \in [Tasks -> Nat]
           /\ task \in Tasks /\ left \in Nat
BY QuestsAssumption DEF AInv, TypeOK, Row

\* A step that keeps the given parts and takes no quest out of "commit" keeps
\* RewardedOnce.
LEMMA SameAwards ==
    ASSUME RewardedOnce, row'.given = row.given, disk' = disk,
           \A t \in Tasks : row.tasks[t] = "commit" => row'.tasks[t] = "commit"
    PROVE  RewardedOnce'
BY DEF RewardedOnce, Images

\* A step outside a submission that finishes no quest, takes none away and is
\* about to save keeps the chain.
LEMMA SameChain ==
    ASSUME Chained, pc = "idle", pc' = "op", row'.given = row.given,
           UNCHANGED <<task, faults>>,
           \A t \in Tasks : /\ row'.tasks[t] = "commit" <=> row.tasks[t] = "commit"
                            /\ row.tasks[t] # "none" => row'.tasks[t] # "none"
    PROVE  Chained'
BY DEF Chained

LEMMA IInvAccept == ASSUME Offered, IInv, NEW t \in Tasks, Accept(t) PROVE IInv'
<1>1. AInv' /\ AInv
    BY AInvAccept DEF IInv
<1>2. row \in Row /\ row.tasks[t] = "can_accept"
    BY DEF Offered, Accept, IInv, AInv, TypeOK, Shown, Listed
<1>3. PICK new \in {"accepted", "can_commit"} :
          row'.given = row.given /\ row'.tasks = [row.tasks EXCEPT ![t] = new]
    BY <1>2 DEF Accept, Row
<1>4. \A q \in Tasks : /\ row'.tasks[q] = "commit" <=> row.tasks[q] = "commit"
                       /\ row.tasks[q] # "none" => row'.tasks[q] # "none"
    BY <1>1, <1>2, <1>3, RowTypes
<1>5. RewardedOnce'
    BY <1>3, <1>4, SameAwards DEF Accept, IInv
<1>6. Chained'
    BY <1>3, <1>4, SameChain DEF Accept, IInv
<1>7. Paying'
    BY DEF Accept, Paying
<1> QED BY <1>1, <1>5, <1>6, <1>7 DEF IInv

LEMMA IInvKill == ASSUME IInv, NEW m \in Monsters, Kill(m) PROVE IInv'
<1>1. AInv' /\ AInv /\ TypeOK
    BY AInvKill DEF IInv, AInv
<1>2. ASSUME NEW q \in Tasks
      PROVE  /\ row'.tasks[q] = "commit" <=> row.tasks[q] = "commit"
             /\ row.tasks[q] # "none" => row'.tasks[q] # "none"
    <2>1. q \in Done(m) => row.tasks[q] = "accepted" /\ row'.tasks[q] = "can_commit"
        BY <1>1, KillRow DEF Done, Hunting
    <2>2. q \notin Done(m) => row'.tasks[q] = row.tasks[q]
        BY <1>1, KillRow
    <2> QED BY <2>1, <2>2
<1>3. row'.given = row.given
    BY <1>1 DEF Kill, TypeOK, Row
<1>4. RewardedOnce'
    BY <1>2, <1>3, SameAwards DEF Kill, IInv
<1>5. Chained'
    BY <1>2, <1>3, SameChain DEF Kill, IInv
<1>6. Paying'
    BY DEF Kill, Paying
<1> QED BY <1>1, <1>4, <1>5, <1>6 DEF IInv

\* A quest that is submitted has been given nothing yet.
LEMMA IInvSubmit == ASSUME IInv, NEW t \in Tasks, Submit(t) PROVE IInv'
<1>1. AInv' /\ AInv
    BY AInvSubmit DEF IInv
<1>2. /\ row'.given = row.given /\ disk' = disk
      /\ row'.tasks = [row.tasks EXCEPT ![t] = "commit"]
      /\ pc = "idle" /\ pc' = "award" /\ task' = t /\ left' = Awards[t] /\ faults' = faults
      /\ row.tasks[t] = "can_commit"
    BY <1>1 DEF Submit, AInv, TypeOK, Row
<1>3. row.given[t] = 0
    BY <1>1, <1>2, RowTypes DEF IInv, RewardedOnce, Images
<1>4. \A q \in Tasks : q # t => row'.tasks[q] = row.tasks[q]
    BY <1>1, <1>2, RowTypes
<1>5. row'.tasks[t] = "commit"
    BY <1>1, <1>2, RowTypes
<1>6. RewardedOnce'
    BY <1>2, <1>4, <1>5, SameAwards DEF IInv
<1>7. Paying'
    BY <1>2, <1>3, <1>5, QuestsAssumption DEF Paying
<1>8. Chained'
    BY <1>2, <1>4, <1>5, QuestsAssumption DEF IInv, Chained
<1> QED BY <1>1, <1>6, <1>7, <1>8 DEF IInv

LEMMA IInvAward == ASSUME IInv, AwardPart, AInv' PROVE IInv'
<1>1. AInv /\ task \in Tasks /\ left \in Nat /\ Awards[task] \in Nat
    BY RowTypes, QuestsAssumption DEF IInv
<1>2. /\ row'.given = [row.given EXCEPT ![task] = @ + 1]
      /\ row'.tasks = row.tasks /\ disk' = disk
      /\ pc = "award" /\ left > 0 /\ pc' = "part" /\ UNCHANGED <<task, left, faults>>
    BY <1>1 DEF AwardPart, AInv, TypeOK, Row
<1>3. row.tasks[task] = "commit" /\ row.given[task] + left = Awards[task]
    BY <1>2 DEF IInv, Paying
<1>4. row'.given[task] = row.given[task] + 1 /\ row.given[task] \in Nat
    BY <1>1, <1>2, RowTypes
<1>5. \A q \in Tasks : q # task => row'.given[q] = row.given[q]
    BY <1>1, <1>2, RowTypes
<1>6. row'.given[task] <= Awards[task]
    BY <1>1, <1>2, <1>3, <1>4
<1>7. RewardedOnce'
    <2>1. ASSUME NEW q \in Tasks
          PROVE  row'.given[q] <= Awards[q] /\ (row'.given[q] > 0 => row'.tasks[q] = "commit")
        <3>1. CASE q = task
            BY <3>1, <1>2, <1>3, <1>6
        <3>2. CASE q # task
            BY <3>2, <1>2, <1>5 DEF IInv, RewardedOnce, Images
        <3> QED BY <3>1, <3>2
    <2> QED BY <2>1, <1>2 DEF IInv, RewardedOnce, Images
<1>8. Paying'
    BY <1>1, <1>2, <1>3, <1>4 DEF Paying
<1>9. Chained'
    BY <1>2, <1>5 DEF IInv, Chained
<1> QED BY <1>7, <1>8, <1>9 DEF IInv

\* The end of a submission: the award is complete and the next quest is there.
LEMMA IInvUnlock == ASSUME IInv, Unlock PROVE IInv'
<1>1. AInv' /\ AInv /\ task \in Tasks
    BY AInvUnlock, RowTypes DEF IInv
<1>2. /\ row'.given = row.given /\ disk' = disk
      /\ pc = "award" /\ left = 0 /\ pc' = "op" /\ UNCHANGED <<task, left, faults>>
    BY <1>1 DEF Unlock, AInv, TypeOK, Row
<1>3. /\ \A q \in Tasks : \/ row'.tasks[q] = row.tasks[q]
                          \/ row.tasks[q] = "none" /\ row'.tasks[q] = "can_accept"
      /\ NextTask[task] \in Tasks => row'.tasks[NextTask[task]] # "none"
    BY <1>1, RowTypes DEF Unlock, AInv, TypeOK, Row, States
<1>4. row.given[task] = Awards[task]
    BY <1>1, <1>2, RowTypes DEF IInv, Paying
<1>5. RewardedOnce'
    BY <1>2, <1>3, SameAwards DEF IInv
<1>6. Paying'
    BY <1>2 DEF Paying
<1>7. Chained'
    <2> SUFFICES ASSUME faults = 0, NEW t \in Tasks, row'.tasks[t] = "commit"
                 PROVE  /\ row'.given[t] = Awards[t]
                        /\ NextTask[t] \in Tasks => row'.tasks[NextTask[t]] # "none"
        BY <1>2 DEF Chained
    <2>1. row.tasks[t] = "commit"
        BY <1>3
    <2>2. CASE t = task
        BY <2>2, <1>2, <1>3, <1>4
    <2>3. CASE t # task
        BY <2>1, <2>3, <1>2, <1>3 DEF IInv, Chained
    <2> QED BY <2>2, <2>3
<1> QED BY <1>1, <1>5, <1>6, <1>7 DEF IInv

LEMMA IInvNext == ASSUME Offered, IInv, [Next]_vars PROVE IInv'
<1>a. AInv'
    BY AInvNext DEF IInv
<1>1. CASE Enter \/ Disconnect \/ OtherSave
    <2>1. /\ row' = row /\ disk' \in {disk, row} /\ UNCHANGED <<pc, task, left, faults>>
          /\ pc = "idle"
        BY <1>1 DEF Enter, Disconnect, OtherSave, IInv, AInv, Inside
    <2> QED BY <2>1, <1>a DEF IInv, RewardedOnce, Images, Paying, Chained
<1>2. CASE SaveRaises \/ Die
    <2>1. /\ pc' = "idle" /\ faults' = faults + 1
          /\ row' \in {row, disk} /\ disk' \in {row, disk}
        BY <1>2 DEF SaveRaises, Die
    <2>2. faults' # 0
        BY <2>1 DEF IInv, AInv, TypeOK
    <2>3. RewardedOnce'
        BY <2>1 DEF IInv, RewardedOnce, Images
    <2> QED BY <2>1, <2>2, <2>3, <1>a DEF IInv, Paying, Chained
<1>3. ASSUME NEW t \in Tasks, Accept(t) \/ Submit(t) PROVE IInv'
    BY <1>3, IInvAccept, IInvSubmit
<1>4. ASSUME NEW m \in Monsters, Kill(m) PROVE IInv'
    BY <1>4, IInvKill
<1>5. CASE AwardPart
    BY <1>5, <1>a, IInvAward
<1>6. CASE PartSaved
    <2>1. /\ row' = row /\ disk' = row /\ UNCHANGED <<task, faults>> /\ left' = left - 1
          /\ pc = "part" /\ pc' = "award"
        BY <1>6 DEF PartSaved
    <2>2. RewardedOnce'
        BY <2>1 DEF IInv, RewardedOnce, Images
    <2>3. Paying'
        <3>1. row.given[task] \in Nat /\ left \in Nat /\ Awards[task] \in Nat
            BY RowTypes, QuestsAssumption DEF IInv
        <3>2. row.tasks[task] = "commit" /\ row.given[task] + left = Awards[task] + 1
            BY <2>1 DEF IInv, Paying
        <3> QED BY <2>1, <3>1, <3>2 DEF Paying
    <2>4. Chained'
        BY <2>1 DEF IInv, Chained
    <2> QED BY <2>2, <2>3, <2>4, <1>a DEF IInv
<1>7. CASE Unlock
    BY <1>7, IInvUnlock
<1>8. CASE OpSaved
    BY <1>8, <1>a DEF OpSaved, IInv, RewardedOnce, Images, Paying, Chained
<1>9. CASE UNCHANGED vars
    BY <1>9, <1>a DEF vars, IInv, RewardedOnce, Images, Paying, Chained
<1> QED BY <1>1, <1>2, <1>3, <1>4, <1>5, <1>6, <1>7, <1>8, <1>9 DEF Next
-----------------------------------------------------------------------------
\* Every variable keeps its type.
THEOREM TypeCorrect == Spec => []TypeOK
<1>1. AInv => TypeOK
    BY DEF AInv
<1> QED BY <1>1, AInvInit, AInvNext, PTL DEF Spec

\* Whatever the client accepts and whatever fails, a kill quest is submitted when the
\* kills are made and not before, in memory and after a restart (advance_kill_quests).
THEOREM KillsCount == Spec => []DoneWhenKilled
<1>1. AInv => DoneWhenKilled
    BY DEF AInv
<1> QED BY <1>1, AInvInit, AInvNext, PTL DEF Spec

\* Whatever the client accepts and whatever fails, between two requests the quest
\* list it shows is the server's (on_task_op, on_login_gateway).
THEOREM ListIsRight == Spec => []ViewTrue
<1>1. AInv => ViewTrue
    BY DEF AInv, Shown, ViewTrue
<1> QED BY <1>1, AInvInit, AInvNext, PTL DEF Spec

\* For a client that accepts what it was offered, and whatever fails: no part of an
\* award is given twice, or without the quest being finished (on_task_op).
THEOREM AwardedOnce == ASSUME Offered PROVE Spec => []RewardedOnce
<1>1. IInv => RewardedOnce
    BY DEF IInv
<1>2. IInv /\ [Next]_vars => IInv'
    BY IInvNext
<1> QED BY <1>1, <1>2, IInvInit, PTL DEF Spec

\* For such a client, and while nothing fails, every answered submission has paid
\* its whole award, unlocked the next quest, and is saved (on_task_op).
THEOREM ChainLeadsOn == ASSUME Offered PROVE Spec => []ChainAdvancesUnlessFault
<1>1. IInv => ChainAdvancesUnlessFault
    BY DEF IInv, Chained, ChainAdvancesUnlessFault, ChainAdvances
<1>2. IInv /\ [Next]_vars => IInv'
    BY IInvNext
<1> QED BY <1>1, <1>2, IInvInit, PTL DEF Spec
-----------------------------------------------------------------------------
\* Sums over finite sets.

\* A non-empty family of finite sets has a member none of whose subsets is in it.
LEMMA LeastSet ==
    ASSUME NEW S, NEW F \in SUBSET FiniteSubsetsOf(S), F # {}
    PROVE  \E X \in F : \A Y \in F : Y \subseteq X => Y = X
<1> DEFINE R == StrictSubsetOrdering(S)
<1>1. IsWellFoundedOn(R, FiniteSubsetsOf(S))
    BY FS_StrictSubsetOrderingWellFounded
<1>2. \A X, Y \in F : Y \subseteq X /\ Y # X => <<Y, X>> \in R
    BY DEF StrictSubsetOrdering, FiniteSubsetsOf
<1> HIDE DEF R
<1>3. \E X \in F : \A Y \in F : ~(<<Y, X>> \in R)
    BY <1>1, WFMin
<1> QED BY <1>2, <1>3

\* Induction over the natural numbers, for a set of them.
LEMMA SetInduction ==
    ASSUME NEW T \in SUBSET Nat, 0 \in T, \A n \in T : n + 1 \in T
    PROVE  T = Nat
<1> SUFFICES ASSUME NEW k \in Nat, k \notin T PROVE FALSE
    OBVIOUS
<1> DEFINE F == {1..n : n \in Nat \ T}
<1>1. F \in SUBSET FiniteSubsetsOf(Nat) /\ F # {}
    <2>1. ASSUME NEW n \in Nat PROVE 1..n \in FiniteSubsetsOf(Nat)
        BY FS_Interval DEF FiniteSubsetsOf
    <2> QED BY <2>1
<1>2. PICK X \in F : \A Y \in F : Y \subseteq X => Y = X
    <2> HIDE DEF F
    <2> QED BY <1>1, LeastSet
<1>3. PICK m \in Nat \ T : X = 1..m
    BY <1>2
<1>4. m # 0 /\ m - 1 \in Nat
    BY <1>3
<1>5. m - 1 \notin T
    BY <1>3, <1>4
<1>6. 1..(m - 1) \in F /\ 1..(m - 1) \subseteq X /\ m \in X /\ m \notin 1..(m - 1)
    BY <1>3, <1>4, <1>5
<1> QED BY <1>2, <1>6

\* The same for the subsets of a finite set: the least that is not in F.
LEMMA LeastSubset ==
    ASSUME NEW S, IsFiniteSet(S), NEW F, \E X \in SUBSET S : X \notin F
    PROVE  \E X \in SUBSET S : X \notin F /\ \A Y \in SUBSET X : Y # X => Y \in F
<1> DEFINE G == (SUBSET S) \ F
<1>1. G \in SUBSET FiniteSubsetsOf(S) /\ G # {}
    BY FS_FiniteSubsetsOfFinite
<1>2. \A X \in G : \A Y \in SUBSET X : Y \notin F => Y \in G
    OBVIOUS
<1>3. G \subseteq SUBSET S /\ G \cap F = {}
    OBVIOUS
<1> HIDE DEF G
<1>4. PICK X \in G : \A Y \in G : Y \subseteq X => Y = X
    BY <1>1, LeastSet
<1> QED BY <1>2, <1>3, <1>4

\* How MapThenSumSet goes through a set: h has the sum of g over each subset of X.
Pick(W) == CHOOSE x \in W : TRUE
Sums(h, g, X) ==
    /\ h = [W \in SUBSET X |-> h[W]]
    /\ \A W \in SUBSET X : h[W] = IF W = {} THEN 0 ELSE g[Pick(W)] + h[W \ {Pick(W)}]

\* Two such functions agree where both are defined ...
LEMMA SumsAgree ==
    ASSUME NEW X, IsFiniteSet(X), NEW Y, NEW g, NEW h, NEW k,
           Sums(h, g, X), Sums(k, g, Y), NEW W \in SUBSET (X \cap Y)
    PROVE  h[W] = k[W]
<1> DEFINE F == {t \in SUBSET (X \cap Y) : h[t] = k[t]}
<1> SUFFICES ASSUME W \notin F PROVE FALSE
    OBVIOUS
<1>1. IsFiniteSet(X \cap Y)
    BY FS_Intersection
<1>2. \E t \in SUBSET (X \cap Y) : t \notin F
    OBVIOUS
<1>3. PICK t \in SUBSET (X \cap Y) : t \notin F /\ \A u \in SUBSET t : u # t => u \in F
    <2> DEFINE Z == X \cap Y
    <2>1. IsFiniteSet(Z) /\ \E t \in SUBSET Z : t \notin F
        BY <1>1, <1>2
    <2> HIDE DEF F, Z
    <2>2. \E t \in SUBSET Z : t \notin F /\ \A u \in SUBSET t : u # t => u \in F
        BY <2>1, LeastSubset
    <2> QED BY <2>2 DEF Z
<1>4. t # {}
    BY <1>3 DEF Sums
<1>5. Pick(t) \in t
    BY <1>4 DEF Pick
<1>6. h[t \ {Pick(t)}] = k[t \ {Pick(t)}]
    BY <1>3, <1>5
<1> QED BY <1>3, <1>4, <1>6 DEF Sums

\* ... and there is one for each finite set.
LEMMA SumsExist ==
    ASSUME NEW U, IsFiniteSet(U), NEW g
    PROVE  \E h : Sums(h, g, U)
<1> DEFINE F == {X \in SUBSET U : \E h : Sums(h, g, X)}
<1> SUFFICES ASSUME U \notin F PROVE FALSE
    OBVIOUS
<1>1. PICK X \in SUBSET U : X \notin F /\ \A Y \in SUBSET X : Y # X => Y \in F
    <2>1. \E X \in SUBSET U : X \notin F
        OBVIOUS
    <2> HIDE DEF F
    <2> QED BY <2>1, LeastSubset
<1> DEFINE of(Y) == CHOOSE h : Sums(h, g, Y)
           low(W) == of(W)[W]
           h == [W \in SUBSET X |->
                    IF W = {} THEN 0
                    ELSE IF W # X THEN low(W) ELSE g[Pick(X)] + low(X \ {Pick(X)})]
<1>2. ASSUME NEW Y \in SUBSET X, Y # X PROVE Sums(of(Y), g, Y)
    BY <1>1, <1>2
<1>3. ASSUME NEW W \in SUBSET X, W # {}, W # X
      PROVE  low(W) = g[Pick(W)] + low(W \ {Pick(W)})
    <2> DEFINE r == W \ {Pick(W)}
    <2>1. Pick(W) \in W /\ r \in SUBSET W /\ r \in SUBSET X /\ r # X
        BY <1>3 DEF Pick
    <2>2. Sums(of(W), g, W) /\ Sums(of(r), g, r)
        BY <1>2, <1>3, <2>1
    <2>3. IsFiniteSet(W)
        BY FS_Subset
    <2> HIDE DEF of, r
    <2>4. of(W)[r] = of(r)[r]
        BY <2>1, <2>2, <2>3, SumsAgree
    <2>5. of(W)[W] = g[Pick(W)] + of(W)[W \ {Pick(W)}]
        BY <1>3, <2>2 DEF Sums
    <2> QED BY <2>4, <2>5 DEF r
<1>4. low({}) = 0
    <2>1. CASE X # {}
        <3>1. Sums(of({}), g, {})
            BY <1>2, <2>1
        <3> HIDE DEF of
        <3> QED BY <3>1 DEF Sums
    <2>2. CASE X = {}
        <3>1. Sums([W \in SUBSET {} |-> 0], g, {})
            BY DEF Sums
        <3> QED BY <3>1, <1>1, <2>2
    <2> QED BY <2>1, <2>2
<1> HIDE DEF low
<1>5. \A W \in SUBSET X : h[W] = IF W = {} THEN 0 ELSE g[Pick(W)] + h[W \ {Pick(W)}]
    <2> TAKE W \in SUBSET X
    <2>1. CASE W = {}
        BY <2>1
    <2>2. CASE W # {}
        <3>1. Pick(W) \in W
            BY <2>2 DEF Pick
        <3>2. h[W \ {Pick(W)}] = low(W \ {Pick(W)})
            BY <3>1, <1>4
        <3> QED BY <2>2, <3>1, <3>2, <1>3
    <2> QED BY <2>1, <2>2
<1>6. h = [W \in SUBSET X |-> h[W]]
    OBVIOUS
<1> HIDE DEF h
<1>7. Sums(h, g, X)
    BY <1>5, <1>6 DEF Sums
<1> QED BY <1>1, <1>7

\* The terms of g over S are integers.
Ints(g, S) == \A i \in S : g[i] \in Int

\* The order in which the terms are picked does not matter.
LEMMA SumsRemove ==
    ASSUME NEW U, IsFiniteSet(U), NEW g, Ints(g, U), NEW h, Sums(h, g, U),
           NEW W \in SUBSET U, NEW x \in W
    PROVE  h[W] \in Int /\ h[W] = g[x] + h[W \ {x}]
<1> DEFINE F == {t \in SUBSET U : h[t] \in Int /\ \A y \in t : h[t] = g[y] + h[t \ {y}]}
<1> SUFFICES ASSUME W \notin F PROVE FALSE
    OBVIOUS
<1>1. PICK t \in SUBSET U : t \notin F /\ \A u \in SUBSET t : u # t => u \in F
    <2>1. \E t \in SUBSET U : t \notin F
        OBVIOUS
    <2> HIDE DEF F
    <2> QED BY <2>1, LeastSubset
<1>2. t # {} /\ h[t] = g[Pick(t)] + h[t \ {Pick(t)}]
    <2>1. t = {} => h[t] = 0
        BY DEF Sums
    <2>2. t # {}
        BY <2>1, <1>1
    <2> QED BY <2>2 DEF Sums
<1>3. Pick(t) \in t
    BY <1>2 DEF Pick
<1>4. h[t] \in Int
    <2>1. h[t \ {Pick(t)}] \in Int
        BY <1>1, <1>3
    <2>2. g[Pick(t)] \in Int
        BY <1>3 DEF Ints
    <2> QED BY <1>2, <2>1, <2>2
<1>5. ASSUME NEW y \in t PROVE h[t] = g[y] + h[t \ {y}]
    <2>1. CASE y = Pick(t)
        BY <2>1, <1>2
    <2>2. CASE y # Pick(t)
        <3> DEFINE p == Pick(t)
        <3>1. t \ {p} \in F /\ t \ {y} \in F /\ (t \ {p}) \ {y} \in F
            BY <1>1, <1>3
        <3>2. y \in t \ {p} /\ p \in t \ {y}
            BY <2>2, <1>3
        <3>3. h[t \ {p}] = g[y] + h[(t \ {p}) \ {y}] /\ h[t \ {y}] = g[p] + h[(t \ {y}) \ {p}]
            BY <3>1, <3>2
        <3>4. (t \ {p}) \ {y} = (t \ {y}) \ {p} /\ h[(t \ {p}) \ {y}] \in Int
            BY <3>1
        <3>5. g[p] \in Int /\ g[y] \in Int
            BY <1>3 DEF Ints
        <3>6. h[t] = g[p] + h[t \ {p}]
            BY <1>2
        <3> DEFINE a == h[t \ {p}]
                   b == h[t \ {y}]
                   c == h[(t \ {p}) \ {y}]
        <3>7. a = g[y] + c /\ b = g[p] + c /\ c \in Int
            BY <3>3, <3>4
        <3>8. h[t] = g[p] + a
            BY <3>6
        <3> HIDE DEF a, b, c, p
        <3>9. g[p] + a = g[y] + b
            BY <3>5, <3>7
        <3> QED BY <3>8, <3>9 DEF b
    <2> QED BY <2>1, <2>2
<1> QED BY <1>1, <1>4, <1>5

-----------------------------------------------------------------------------
\* The sum of a function over a set.
Sum(g, S) == MapThenSumSet(LAMBDA i : g[i], S)

\* What MapThenSumSet's own recursion computes is that sum.
LEMMA SumIs ==
    ASSUME NEW U, IsFiniteSet(U), NEW g, NEW h, Sums(h, g, U), NEW S \in SUBSET U
    PROVE  Sum(g, S) = h[S]
<1> DEFINE k == CHOOSE iter : iter = [W \in SUBSET S |->
                    IF W = {} THEN 0 ELSE g[Pick(W)] + iter[W \ {Pick(W)}]]
<1>1. Sum(g, S) = k[S]
    BY DEF Sum, MapThenSumSet, MapThenFoldSet, Pick
<1>2. IsFiniteSet(S)
    BY FS_Subset
<1>3. PICK l : Sums(l, g, S)
    BY <1>2, SumsExist
<1>4. l = [W \in SUBSET S |-> IF W = {} THEN 0 ELSE g[Pick(W)] + l[W \ {Pick(W)}]]
    BY <1>3 DEF Sums
<1>5. k = [W \in SUBSET S |-> IF W = {} THEN 0 ELSE g[Pick(W)] + k[W \ {Pick(W)}]]
    BY <1>4
<1> HIDE DEF k
<1>6. Sums(k, g, S)
    <2>1. DOMAIN k = SUBSET S
        BY <1>5
    <2>2. \A W \in SUBSET S : k[W] = IF W = {} THEN 0 ELSE g[Pick(W)] + k[W \ {Pick(W)}]
        BY <1>5
    <2>3. k = [W \in SUBSET S |-> k[W]]
        BY <1>5, <2>1
    <2> QED BY <2>2, <2>3 DEF Sums
<1>7. k[S] = h[S]
    <2>1. S \in SUBSET (S \cap U)
        OBVIOUS
    <2> QED BY <2>1, <1>2, <1>6, SumsAgree
<1> QED BY <1>1, <1>7

\* A sum is one term and the sum of the others.
LEMMA SumRemove ==
    ASSUME NEW S, IsFiniteSet(S), NEW g, Ints(g, S), NEW x \in S
    PROVE  Sum(g, S) \in Int /\ Sum(g, S) = g[x] + Sum(g, S \ {x})
<1>1. PICK h : Sums(h, g, S)
    BY SumsExist
<1>2. S \in SUBSET S /\ S \ {x} \in SUBSET S
    OBVIOUS
<1>3. Sum(g, S) = h[S] /\ Sum(g, S \ {x}) = h[S \ {x}]
    BY <1>1, <1>2, SumIs
<1>4. h[S] \in Int /\ h[S] = g[x] + h[S \ {x}]
    BY <1>1, <1>2, SumsRemove
<1> QED BY <1>3, <1>4

\* Nothing adds up to 0.
LEMMA SumEmpty == ASSUME NEW g PROVE Sum(g, {}) = 0
<1>1. IsFiniteSet({})
    BY FS_EmptySet
<1>2. PICK h : Sums(h, g, {})
    BY <1>1, SumsExist
<1>3. {} \in SUBSET {}
    OBVIOUS
<1>4. Sum(g, {}) = h[{}]
    BY <1>1, <1>2, <1>3, SumIs
<1> QED BY <1>2, <1>4 DEF Sums

\* It depends on nothing but the terms.
LEMMA SumSame ==
    ASSUME NEW S, IsFiniteSet(S), NEW g, NEW f, \A x \in S : g[x] = f[x]
    PROVE  Sum(g, S) = Sum(f, S)
<1>1. PICK h : Sums(h, g, S)
    BY SumsExist
<1>2. \A W \in SUBSET S : W # {} => Pick(W) \in S
    BY DEF Pick
<1>3. Sums(h, f, S)
    BY <1>1, <1>2 DEF Sums
<1> QED BY <1>1, <1>3, SumIs

-----------------------------------------------------------------------------
\* The curve, and what awards have paid.

\* The exp of the first parts of each quest's award.
Part(given) == [t \in Tasks |-> Sum(AwardExp[t], 1..given[t])]

\* Paid is a sum of sums.
LEMMA PaidIs ==
    ASSUME RewardsAssumption, NEW given PROVE Paid(given) = Sum(Part(given), Tasks)
<1> DEFINE g == Part(given)
           k == CHOOSE iter : iter = [W \in SUBSET Tasks |->
                    IF W = {} THEN 0
                    ELSE Sum(AwardExp[Pick(W)], 1..given[Pick(W)]) + iter[W \ {Pick(W)}]]
<1>1. Paid(given) = k[Tasks]
    BY DEF Paid, Sum, MapThenSumSet, MapThenFoldSet, Pick
<1>2. IsFiniteSet(Tasks)
    BY DEF RewardsAssumption
<1>3. PICK l : Sums(l, g, Tasks)
    BY <1>2, SumsExist
<1>4. \A W \in SUBSET Tasks : W # {} => g[Pick(W)] = Sum(AwardExp[Pick(W)], 1..given[Pick(W)])
    <2>1. \A W \in SUBSET Tasks : W # {} => Pick(W) \in Tasks
        BY DEF Pick
    <2> QED BY <2>1 DEF Part
<1>5. l = [W \in SUBSET Tasks |-> IF W = {} THEN 0 ELSE
              Sum(AwardExp[Pick(W)], 1..given[Pick(W)]) + l[W \ {Pick(W)}]]
    BY <1>3, <1>4 DEF Sums
<1>6. k = [W \in SUBSET Tasks |-> IF W = {} THEN 0 ELSE
              Sum(AwardExp[Pick(W)], 1..given[Pick(W)]) + k[W \ {Pick(W)}]]
    BY <1>5
<1> HIDE DEF k, g
<1>7. Sums(k, g, Tasks)
    <2>1. k = [W \in SUBSET Tasks |-> k[W]]
        <3>1. DOMAIN k = SUBSET Tasks
            BY <1>6
        <3> QED BY <1>6, <3>1
    <2>2. \A W \in SUBSET Tasks : k[W] = IF W = {} THEN 0 ELSE
              Sum(AwardExp[Pick(W)], 1..given[Pick(W)]) + k[W \ {Pick(W)}]
        BY <1>6
    <2> QED BY <2>1, <2>2, <1>4 DEF Sums
<1>8. Tasks \in SUBSET Tasks
    OBVIOUS
<1> QED BY <1>1, <1>2, <1>7, <1>8, SumIs DEF g

\* Integers add up to one.
LEMMA SumInt ==
    ASSUME NEW S, IsFiniteSet(S), NEW g, Ints(g, S)
    PROVE  Sum(g, S) \in Int
<1>1. CASE S = {}
    BY <1>1, SumEmpty
<1>2. CASE S # {}
    <2>1. PICK x \in S : TRUE
        BY <1>2
    <2> QED BY <2>1, SumRemove
<1> QED BY <1>1, <1>2

\* A sum over an interval grows by its last term.
LEMMA SumNext ==
    ASSUME NEW n \in Nat, NEW g, Ints(g, 1..(n + 1))
    PROVE  Sum(g, 1..(n + 1)) = Sum(g, 1..n) + g[n + 1]
<1> DEFINE I == 1..(n + 1)
<1>1. IsFiniteSet(I) /\ n + 1 \in I /\ I \ {n + 1} = 1..n /\ Ints(g, I)
    <2>1. IsFiniteSet(1..(n + 1))
        BY FS_Interval
    <2>2. n + 1 \in I /\ I \ {n + 1} = 1..n
        OBVIOUS
    <2> QED BY <2>1, <2>2
<1>2. IsFiniteSet(1..n) /\ Ints(g, 1..n)
    BY FS_Interval DEF Ints
<1> HIDE DEF I
<1>3. Sum(g, I) = g[n + 1] + Sum(g, I \ {n + 1})
    BY <1>1, SumRemove
<1>4. g[n + 1] \in Int /\ Sum(g, 1..n) \in Int
    BY <1>1, <1>2, SumInt DEF Ints
<1>5. Sum(g, I \ {n + 1}) = Sum(g, 1..n)
    BY <1>1
<1> QED BY <1>3, <1>4, <1>5 DEF I

\* The exp of each part of an award.
LEMMA PartsOfAward == \A t \in Tasks : \A i \in 1..Awards[t] : AwardExp[t][i] \in Nat
BY RewardsAssumption DEF ExpParts

\* What a row may have been given, by RewardedOnce.
Givens == {g \in [Tasks -> Nat] : \A t \in Tasks : g[t] <= Awards[t]}

\* What has been paid is well defined.
LEMMA PaidInt ==
    ASSUME NEW given \in Givens
    PROVE  /\ IsFiniteSet(Tasks) /\ Paid(given) = Sum(Part(given), Tasks)
           /\ Ints(Part(given), Tasks) /\ Paid(given) \in Int
           /\ \A t \in Tasks : Ints(AwardExp[t], 1..given[t])
<1>1. IsFiniteSet(Tasks) /\ Paid(given) = Sum(Part(given), Tasks)
    BY PaidIs, RewardsAssumption DEF RewardsAssumption
<1>2. ASSUME NEW t \in Tasks
      PROVE  Ints(AwardExp[t], 1..given[t]) /\ Sum(AwardExp[t], 1..given[t]) \in Int
    <2>1. given[t] \in Nat /\ Awards[t] \in Nat /\ given[t] <= Awards[t]
        BY QuestsAssumption DEF Givens
    <2>2. Ints(AwardExp[t], 1..given[t])
        BY <2>1, PartsOfAward DEF Ints
    <2>3. IsFiniteSet(1..given[t])
        BY <2>1, FS_Interval
    <2> QED BY <2>2, <2>3, SumInt
<1>3. Ints(Part(given), Tasks)
    BY <1>2 DEF Part, Ints
<1> QED BY <1>1, <1>2, <1>3, SumInt

\* What has been paid grows by the part that is given.
LEMMA PaidNext ==
    ASSUME NEW given \in Givens, NEW t \in Tasks, given[t] < Awards[t],
           NEW more, more = [given EXCEPT ![t] = @ + 1]
    PROVE  /\ more \in Givens /\ AwardExp[t][given[t] + 1] \in Nat
           /\ Paid(more) = Paid(given) + AwardExp[t][given[t] + 1]
<1> DEFINE p == Part(given)
           q == Part(more)
           R == Tasks \ {t}
<1>1. /\ Awards[t] \in Nat /\ given[t] \in Nat /\ more[t] = given[t] + 1
      /\ more \in Givens /\ \A u \in R : more[u] = given[u]
    <2>1. Awards \in [Tasks -> Nat] /\ given \in [Tasks -> Nat]
        BY QuestsAssumption DEF Givens
    <2>2. more \in [Tasks -> Nat] /\ more[t] = given[t] + 1 /\ \A u \in R : more[u] = given[u]
        BY <2>1
    <2>3. ASSUME NEW u \in Tasks PROVE more[u] <= Awards[u]
        <3>1. CASE u = t
            BY <3>1, <2>1, <2>2
        <3>2. CASE u # t
            BY <3>2, <2>2 DEF Givens
        <3> QED BY <3>1, <3>2
    <2> QED BY <2>1, <2>2, <2>3 DEF Givens
<1>2. /\ Paid(given) = Sum(p, Tasks) /\ Paid(more) = Sum(q, Tasks)
      /\ Ints(p, Tasks) /\ Ints(q, Tasks) /\ IsFiniteSet(Tasks)
      /\ Ints(AwardExp[t], 1..(given[t] + 1))
    BY <1>1, PaidInt
<1>3. q[t] = p[t] + AwardExp[t][given[t] + 1]
    BY <1>1, <1>2, SumNext DEF Part
<1>4. \A u \in R : p[u] = q[u]
    BY <1>1 DEF Part
<1>5. IsFiniteSet(R) /\ Ints(p, R)
    BY <1>2, FS_RemoveElement DEF Ints
<1>6. AwardExp[t][given[t] + 1] \in Nat /\ p[t] \in Int
    <2>1. given[t] + 1 \in 1..Awards[t]
        BY <1>1
    <2> QED BY <2>1, <1>2, PartsOfAward DEF Ints
<1> HIDE DEF p, q, R
<1>7. Sum(p, R) = Sum(q, R) /\ Sum(p, R) \in Int
    BY <1>4, <1>5, SumSame, SumInt
<1>8. Sum(p, Tasks) = p[t] + Sum(p, R) /\ Sum(q, Tasks) = q[t] + Sum(q, R)
    BY <1>2, SumRemove DEF R
<1> QED BY <1>1, <1>2, <1>3, <1>6, <1>7, <1>8
-----------------------------------------------------------------------------
\* What each of the first n levels costs.
Costs(n) == [i \in 1..n |-> L!exp_to_next(i)]

\* Spent is the sum of those below l.
LEMMA SpentIs ==
    ASSUME NEW l \in Nat \ {0} PROVE L!Spent(l) = Sum(Costs(l - 1), 1..(l - 1))
<1> DEFINE I == 1..(l - 1)
           g == Costs(l - 1)
           k == CHOOSE iter : iter = [W \in SUBSET I |->
                    IF W = {} THEN 0 ELSE L!exp_to_next(Pick(W)) + iter[W \ {Pick(W)}]]
<1>1. L!Spent(l) = k[I]
    BY DEF L!Spent, L!MapThenSumSet, L!MapThenFoldSet, Pick
<1>2. IsFiniteSet(I)
    BY FS_Interval
<1>3. PICK h : Sums(h, g, I)
    <2> HIDE DEF I, g
    <2> QED BY <1>2, SumsExist
<1>4. \A W \in SUBSET I : W # {} => g[Pick(W)] = L!exp_to_next(Pick(W))
    <2>1. \A W \in SUBSET I : W # {} => Pick(W) \in I
        BY DEF Pick
    <2> QED BY <2>1 DEF Costs
<1> HIDE DEF I, g
<1>5. h = [W \in SUBSET I |-> IF W = {} THEN 0 ELSE L!exp_to_next(Pick(W)) + h[W \ {Pick(W)}]]
    BY <1>3, <1>4 DEF Sums
<1>6. k = [W \in SUBSET I |-> IF W = {} THEN 0 ELSE L!exp_to_next(Pick(W)) + k[W \ {Pick(W)}]]
    BY <1>5
<1> HIDE DEF k
<1>7. Sums(k, g, I)
    <2>1. k = [W \in SUBSET I |-> k[W]]
        <3>1. DOMAIN k = SUBSET I
            BY <1>6
        <3> QED BY <1>6, <3>1
    <2>2. \A W \in SUBSET I : k[W] = IF W = {} THEN 0 ELSE L!exp_to_next(Pick(W)) + k[W \ {Pick(W)}]
        BY <1>6
    <2> QED BY <2>1, <2>2, <1>4 DEF Sums
<1>8. Sum(g, I) = k[I]
    <2>1. I \in SUBSET I
        OBVIOUS
    <2> QED BY <2>1, <1>2, <1>7, SumIs
<1> QED BY <1>1, <1>8 DEF g, I

\* Levels count from 1.
Level == Nat \ {0}

\* exp_to_next is 0 from the last level on.
LEMMA Curve ==
    /\ LastLevel \in Level
    /\ \A l \in Level : L!exp_to_next(l) \in Nat /\ (l >= LastLevel => L!exp_to_next(l) = 0)
<1>1. LastLevel \in Level /\ next_lv_exp \in [1..(LastLevel - 1) -> Nat]
    BY RewardsAssumption DEF L!LevelsAssumption, Level
<1>2. ASSUME NEW l \in Level PROVE L!exp_to_next(l) \in Nat /\ (l >= LastLevel => L!exp_to_next(l) = 0)
    BY <1>1 DEF L!exp_to_next, Level
<1> QED BY <1>1, <1>2

\* One level more costs exp_to_next of it.
LEMMA SpentNext ==
    ASSUME NEW l \in Level
    PROVE  L!Spent(l) \in Int /\ L!Spent(l + 1) = L!Spent(l) + L!exp_to_next(l)
<1> DEFINE m == l - 1
           g == Costs(l)
           f == Costs(l - 1)
<1>1. m \in Nat /\ l = m + 1 /\ (l + 1) - 1 = l /\ l + 1 \in Level
    BY DEF Level
<1>2. Ints(g, 1..l) /\ Ints(f, 1..m) /\ (\A i \in 1..m : f[i] = g[i]) /\ g[l] = L!exp_to_next(l)
    <2>1. 1..l \subseteq Level /\ l \in 1..l /\ 1..m \subseteq 1..l
        BY <1>1 DEF Level
    <2> QED BY <2>1, Curve DEF Costs, Ints
<1>3. IsFiniteSet(1..m)
    BY <1>1, FS_Interval
<1>4. L!Spent(l) = Sum(f, 1..m)
    BY SpentIs DEF Level
<1>5. L!Spent(l + 1) = Sum(g, 1..l)
    <2>1. L!Spent(l + 1) = Sum(Costs((l + 1) - 1), 1..((l + 1) - 1))
        BY <1>1, SpentIs DEF Level
    <2> QED BY <2>1, <1>1
<1> HIDE DEF f, g, m
<1>6. Sum(f, 1..m) \in Int /\ Sum(f, 1..m) = Sum(g, 1..m)
    BY <1>2, <1>3, SumInt, SumSame
<1>7. Sum(g, 1..(m + 1)) = Sum(g, 1..m) + g[m + 1]
    <2>1. Ints(g, 1..(m + 1))
        BY <1>1, <1>2
    <2> QED BY <2>1, <1>1, SumNext
<1> QED BY <1>1, <1>2, <1>4, <1>5, <1>6, <1>7
-----------------------------------------------------------------------------
\* The standings that are at most n levels below the last; whether the loop of
\* grant_exp levels one up, and to what; and a function that does all it does to them.
From(n) == {c \in L!Standing : c.level + n >= LastLevel}
Enough(c) == L!exp_to_next(c.level) > 0 /\ c.exp >= L!exp_to_next(c.level)
Up(c) == [level |-> c.level + 1, exp |-> c.exp - L!exp_to_next(c.level)]
Loop(h, n) ==
    /\ h = [c \in From(n) |-> h[c]]
    /\ \A c \in From(n) : h[c] = IF Enough(c) THEN h[Up(c)] ELSE c

\* A level-up comes one level closer to the last.
LEMMA UpStands ==
    ASSUME NEW n \in Nat, NEW c \in From(n + 1), Enough(c)
    PROVE  Up(c) \in From(n) /\ n + 1 # 0 /\ c.level < LastLevel
<1>1. c \in L!Standing /\ c.level \in Level /\ c.exp \in Nat /\ c.level + (n + 1) >= LastLevel
    BY DEF From, L!Standing, Level
<1>2. L!exp_to_next(c.level) \in Nat /\ LastLevel \in Nat /\ c.level < LastLevel
    BY <1>1, Curve DEF Enough, Level
<1>3. c.exp - L!exp_to_next(c.level) \in Nat
    BY <1>1, <1>2 DEF Enough
<1>4. Up(c) \in L!Standing
    BY <1>1, <1>3 DEF Up, L!Standing, Level
<1>5. Up(c).level + n >= LastLevel
    BY <1>1, <1>2 DEF Up, Level
<1> QED BY <1>2, <1>4, <1>5 DEF From

\* The loop ends, so there is such a function.
LEMMA LoopExists == \A n \in Nat : \E h : Loop(h, n)
<1> DEFINE T == {n \in Nat : \E h : Loop(h, n)}
<1>1. 0 \in T
    <2> DEFINE h == [c \in From(0) |-> c]
    <2>1. \A c \in From(0) : ~Enough(c)
        BY Curve DEF From, Enough, L!Standing, Level
    <2>2. Loop(h, 0)
        BY <2>1 DEF Loop
    <2> QED BY <2>2
<1>2. ASSUME NEW n \in T PROVE n + 1 \in T
    <2>1. PICK k : Loop(k, n)
        OBVIOUS
    <2> DEFINE h == [c \in From(n + 1) |->
                        IF c \in From(n) THEN k[c] ELSE IF Enough(c) THEN k[Up(c)] ELSE c]
    <2>2. ASSUME NEW c \in From(n + 1) PROVE h[c] = IF Enough(c) THEN h[Up(c)] ELSE c
        <3>1. c \in From(n) => k[c] = IF Enough(c) THEN k[Up(c)] ELSE c
            BY <2>1 DEF Loop
        <3>2. Enough(c) => Up(c) \in From(n) /\ Up(c) \in From(n + 1)
            <4>1. From(n) \subseteq From(n + 1)
                BY Curve DEF From, L!Standing, Level
            <4> QED BY <4>1, UpStands
        <3> QED BY <3>1, <3>2
    <2>3. h = [c \in From(n + 1) |-> h[c]]
        OBVIOUS
    <2> HIDE DEF h
    <2>4. Loop(h, n + 1)
        BY <2>2, <2>3 DEF Loop
    <2> QED BY <2>4
<1>3. T = Nat
    <2>1. T \in SUBSET Nat
        OBVIOUS
    <2> HIDE DEF T
    <2> QED BY <2>1, <1>1, <1>2, SetInduction
<1> QED BY <1>3

\* LevelUp is the function that its definition describes.
LEMMA LevelUpIs ==
    \A c \in L!Standing : L!LevelUp[c] = IF Enough(c) THEN L!LevelUp[Up(c)] ELSE c
<1>1. From(LastLevel) = L!Standing
    <2>1. ASSUME NEW c \in L!Standing PROVE c \in From(LastLevel)
        BY Curve DEF From, L!Standing, Level
    <2> QED BY <2>1 DEF From
<1>2. PICK h : Loop(h, LastLevel)
    BY Curve, LoopExists DEF Level
<1>3. h = [c \in L!Standing |-> IF Enough(c) THEN h[Up(c)] ELSE c]
    BY <1>1, <1>2 DEF Loop
<1>4. h = [c \in L!Standing |->
              IF L!exp_to_next(c.level) > 0 /\ c.exp >= L!exp_to_next(c.level)
              THEN h[[level |-> c.level + 1, exp |-> c.exp - L!exp_to_next(c.level)]] ELSE c]
    BY <1>3 DEF Enough, Up
<1>5. L!LevelUp = [c \in L!Standing |->
              IF L!exp_to_next(c.level) > 0 /\ c.exp >= L!exp_to_next(c.level)
              THEN L!LevelUp[[level |-> c.level + 1, exp |-> c.exp - L!exp_to_next(c.level)]] ELSE c]
    BY <1>4 DEF L!LevelUp
<1>6. ASSUME NEW c \in L!Standing
      PROVE  L!LevelUp[c] = IF Enough(c) THEN L!LevelUp[Up(c)] ELSE c
    BY <1>5 DEF Enough, Up
<1> QED BY <1>6

\* The loop leaves no level-up undone, and keeps what the exp is worth.
LEMMA LevelsUp ==
    ASSUME NEW c \in L!Standing
    PROVE  /\ L!LevelUp[c] \in L!Standing /\ ~Enough(L!LevelUp[c])
           /\ Worth(L!LevelUp[c]) = Worth(c)
<1> DEFINE Right(d) == /\ L!LevelUp[d] \in L!Standing /\ ~Enough(L!LevelUp[d])
                       /\ Worth(L!LevelUp[d]) = Worth(d)
           T == {n \in Nat : \A d \in From(n) : Right(d)}
<1>1. \A d \in L!Standing : ~Enough(d) => Right(d)
    BY LevelUpIs
<1>2. 0 \in T
    <2>1. \A d \in From(0) : d \in L!Standing /\ ~Enough(d)
        BY Curve DEF From, Enough, L!Standing, Level
    <2> QED BY <2>1, <1>1
<1>3. ASSUME NEW n \in T PROVE n + 1 \in T
    <2> SUFFICES ASSUME NEW d \in From(n + 1) PROVE Right(d)
        OBVIOUS
    <2>1. d \in L!Standing
        BY DEF From
    <2>2. CASE Enough(d)
        <3>1. Up(d) \in From(n)
            BY <2>2, UpStands
        <3>2. Right(Up(d)) /\ L!LevelUp[d] = L!LevelUp[Up(d)]
            BY <2>1, <2>2, <3>1, LevelUpIs
        <3>3. Worth(Up(d)) = Worth(d)
            <4>1. d.level \in Level /\ d.exp \in Nat
                BY <2>1 DEF L!Standing, Level
            <4>2. L!exp_to_next(d.level) \in Nat /\ L!Spent(d.level) \in Int
                  /\ L!Spent(d.level + 1) = L!Spent(d.level) + L!exp_to_next(d.level)
                BY <4>1, Curve, SpentNext
            <4>3. Up(d).level = d.level + 1 /\ Up(d).exp = d.exp - L!exp_to_next(d.level)
                BY DEF Up
            <4> QED BY <4>1, <4>2, <4>3 DEF Worth
        <3> QED BY <3>2, <3>3
    <2> QED BY <2>1, <2>2, <1>1
<1>4. T = Nat
    <2>1. T \in SUBSET Nat
        OBVIOUS
    <2> HIDE DEF T
    <2> QED BY <2>1, <1>2, <1>3, SetInduction
<1>5. LastLevel \in Nat
    BY Curve DEF Level
<1>6. c \in From(LastLevel)
    BY Curve DEF From, L!Standing, Level
<1> QED BY <1>4, <1>5, <1>6

-----------------------------------------------------------------------------
\* Quests and Levels together.

\* Every step of the whole is one of Quests.
LEMMA QuestsStep == RewardsNext => Next
BY DEF RewardsNext, EnterWorld, Leave, SaveElsewhere, Restart, TaskOp, Slay, GiveAward,
       PartDone, OpDone, GrantKills, Fails, Raises, Next

\* What the whole keeps of Levels: no level-up is left undone, and a session mirrors
\* its row and the HUD.
LevelsInv ==
    /\ s \in L!Standing /\ lrow \in L!Standing /\ ldisk \in L!Standing /\ hud \in L!Standing
    /\ ~Enough(s) /\ ~Enough(lrow) /\ ~Enough(ldisk)
    /\ online => s = lrow /\ hud = s

\* The first half, for any client.
EInv == AInv /\ LevelsInv /\ credit \in Nat

\* grant_exp, for a session that mirrors its row.
LEMMA Grant ==
    ASSUME LevelsInv, online, NEW amount \in Nat, NEW end, L!GrantExp(amount, end)
    PROVE  /\ s' \in L!Standing /\ ~Enough(s') /\ Worth(s') = Worth(lrow) + amount
           /\ lrow' = s' /\ hud' = s' /\ online' = (end = "ok")
           /\ ldisk' = IF end = "lost" THEN ldisk ELSE lrow'
<1> DEFINE c == [s EXCEPT !.exp = @ + amount]
<1>1. s.level \in Level /\ s.exp \in Nat /\ s = lrow /\ hud = s /\ s \in L!Standing
    BY DEF LevelsInv, L!Standing, Level
<1>2. c \in L!Standing /\ c.level = s.level /\ c.exp = s.exp + amount
    BY <1>1 DEF L!Standing
<1>3. s' = L!LevelUp[c]
    BY DEF L!GrantExp, L!Granted
<1> HIDE DEF c
<1>4. s' \in L!Standing /\ ~Enough(s') /\ Worth(s') = Worth(c)
    BY <1>2, <1>3, LevelsUp
<1>5. Worth(c) = Worth(lrow) + amount
    <2>1. L!Spent(s.level) \in Int
        BY <1>1, SpentNext
    <2> QED BY <1>1, <1>2, <2>1 DEF Worth
<1>6. hud' = s'
    <2>1. hud' = [s EXCEPT !.exp = s'.exp, !.level = IF s'.level # s.level THEN s'.level ELSE @]
        BY <1>1 DEF L!GrantExp, L!Hud
    <2> QED BY <2>1, <1>1, <1>4 DEF L!Standing
<1>7. /\ lrow' = s' /\ online' = (end = "ok")
      /\ ldisk' = IF end = "lost" THEN ldisk ELSE lrow'
    BY DEF L!GrantExp, L!SaveSession
<1> QED BY <1>4, <1>5, <1>6, <1>7

\* The part of the award that is being given.
LEMMA PartExpIs == AInv /\ pc = "part" => PartExp \in Nat
<1> SUFFICES ASSUME AInv, pc = "part" PROVE PartExp \in Nat
    OBVIOUS
<1>1. task \in Tasks /\ Awards[task] \in Nat /\ left \in 0..Awards[task] /\ left > 0
    BY QuestsAssumption DEF AInv, TypeOK, Inside
<1>2. Awards[task] - left + 1 \in 1..Awards[task]
    BY <1>1
<1> QED BY <1>1, <1>2, PartsOfAward DEF PartExp

\* A grant keeps LevelsInv, and so do the other steps of Levels.
LEMMA LevelsInvGrant ==
    ASSUME LevelsInv, online, NEW amount \in Nat, NEW end, L!GrantExp(amount, end)
    PROVE  LevelsInv'
BY Grant DEF LevelsInv

LEMMA LevelsInvKept ==
    ASSUME LevelsInv,
           \/ L!LoginGateway \/ L!OtherSave \/ L!Die
           \/ UNCHANGED levelVars /\ online' = online
           \/ \E end \in L!Ends : L!Finally(end)
    PROVE  LevelsInv'
<1>1. CASE L!LoginGateway
    BY <1>1 DEF L!LoginGateway, LevelsInv
<1>2. CASE L!OtherSave
    BY <1>2 DEF L!OtherSave, LevelsInv
<1>3. CASE L!Die
    BY <1>3 DEF L!Die, LevelsInv
<1>4. CASE UNCHANGED levelVars /\ online' = online
    BY <1>4 DEF levelVars, LevelsInv
<1>5. ASSUME NEW end \in L!Ends, L!Finally(end) PROVE LevelsInv'
    BY <1>5 DEF L!Finally, LevelsInv
<1> QED BY <1>1, <1>2, <1>3, <1>4, <1>5

LEMMA EInvInit == RewardsInit => EInv
<1> SUFFICES ASSUME RewardsInit PROVE EInv
    OBVIOUS
<1>1. L!New \in L!Standing
    BY DEF L!New, L!Standing
<1>2. ~Enough(L!New)
    BY Curve DEF L!New, Enough, Level
<1> QED BY <1>1, <1>2, AInvInit DEF RewardsInit, L!Init, EInv, LevelsInv

LEMMA EInvNext == EInv /\ [RewardsNext]_allVars => EInv'
<1> SUFFICES ASSUME EInv, [RewardsNext]_allVars PROVE EInv'
    OBVIOUS
<1>1. AInv'
    BY QuestsStep, AInvNext DEF EInv, allVars
<1>2. credit' \in Nat
    <2>1. \A m \in Monsters : KillExp[m] \in Nat
        BY RewardsAssumption
    <2> QED BY <2>1 DEF EInv, RewardsNext, EnterWorld, Leave, SaveElsewhere, Restart, TaskOp, Slay,
            GiveAward, PartDone, OpDone, GrantKills, Fails, allVars
<1>3. LevelsInv /\ AInv /\ credit \in Nat
    BY DEF EInv
<1>4. LevelsInv'
    <2>1. CASE EnterWorld \/ Leave \/ SaveElsewhere \/ Restart \/ OpDone
        <3>1. "ok" \in L!Ends
            BY DEF L!Ends
        <3> QED BY <2>1, <3>1, <1>3, LevelsInvKept DEF EnterWorld, Leave, SaveElsewhere, Restart, OpDone
    <2>2. ASSUME NEW t \in Tasks, TaskOp(t) PROVE LevelsInv'
        <3>1. UNCHANGED levelVars /\ online' = online
            BY <2>2 DEF TaskOp, Accept, Submit
        <3> QED BY <3>1, <1>3, LevelsInvKept
    <2>3. ASSUME NEW m \in Monsters, Slay(m) PROVE LevelsInv'
        <3>1. UNCHANGED levelVars /\ online' = online
            BY <2>3 DEF Slay, Kill
        <3> QED BY <3>1, <1>3, LevelsInvKept
    <2>4. CASE GiveAward
        <3>1. UNCHANGED levelVars /\ online' = online
            BY <2>4 DEF GiveAward, AwardPart, Unlock
        <3> QED BY <3>1, <1>3, LevelsInvKept
    <2>5. CASE PartDone
        <3>1. pc = "part" /\ online
            BY <2>5, <1>3 DEF PartDone, PartSaved, AInv, Inside
        <3>2. L!GrantExp(PartExp, "ok") \/ L!OtherSave
            BY <2>5 DEF PartDone
        <3> QED BY <3>1, <3>2, <1>3, PartExpIs, LevelsInvGrant, LevelsInvKept
    <2>6. ASSUME NEW end \in L!Ends, GrantKills(end) PROVE LevelsInv'
        <3>1. L!GrantExp(credit, end) /\ online
            BY <2>6 DEF GrantKills, L!GrantExp
        <3> QED BY <3>1, <1>3, LevelsInvGrant
    <2>7. ASSUME NEW end \in L!Ends, Fails(end) PROVE LevelsInv'
        <3>1. /\ online
              /\ L!Finally(end) \/ (pc = "part" /\ L!GrantExp(PartExp, end))
            BY <2>7 DEF Fails, Raises, SaveRaises
        <3> QED BY <3>1, <1>3, PartExpIs, LevelsInvGrant, LevelsInvKept
    <2>8. CASE UNCHANGED allVars
        <3>1. UNCHANGED levelVars /\ online' = online
            BY <2>8 DEF allVars, vars
        <3> QED BY <3>1, <1>3, LevelsInvKept
    <2> QED BY <2>1, <2>2, <2>3, <2>4, <2>5, <2>6, <2>7, <2>8 DEF RewardsNext
<1> QED BY <1>1, <1>2, <1>4 DEF EInv

\* Kills and awards that also pay exp are kills and awards of Quests: what holds of
\* Quests holds of the whole (on_attack, on_task_op, _give_award).
THEOREM RewardsImplementQuests == RewardsSpec => Spec
<1>1. RewardsInit => Init
    BY DEF RewardsInit
<1>2. [RewardsNext]_allVars => [Next]_vars
    BY QuestsStep DEF allVars
<1> QED BY <1>1, <1>2, PTL DEF RewardsSpec, Spec

\* Whatever is earned, from kills or awards, and whatever fails: no level-up is left
\* undone, in the session, the row or the file, and the HUD is right (grant_exp).
THEOREM LevelsAreShown == RewardsSpec => []LevelsShown
<1>1. EInv => LevelsShown
    <2> SUFFICES ASSUME EInv PROVE L!LevelsShown
        BY DEF LevelsShown
    <2>1. \A c \in L!Standing : ~Enough(c) =>
              (L!exp_to_next(c.level) > 0 => c.exp < L!exp_to_next(c.level))
        BY Curve DEF Enough, L!Standing, Level
    <2> QED BY <2>1 DEF EInv, LevelsInv, L!LevelsShown
<1> QED BY <1>1, EInvInit, EInvNext, PTL DEF RewardsSpec
-----------------------------------------------------------------------------
\* The exp of rows and awards.

\* In the middle of a part, the row is marked as given it and lacks its exp.
Balanced ==
    /\ slain.row \in Int /\ slain.disk \in Int /\ slain = [row |-> slain.row, disk |-> slain.disk]
    /\ pc = "part" => Worth(lrow) + PartExp = slain.row + Paid(row.given)
    /\ pc # "part" => Worth(lrow) = slain.row + Paid(row.given)
    /\ Worth(ldisk) = slain.disk + Paid(disk.given)

BInv == IInv /\ EInv /\ Balanced

\* The types of what the cases below add up.
LEMMA Ledger ==
    ASSUME BInv
    PROVE  /\ row.given \in Givens /\ disk.given \in Givens
           /\ Paid(row.given) \in Int /\ Paid(disk.given) \in Int
           /\ Worth(lrow) \in Int /\ Worth(ldisk) \in Int
           /\ slain.row \in Int /\ slain.disk \in Int
           /\ AInv /\ LevelsInv /\ credit \in Nat
<1>1. row.given \in Givens /\ disk.given \in Givens
    BY RowTypes DEF BInv, IInv, RewardedOnce, Images, Givens
<1>2. \A c \in L!Standing : Worth(c) \in Int
    BY SpentNext DEF L!Standing, Worth, Level
<1> QED BY <1>1, <1>2, PaidInt DEF BInv, EInv, LevelsInv, Balanced

\* A step that is not in the middle of a part balances if both rows do.
LEMMA Balances ==
    ASSUME NEW a \in Int, NEW b \in Int, slain' = [row |-> a, disk |-> b], pc' # "part",
           Worth(lrow') = a + Paid(row'.given), Worth(ldisk') = b + Paid(disk'.given)
    PROVE  Balanced'
BY DEF Balanced

\* The part of the award in hand, and what the row has been given.
LEMMA InHand ==
    ASSUME BInv
    PROVE  /\ pc = "award" /\ left > 0 => /\ row.given[task] < Awards[task]
                                          /\ PartExp = AwardExp[task][row.given[task] + 1]
           /\ pc = "part" => PartExp \in Nat /\ Worth(lrow) + PartExp = slain.row + Paid(row.given)
           /\ pc # "part" => Worth(lrow) = slain.row + Paid(row.given)
           /\ Worth(ldisk) = slain.disk + Paid(disk.given)
<1>1. row.given[task] \in Nat /\ Awards[task] \in Nat /\ left \in Nat
    BY RowTypes, QuestsAssumption DEF BInv, IInv
<1>2. pc = "award" /\ left > 0 => /\ row.given[task] < Awards[task]
                                  /\ PartExp = AwardExp[task][row.given[task] + 1]
    <2> SUFFICES ASSUME pc = "award", left > 0
                 PROVE  /\ row.given[task] < Awards[task]
                        /\ PartExp = AwardExp[task][row.given[task] + 1]
        OBVIOUS
    <2>1. row.given[task] + left = Awards[task]
        BY DEF BInv, IInv, Paying
    <2>2. Awards[task] - left + 1 = row.given[task] + 1
        BY <1>1, <2>1
    <2> QED BY <1>1, <2>1, <2>2 DEF PartExp
<1>3. pc = "part" => PartExp \in Nat
    BY PartExpIs DEF BInv, IInv
<1> QED BY <1>2, <1>3 DEF BInv, Balanced

\* What the session has is what its row has.
LEMMA Left == ASSUME LevelsInv, NEW end, L!Finally(end)
              PROVE  lrow' = lrow /\ ldisk' = IF end = "lost" THEN ldisk ELSE lrow
BY DEF L!Finally, LevelsInv

\* The steps that pay nothing.
LEMMA BalancedQuiet ==
    ASSUME BInv, EnterWorld \/ Leave \/ SaveElsewhere \/ Restart \/ OpDone
    PROVE  Balanced'
<1>1. slain.row \in Int /\ slain.disk \in Int /\ slain = [row |-> slain.row, disk |-> slain.disk]
    BY DEF BInv, Balanced
<1>2. LevelsInv /\ AInv
    BY Ledger
<1>3. CASE EnterWorld
    <2>1. /\ UNCHANGED <<row, disk, lrow, ldisk, slain, pc>> /\ pc # "part"
        BY <1>2, <1>3 DEF EnterWorld, Enter, L!LoginGateway, AInv, Inside
    <2> QED BY <1>1, <2>1, InHand, Balances
<1>4. CASE Leave \/ SaveElsewhere \/ OpDone
    <2>1. /\ row' = row /\ disk' = row /\ pc # "part" /\ pc' # "part"
          /\ lrow' = lrow /\ ldisk' = lrow
          /\ slain' = [row |-> slain.row, disk |-> slain.row]
        BY <1>1, <1>2, <1>4, Left
           DEF Leave, SaveElsewhere, OpDone, Free, Disconnect, OtherSave, OpSaved, L!OtherSave, Saved
    <2> QED BY <1>1, <2>1, InHand, Balances
<1>5. CASE Restart
    <2>1. /\ row' = disk /\ disk' = disk /\ pc' # "part" /\ lrow' = ldisk /\ ldisk' = ldisk
          /\ slain' = [row |-> slain.disk, disk |-> slain.disk]
        BY <1>1, <1>5 DEF Restart, Die, L!Die
    <2> QED BY <1>1, <2>1, InHand, Balances
<1> QED BY <1>3, <1>4, <1>5

\* Requests and kills pay nothing at once.
LEMMA BalancedRequest ==
    ASSUME BInv, \/ \E t \in Tasks : TaskOp(t)
                 \/ \E m \in Monsters : Slay(m)
    PROVE  Balanced'
<1> DEFINE Unpaid == /\ row'.given = row.given /\ pc = "idle" /\ pc' # "part"
                     /\ UNCHANGED <<disk, lrow, ldisk, slain>>
<1>1. Unpaid
    <2>1. row \in Row
        BY DEF BInv, EInv, AInv, TypeOK
    <2>2. ASSUME NEW t \in Tasks, TaskOp(t) PROVE Unpaid
        BY <2>1, <2>2 DEF TaskOp, Accept, Submit, levelVars, Row
    <2>3. ASSUME NEW m \in Monsters, Slay(m) PROVE Unpaid
        BY <2>1, <2>3 DEF Slay, Kill, levelVars, Row
    <2> QED BY <2>2, <2>3
<1> QED BY <1>1, InHand, Balances DEF BInv, Balanced

\* The row is given a part, before its exp; or the next quest.
LEMMA BalancedAward == ASSUME BInv, GiveAward PROVE Balanced'
<1>1. UNCHANGED <<disk, lrow, ldisk, slain, task, left>> /\ pc = "award" /\ row \in Row
    BY DEF GiveAward, AwardPart, Unlock, levelVars, BInv, EInv, AInv, TypeOK
<1>2. CASE AwardPart
    <2>1. row'.given = [row.given EXCEPT ![task] = @ + 1] /\ left > 0 /\ pc' = "part"
        BY <1>1, <1>2 DEF AwardPart, Row
    <2>2. task \in Tasks /\ PartExp' = PartExp
        BY <1>1 DEF PartExp, BInv, EInv, AInv, TypeOK
    <2>3. PartExp \in Nat /\ Paid(row'.given) = Paid(row.given) + PartExp
        BY <1>1, <2>1, <2>2, InHand, Ledger, PaidNext
    <2>4. Worth(lrow) + PartExp = slain.row + Paid(row'.given)
        BY <1>1, <2>3, InHand, Ledger
    <2> QED BY <1>1, <2>1, <2>2, <2>4 DEF BInv, Balanced
<1>3. CASE Unlock
    <2>1. row'.given = row.given /\ pc' # "part"
        BY <1>1, <1>3 DEF Unlock, Row
    <2> QED BY <1>1, <2>1, InHand, Balances DEF BInv, Balanced
<1> QED BY <1>2, <1>3 DEF GiveAward

\* A part of an award is in the store, with its exp.
LEMMA BalancedPart == ASSUME BInv, PartDone PROVE Balanced'
<1>1. /\ row' = row /\ disk' = row /\ pc = "part" /\ pc' # "part" /\ online
      /\ slain' = [row |-> slain.row, disk |-> slain.row] /\ slain.row \in Int
      /\ LevelsInv /\ PartExp \in Nat
    BY InHand DEF PartDone, PartSaved, Saved, BInv, EInv, AInv, Inside, Balanced
<1>2. Worth(lrow') = Worth(lrow) + PartExp /\ ldisk' = lrow'
    <2>1. CASE PartExp > 0
        BY <1>1, <2>1, Grant DEF PartDone
    <2>2. CASE ~(PartExp > 0)
        <3>1. lrow' = lrow /\ ldisk' = lrow /\ PartExp = 0
            BY <1>1, <2>2 DEF PartDone, L!OtherSave
        <3> QED BY <3>1, Ledger
    <2> QED BY <2>1, <2>2
<1> QED BY <1>1, <1>2, InHand, Balances

\* The exp of the kills of an attack.
LEMMA BalancedKills == ASSUME BInv, NEW end \in L!Ends, GrantKills(end) PROVE Balanced'
<1> DEFINE n == slain.row + credit
<1>1. /\ row' = row /\ pc = "idle" /\ pc' # "part" /\ online
      /\ disk' = IF end = "lost" THEN disk ELSE row
      /\ slain' = [row |-> n, disk |-> IF end = "lost" THEN slain.disk ELSE n]
    BY DEF GrantKills, OtherSave, Raises, SaveRaises, L!GrantExp
<1>2. /\ Worth(lrow') = Worth(lrow) + credit
      /\ ldisk' = IF end = "lost" THEN ldisk ELSE lrow'
    BY <1>1, Ledger, Grant DEF GrantKills
<1>3. n \in Int /\ Worth(lrow') = n + Paid(row.given)
    BY <1>1, <1>2, Ledger, InHand
<1>4. slain.disk \in Int /\ Worth(ldisk) = slain.disk + Paid(disk.given)
    BY InHand, Ledger
<1> HIDE DEF n
<1>5. CASE end = "lost"
    BY <1>1, <1>2, <1>3, <1>4, <1>5, Balances
<1>6. CASE end # "lost"
    BY <1>1, <1>2, <1>3, <1>6, Balances
<1> QED BY <1>5, <1>6

\* A save raises: the row keeps the part with its exp, the file has both or neither.
LEMMA BalancedFails == ASSUME BInv, NEW end \in L!Ends, Fails(end) PROVE Balanced'
<1>1. /\ row' = row /\ pc' # "part" /\ online
      /\ disk' = IF end = "lost" THEN disk ELSE row
      /\ slain.row \in Int /\ slain.disk \in Int
      /\ slain' = [row |-> slain.row, disk |-> IF end = "lost" THEN slain.disk ELSE slain.row]
      /\ LevelsInv
    BY DEF Fails, Raises, SaveRaises, Saved, BInv, EInv, Balanced
<1>2. /\ Worth(lrow') = slain.row + Paid(row.given)
      /\ ldisk' = IF end = "lost" THEN ldisk ELSE lrow'
    <2>1. CASE pc = "part" /\ PartExp > 0
        <3>1. PartExp \in Nat /\ L!GrantExp(PartExp, end)
            BY <2>1, InHand DEF Fails
        <3>2. /\ Worth(lrow') = Worth(lrow) + PartExp
              /\ ldisk' = IF end = "lost" THEN ldisk ELSE lrow'
            BY <1>1, <3>1, Grant
        <3> QED BY <2>1, <3>2, InHand
    <2>2. CASE ~(pc = "part" /\ PartExp > 0)
        <3>1. lrow' = lrow /\ ldisk' = IF end = "lost" THEN ldisk ELSE lrow
            BY <1>1, <2>2, Left DEF Fails
        <3>2. Worth(lrow) = slain.row + Paid(row.given)
            <4>1. CASE pc = "part"
                <5>1. PartExp = 0
                    BY <2>2, <4>1, InHand
                <5> QED BY <4>1, <5>1, InHand, Ledger
            <4> QED BY <4>1, InHand
        <3> QED BY <3>1, <3>2
    <2> QED BY <2>1, <2>2
<1>3. Worth(ldisk) = slain.disk + Paid(disk.given)
    BY InHand
<1>4. CASE end = "lost"
    BY <1>1, <1>2, <1>3, <1>4, Balances
<1>5. CASE end # "lost"
    BY <1>1, <1>2, <1>5, Balances
<1> QED BY <1>4, <1>5

LEMMA BInvInit == RewardsInit => BInv
<1> SUFFICES ASSUME RewardsInit PROVE BInv
    OBVIOUS
<1> DEFINE none == [t \in Tasks |-> 0]
<1>1. row.given = none /\ disk.given = none /\ pc # "part"
    BY DEF RewardsInit, Init, NewRow
<1>2. \A t \in Tasks : Part(none)[t] = 0
    <2>1. \A t \in Tasks : 1..none[t] = {}
        OBVIOUS
    <2> QED BY <2>1, SumEmpty DEF Part
<1>3. none \in Givens
    BY QuestsAssumption DEF Givens
<1> HIDE DEF none
<1>4. Paid(none) = 0
    <2> DEFINE p == Part(none)
               F == {X \in SUBSET Tasks : Sum(p, X) = 0}
    <2>1. IsFiniteSet(Tasks) /\ Paid(none) = Sum(p, Tasks)
        BY <1>3, PaidInt
    <2>2. \A t \in Tasks : p[t] = 0
        BY <1>2
    <2> HIDE DEF p
    <2> SUFFICES ASSUME Tasks \notin F PROVE FALSE
        BY <2>1
    <2>3. \E X \in SUBSET Tasks : X \notin F
        OBVIOUS
    <2>4. PICK X \in SUBSET Tasks : X \notin F /\ \A Y \in SUBSET X : Y # X => Y \in F
        <3> HIDE DEF F
        <3> QED BY <2>1, <2>3, LeastSubset
    <2>5. PICK x \in X : TRUE
        BY <2>4, SumEmpty
    <2>6. Sum(p, X) = p[x] + Sum(p, X \ {x})
        <3>1. IsFiniteSet(X) /\ Ints(p, X)
            BY <2>1, <2>2, <2>4, FS_Subset DEF Ints
        <3> QED BY <3>1, SumRemove
    <2>7. Sum(p, X \ {x}) = 0
        BY <2>4, <2>5
    <2> QED BY <2>2, <2>4, <2>6, <2>7
<1>5. L!New \in L!Standing /\ L!New.level = 1 /\ L!New.exp = 0
    BY DEF L!New, L!Standing
<1>6. Worth(L!New) = 0
    <2>1. L!Spent(1) = 0
        <3>1. L!Spent(1) = Sum(Costs(1 - 1), 1..(1 - 1))
            BY SpentIs
        <3>2. 1..(1 - 1) = {}
            OBVIOUS
        <3> QED BY <3>1, <3>2, SumEmpty
    <2> QED BY <2>1, <1>5 DEF Worth
<1>7. Balanced
    BY <1>1, <1>4, <1>6 DEF RewardsInit, L!Init, Balanced
<1> QED BY <1>7, IInvInit, EInvInit DEF RewardsInit, BInv

LEMMA BInvNext == ASSUME Offered, BInv, [RewardsNext]_allVars PROVE BInv'
<1>1. IInv'
    BY QuestsStep, IInvNext DEF BInv, allVars
<1>2. EInv'
    BY EInvNext DEF BInv
<1>3. Balanced'
    <2>1. CASE UNCHANGED allVars
        BY <2>1 DEF BInv, Balanced, allVars, vars, levelVars, Worth, PartExp
    <2> QED BY <2>1, BalancedQuiet, BalancedRequest, BalancedAward, BalancedPart, BalancedKills,
               BalancedFails DEF RewardsNext
<1> QED BY <1>1, <1>2, <1>3 DEF BInv

\* For a client that accepts what it was offered, and whatever fails: the level and
\* exp of a row, and of its copy in the file, are worth what its kills and the parts
\* of its awards have paid (_give_award, grant_exp, save_session).
THEOREM ExpIsAccounted == ASSUME Offered PROVE RewardsSpec => []ExpAccounted
<1>1. BInv => ExpAccounted
    BY DEF BInv, Balanced, ExpAccounted
<1>2. BInv /\ [RewardsNext]_allVars => BInv'
    BY BInvNext
<1> QED BY <1>1, <1>2, BInvInit, PTL DEF RewardsSpec
-----------------------------------------------------------------------------
\* Rewards implements Levels, too.

\* Levels cost something or nothing.
LEMMA SpentNat == \A l \in Level : L!Spent(l) \in Nat
<1> DEFINE T == {n \in Nat : L!Spent(n + 1) \in Nat}
<1>1. 0 \in T
    <2>1. L!Spent(1) = Sum(Costs(1 - 1), 1..(1 - 1))
        BY SpentIs
    <2>2. 1..(1 - 1) = {} /\ 0 + 1 = 1
        OBVIOUS
    <2> QED BY <2>1, <2>2, SumEmpty
<1>2. ASSUME NEW n \in T PROVE n + 1 \in T
    <2>1. n + 1 \in Level
        BY DEF Level
    <2> QED BY <2>1, SpentNext, Curve
<1>3. T = Nat
    <2>1. T \in SUBSET Nat
        OBVIOUS
    <2> HIDE DEF T
    <2> QED BY <2>1, <1>1, <1>2, SetInduction
<1>4. ASSUME NEW l \in Level PROVE L!Spent(l) \in Nat
    <2>1. l - 1 \in Nat /\ (l - 1) + 1 = l
        BY DEF Level
    <2>2. l - 1 \in T
        BY <1>3, <2>1
    <2> QED BY <2>1, <2>2
<1> QED BY <1>4

Earned == EInv /\ earned \in Nat

LEMMA EarnedInit == RewardsInit => Earned
BY EInvInit DEF RewardsInit, L!Init, Earned

\* Every step of the whole is one of Levels, or leaves it alone.
LEMMA LevelsStep ==
    ASSUME Earned, RewardsNext PROVE (L!Next \/ UNCHANGED L!vars) /\ earned' \in Nat
<1>1. EInv /\ AInv /\ earned \in Nat /\ ldisk \in L!Standing /\ credit \in Nat /\ MaxEarned \in Nat
    BY RewardsAssumption DEF Earned, EInv, LevelsInv, L!LevelsAssumption
<1>2. ASSUME NEW n \in Nat, NEW end \in L!Ends, L!GrantExp(n, end)
      PROVE  L!Next /\ earned' \in Nat
    <2>1. n \in Amounts /\ earned' \in Nat
        BY <1>1, <1>2 DEF L!GrantExp, Amounts
    <2> QED BY <2>1, <1>2 DEF L!Next
<1>3. ASSUME L!LoginGateway \/ L!OtherSave \/ \E end \in L!Ends : L!Finally(end)
      PROVE  L!Next /\ earned' \in Nat
    BY <1>1, <1>3 DEF L!Next, L!LoginGateway, L!OtherSave, L!Finally
<1>4. ASSUME L!Die PROVE L!Next /\ earned' \in Nat
    <2>1. L!Spent(ldisk.level) \in Nat /\ ldisk.exp \in Nat
        BY <1>1, SpentNat DEF L!Standing, Level
    <2> QED BY <1>4, <2>1 DEF L!Die, L!Next
<1>5. ASSUME UNCHANGED levelVars, online' = online, faults' = faults
      PROVE  UNCHANGED L!vars /\ earned' \in Nat
    BY <1>1, <1>5 DEF levelVars, L!vars
<1>6. "ok" \in L!Ends
    BY DEF L!Ends
<1>7. CASE EnterWorld \/ Leave \/ SaveElsewhere \/ OpDone
    BY <1>3, <1>6, <1>7 DEF EnterWorld, Leave, SaveElsewhere, OpDone
<1>8. CASE Restart
    BY <1>4, <1>8 DEF Restart
<1>9. CASE (\E t \in Tasks : TaskOp(t)) \/ (\E m \in Monsters : Slay(m)) \/ GiveAward
    BY <1>5, <1>9 DEF TaskOp, Accept, Submit, Slay, Kill, GiveAward, AwardPart, Unlock
<1>10. CASE PartDone
    <2>1. pc = "part"
        BY <1>10 DEF PartDone, PartSaved
    <2>2. PartExp \in Nat
        BY <1>1, <2>1, PartExpIs
    <2> QED BY <1>2, <1>3, <1>6, <1>10, <2>2 DEF PartDone
<1>11. ASSUME NEW end \in L!Ends, GrantKills(end) PROVE L!Next /\ earned' \in Nat
    BY <1>1, <1>2, <1>11 DEF GrantKills
<1>12. ASSUME NEW end \in L!Ends, Fails(end) PROVE L!Next /\ earned' \in Nat
    <2>1. L!Finally(end) \/ (PartExp \in Nat /\ L!GrantExp(PartExp, end))
        BY <1>1, <1>12, PartExpIs DEF Fails
    <2> QED BY <1>2, <1>3, <2>1
<1> QED BY <1>7, <1>8, <1>9, <1>10, <1>11, <1>12 DEF RewardsNext

LEMMA EarnedNext == Earned /\ [RewardsNext]_allVars => Earned' /\ [L!Next]_L!vars
<1> SUFFICES ASSUME Earned, [RewardsNext]_allVars PROVE Earned' /\ [L!Next]_L!vars
    OBVIOUS
<1>1. EInv'
    BY EInvNext DEF Earned
<1>2. CASE RewardsNext
    BY <1>1, <1>2, LevelsStep DEF Earned
<1>3. CASE UNCHANGED allVars
    BY <1>1, <1>3 DEF Earned, allVars, vars, levelVars, L!vars
<1> QED BY <1>2, <1>3

\* Whatever quests and kills pay, levels and exp change as Levels says: every grant
\* within its bounds, and every save, disconnect and crash at once with the quests'.
THEOREM RewardsImplementLevels == RewardsSpec => L!Spec
<1>1. RewardsInit => L!Init
    BY DEF RewardsInit
<1> QED BY <1>1, EarnedInit, EarnedNext, PTL DEF RewardsSpec, L!Spec
=============================================================================
