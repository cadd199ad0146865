-------------------------- MODULE PopulationProofs --------------------------
(***************************************************************************)
(* Theorems about Population, for every set of maps, uids and populations, *)
(* every HP and every sleep with AnimDelay < SpawnDelay.  TypeCorrect      *)
(* holds whatever the player does; the others need a player that is not    *)
(* back on a map before the monsters killed there are, and enters the      *)
(* world once per connection.                                              *)
(***************************************************************************)
EXTENDS Population, TLAPS

\* The task will respawn uid u on the map the player is on.
Here(u, i) == ComesBack(deaths[u][i]) /\ deaths[u][i].home = mapid

\* The task was just created, on a map that is populated.
Fresh(u, i) == deaths[u][i].phase = "new" /\ spawnT = -1

\* Nothing is left of an earlier population while one is awaited.
ClearedWhileWaiting ==
    spawnT >= 0 \/ ~in_world =>
        \A u \in Uids : monsters[u] = 0 /\ shown[u] = 0 /\ pos[u] = "none" /\ spawns[u] = NoTmpl

\* Before the world is entered nothing is under way.
NothingBefore == ~in_world => /\ spawnT = -1
                              /\ \A u \in Uids, i \in Ids : deaths[u][i].phase = "free"

\* A monster has a template exactly when it has a position, and both if it lives.
Complete == \A u \in Uids : /\ spawns[u] = NoTmpl <=> pos[u] = "none"
                            /\ monsters[u] > 0 => spawns[u] # NoTmpl

\* A task that will respawn a monster here does so on a populated map, where
\* the monster is dead and on record with the task's template.
DeadAndKnown == \A u \in Uids, i \in Ids : Here(u, i) =>
    spawnT = -1 /\ monsters[u] = 0 /\ deaths[u][i].tmpl = spawns[u]

\* A task that has not run yet is for a monster dead here, or the player has
\* left in the same instant.
JustCreated == \A u \in Uids, i \in Ids : deaths[u][i].phase = "new" =>
    \/ spawnT = SpawnDelay
    \/ spawnT = -1 /\ monsters[u] = 0 /\ spawns[u] # NoTmpl

\* No uid has two of either.
OneTask == \A u \in Uids : \A i, j \in Ids :
    (Here(u, i) \/ Fresh(u, i)) /\ (Here(u, j) \/ Fresh(u, j)) => i = j

\* A task that found no template ends before the map it runs on is populated.
EndsBeforeSpawn == \A u \in Uids, i \in Ids :
    deaths[u][i].phase = "anim" /\ deaths[u][i].tmpl = NoTmpl /\ deaths[u][i].home = mapid
    => deaths[u][i].left < spawnT

\* A first sleep is never longer than AnimDelay.
AnimShort == \A u \in Uids, i \in Ids :
    deaths[u][i].phase = "anim" => deaths[u][i].left <= AnimDelay

\* A second sleep is only ever for a monster that can come back.
RebornHasTemplate == \A u \in Uids, i \in Ids :
    deaths[u][i].phase = "reborn" => deaths[u][i].tmpl # NoTmpl

\* The corpse of a monster that is about to come back is gone.
CorpseGone == \A u \in Uids, i \in Ids :
    Here(u, i) /\ deaths[u][i].phase = "reborn" /\ alive => shown[u] = 0

IInv == /\ ClearedWhileWaiting /\ NothingBefore /\ Complete
        /\ DeadAndKnown /\ JustCreated /\ OneTask /\ EndsBeforeSpawn
        /\ AnimShort /\ RebornHasTemplate /\ CorpseGone /\ NoStacking /\ ClientSeesAll
-----------------------------------------------------------------------------
\* A task whose fields change within their types is a task.
LEMMA TaskUpdate ==
    ASSUME NEW t \in Task, NEW n \in Nat
    PROVE  /\ [t EXCEPT !.phase = "new"] \in Task
           /\ [t EXCEPT !.left = n] \in Task
           /\ [t EXCEPT !.phase = "reborn", !.left = n] \in Task
  BY DEF Task

\* One step keeps the types.
LEMMA TypeNext == TypeOK /\ [Next]_vars => TypeOK'
<1> SUFFICES ASSUME TypeOK, [Next]_vars PROVE TypeOK'
  OBVIOUS
<1> USE PopulationAssumption DEF PopulationAssumption, TypeOK
<1>1. ASSUME NEW m \in Maps, LoginGateway(m) \/ Teleport(m) PROVE TypeOK'
  <2>1. UNCHANGED deaths /\ mapid' \in Maps /\ in_world' \in BOOLEAN /\ UNCHANGED alive
        /\ spawnT' = SpawnDelay /\ shown' = Nobody
    BY <1>1 DEF LoginGateway, Teleport
  <2>2. monsters' \in [Uids -> 0..MaxHp] /\ spawns' \in Pops /\ pos' \in [Uids -> {"none", "born", "away"}]
    BY <1>1 DEF LoginGateway, Teleport, Nobody, Pops
  <2> QED
    BY <2>1, <2>2 DEF Nobody
<1>2. ASSUME NEW V \in SUBSET Uids, NEW hp \in [V -> 0..(MaxHp - 1)], NEW slot \in [V -> Ids],
             Attack(hp, slot)
      PROVE  TypeOK'
  <2>1. monsters' \in [Uids -> 0..MaxHp]
    BY <1>2 DEF Attack, Left
  <2>2. ASSUME NEW u \in V PROVE [deaths[u] EXCEPT ![slot[u]].phase = "new"] \in [Ids -> Task]
    <3>1. slot[u] \in Ids /\ deaths[u] \in [Ids -> Task]
      OBVIOUS
    <3>2. [deaths[u][slot[u]] EXCEPT !.phase = "new"] \in Task
      <4>1. deaths[u][slot[u]] \in Task
        BY <3>1
      <4> QED
        BY <4>1, TaskUpdate
    <3> QED
      BY <3>1, <3>2
  <2>3. deaths' \in [Uids -> [Ids -> Task]]
    BY <1>2, <2>2 DEF Attack, Left
  <2> QED
    BY <1>2, <2>1, <2>3 DEF Attack, Left
<1>3. CASE Disconnect
  BY <1>3 DEF Disconnect
<1>4. CASE SpawnWorld
  <2>1. CASE alive
    <3>1. PICK q \in PopsOf[mapid] :
             /\ spawns' = q
             /\ monsters' = [u \in Uids |-> IF q[u] = NoTmpl THEN 0 ELSE MaxHp]
             /\ pos' = [u \in Uids |-> IF q[u] = NoTmpl THEN "none" ELSE "born"]
             /\ shown' = [u \in Uids |-> IF q[u] = NoTmpl THEN shown[u] ELSE Added(shown[u])]
      BY <1>4, <2>1 DEF SpawnWorld, Populate
    <3>2. monsters' \in [Uids -> 0..MaxHp] /\ pos' \in [Uids -> {"none", "born", "away"}]
      BY <3>1
    <3>3. shown' \in [Uids -> 0..2] /\ spawns' \in Pops
      BY <3>1 DEF Added
    <3> QED
      BY <1>4, <3>2, <3>3 DEF SpawnWorld, Populate
  <2>2. CASE ~alive
    BY <1>4, <2>2 DEF SpawnWorld, Populate
  <2> QED BY <2>1, <2>2
<1>5. CASE Tick
  <2>1. spawnT' \in {-1} \cup 0..SpawnDelay
    BY <1>5 DEF Tick
  <2>2. deaths' \in [Uids -> [Ids -> Task]]
    <3>1. ASSUME NEW u \in Uids, NEW i \in Ids, deaths[u][i].left > 0
          PROVE  [deaths[u][i] EXCEPT !.left = @ - 1] \in Task
      <4>1. deaths[u][i] \in Task
        OBVIOUS
      <4>2. deaths[u][i].left - 1 \in Nat
        BY <3>1, <4>1 DEF Task
      <4> QED
        BY <4>1, <4>2, TaskUpdate
    <3> QED
      BY <1>5, <3>1 DEF Tick
  <2> QED
    BY <1>5, <2>1, <2>2 DEF Tick
<1>6. ASSUME NEW u \in Uids, NEW i \in Ids,
             DeathStart(u, i) \/ DeathAnim(u, i) \/ DeathReborn(u, i)
      PROVE  TypeOK'
  <2>1. Free(mapid) \in Task
    BY DEF Free, Task
  <2>2. CASE DeathStart(u, i)
    <3>1. [phase |-> "anim", left |-> AnimDelay, home |-> mapid, tmpl |-> spawns[u]] \in Task
      BY DEF Task, Pops
    <3> QED
      BY <2>2, <3>1 DEF DeathStart
  <2>3. CASE DeathAnim(u, i)
    <3>1. deaths' \in [Uids -> [Ids -> Task]]
      <4>1. ASSUME NEW n \in RebornTimes
            PROVE  [deaths[u][i] EXCEPT !.phase = "reborn", !.left = n] \in Task
        <5>1. deaths[u][i] \in Task /\ n \in Nat
          OBVIOUS
        <5> QED
          BY <5>1, TaskUpdate
      <4>2. \/ deaths' = [deaths EXCEPT ![u][i] = Free(mapid)]
            \/ \E n \in RebornTimes :
                   deaths' = [deaths EXCEPT ![u][i].phase = "reborn", ![u][i].left = n]
        BY <2>3 DEF DeathAnim
      <4>3. ASSUME NEW n \in RebornTimes,
                   deaths' = [deaths EXCEPT ![u][i].phase = "reborn", ![u][i].left = n]
            PROVE  deaths' \in [Uids -> [Ids -> Task]]
        <5>0. deaths \in [Uids -> [Ids -> Task]]
          OBVIOUS
        <5>1. [deaths[u] EXCEPT ![i] = [deaths[u][i] EXCEPT !.phase = "reborn", !.left = n]]
                  \in [Ids -> Task]
          <6>1. deaths[u] \in [Ids -> Task]
            OBVIOUS
          <6> QED
            BY <4>1, <6>1
        <5>2. deaths' = [deaths EXCEPT ![u] =
                  [deaths[u] EXCEPT ![i] = [deaths[u][i] EXCEPT !.phase = "reborn", !.left = n]]]
          BY <4>3
        <5>3. \A f \in [Ids -> Task] : [deaths EXCEPT ![u] = f] \in [Uids -> [Ids -> Task]]
          BY <5>0
        <5> QED
          BY <5>1, <5>2, <5>3
      <4>4. [deaths EXCEPT ![u][i] = Free(mapid)] \in [Uids -> [Ids -> Task]]
        BY <2>1
      <4> QED
        BY <4>2, <4>3, <4>4
    <3>2. shown' \in [Uids -> 0..2]
      BY <2>3 DEF DeathAnim
    <3> QED
      BY <2>3, <3>1, <3>2 DEF DeathAnim
  <2>4. CASE DeathReborn(u, i)
    <3>1. deaths' \in [Uids -> [Ids -> Task]]
      BY <2>1, <2>4 DEF DeathReborn
    <3>2. monsters' \in [Uids -> 0..MaxHp] /\ shown' \in [Uids -> 0..2]
      BY <2>4 DEF DeathReborn, Added
    <3> QED
      BY <2>4, <3>1, <3>2 DEF DeathReborn
  <2> QED
    BY <1>6, <2>2, <2>3, <2>4
<1>7. ASSUME NEW u \in Uids, Chase(u) PROVE TypeOK'
  BY <1>7 DEF Chase
<1>8. CASE UNCHANGED vars
  BY <1>8 DEF vars
<1> QED
  BY <1>1, <1>2, <1>3, <1>4, <1>5, <1>6, <1>7, <1>8 DEF Next, Requests, Background

\* The session's monsters, tasks and timer always have their types.
THEOREM TypeCorrect == Spec => []TypeOK
<1>1. Init => TypeOK
  <2> SUFFICES ASSUME Init PROVE TypeOK
    OBVIOUS
  <2>1. Free(mapid) \in Task /\ mapid \in Maps
    BY DEF Init, Free, Task
  <2>2. deaths \in [Uids -> [Ids -> Task]]
    BY <2>1 DEF Init
  <2>3. monsters \in [Uids -> 0..MaxHp] /\ shown \in [Uids -> 0..2]
    BY PopulationAssumption DEF PopulationAssumption, Init, Nobody
  <2>5. alive \in BOOLEAN /\ in_world \in BOOLEAN /\ spawnT \in {-1} \cup 0..SpawnDelay
    BY DEF Init
  <2>4. spawns \in Pops /\ pos \in [Uids -> {"none", "born", "away"}]
    BY DEF Init, Pops
  <2> QED
    BY <2>1, <2>2, <2>3, <2>4, <2>5 DEF TypeOK
<1> QED
  BY <1>1, TypeNext, PTL DEF Spec
-----------------------------------------------------------------------------
\* The player is patient, and enters the world once.
Patient == ~Return /\ ~Reenter

LEMMA IInvInit == Init => IInv
<1> SUFFICES ASSUME Init PROVE IInv
  OBVIOUS
<1> USE DEF Init, Nobody, Free, Here, Fresh, ComesBack
<1>1. ClearedWhileWaiting
  BY DEF ClearedWhileWaiting
<1>2. NothingBefore
  BY DEF NothingBefore
<1>3. Complete
  BY DEF Complete
<1>4. DeadAndKnown
  BY DEF DeadAndKnown
<1>5. JustCreated
  BY DEF JustCreated
<1>6. OneTask
  BY DEF OneTask
<1>7. EndsBeforeSpawn
  BY DEF EndsBeforeSpawn
<1>8. AnimShort
  BY DEF AnimShort
<1>9. RebornHasTemplate
  BY DEF RebornHasTemplate
<1>10. CorpseGone
  BY DEF CorpseGone
<1>11. NoStacking
  BY DEF NoStacking
<1>12. ClientSeesAll
  BY DEF ClientSeesAll, Corpse
<1> QED
  BY <1>1, <1>2, <1>3, <1>4, <1>5, <1>6, <1>7, <1>8, <1>9, <1>10, <1>11, <1>12 DEF IInv

LEMMA IInvNext == ASSUME Patient, TypeOK, IInv, [Next]_vars PROVE IInv'
<1>a. /\ ClearedWhileWaiting /\ NothingBefore /\ Complete /\ DeadAndKnown /\ JustCreated
      /\ OneTask /\ EndsBeforeSpawn /\ AnimShort /\ RebornHasTemplate /\ CorpseGone
      /\ NoStacking /\ ClientSeesAll
  BY DEF IInv
<1>t. /\ spawnT \in Int /\ spawnT >= -1 /\ alive \in BOOLEAN /\ in_world \in BOOLEAN
      /\ \A u \in Uids : monsters[u] \in Nat /\ shown[u] \in Nat
      /\ \A u \in Uids, i \in Ids : /\ deaths[u][i].left \in Nat
                                    /\ deaths[u][i].phase \in {"free", "new", "anim", "reborn"}
  BY DEF PopulationAssumption, TypeOK, Task
<1>n. SpawnDelay \in Nat /\ AnimDelay \in Nat /\ 0 < AnimDelay /\ AnimDelay < SpawnDelay
      /\ MaxHp \in Nat \ {0}
  BY PopulationAssumption
<1>1. ASSUME NEW m \in Maps, LoginGateway(m) PROVE IInv'
  <2>e. /\ ~in_world /\ in_world' /\ spawnT' = SpawnDelay /\ (\A u \in Uids : shown'[u] = 0)
        /\ UNCHANGED <<alive, monsters, spawns, pos, deaths>>
    BY <1>1 DEF LoginGateway, Patient, Nobody
  <2>f. \A u \in Uids, i \in Ids : deaths[u][i].phase = "free"
    BY <1>a, <2>e DEF NothingBefore
  <2>1. ClearedWhileWaiting'
    BY <1>a, <2>e DEF ClearedWhileWaiting
  <2>2. NothingBefore'
    BY <2>e DEF NothingBefore
  <2>3. Complete'
    BY <1>a, <2>e DEF Complete
  <2>4. DeadAndKnown'
    BY <2>e, <2>f DEF DeadAndKnown, Here, ComesBack
  <2>5. JustCreated'
    BY <2>e DEF JustCreated
  <2>6. OneTask'
    BY <2>e, <2>f DEF OneTask, Here, Fresh, ComesBack
  <2>7. EndsBeforeSpawn'
    BY <2>e, <2>f DEF EndsBeforeSpawn
  <2>8. AnimShort'
    BY <2>e, <2>f DEF AnimShort
  <2>9. RebornHasTemplate'
    BY <2>e, <2>f DEF RebornHasTemplate
  <2>10. CorpseGone'
    BY <2>e DEF CorpseGone
  <2>11. NoStacking'
    BY <2>e DEF NoStacking
  <2>12. ClientSeesAll'
    BY <1>a, <2>e DEF ClientSeesAll, ClearedWhileWaiting
  <2> QED
    BY <2>1, <2>2, <2>3, <2>4, <2>5, <2>6, <2>7, <2>8, <2>9, <2>10, <2>11, <2>12 DEF IInv
<1>2. ASSUME NEW m \in Maps, Teleport(m) PROVE IInv'
  <2>e. /\ in_world /\ in_world' /\ mapid' = m /\ spawnT' = SpawnDelay /\ UNCHANGED <<alive, deaths>>
        /\ \A u \in Uids : /\ monsters'[u] = 0 /\ shown'[u] = 0
                           /\ pos'[u] = "none" /\ spawns'[u] = NoTmpl
    BY <1>2 DEF Teleport, Nobody
  <2>f. \A u \in Uids, i \in Ids : ~Here(u, i)'
    BY <1>2 DEF Teleport, Patient, TooSoon, Here
  <2>1. ClearedWhileWaiting'
    BY <2>e DEF ClearedWhileWaiting
  <2>2. NothingBefore'
    BY <2>e DEF NothingBefore
  <2>3. Complete'
    BY <2>e DEF Complete
  <2>4. DeadAndKnown'
    BY <2>f DEF DeadAndKnown
  <2>5. JustCreated'
    BY <2>e DEF JustCreated
  <2>6. OneTask'
    BY <1>n, <2>e, <2>f DEF OneTask, Fresh
  <2>7. EndsBeforeSpawn'
    BY <1>a, <1>t, <1>n, <2>e DEF EndsBeforeSpawn, AnimShort
  <2>8. AnimShort'
    BY <1>a, <2>e DEF AnimShort
  <2>9. RebornHasTemplate'
    BY <1>a, <2>e DEF RebornHasTemplate
  <2>10. CorpseGone'
    BY <2>f DEF CorpseGone
  <2>11. NoStacking'
    BY <2>e DEF NoStacking
  <2>12. ClientSeesAll'
    BY <2>e DEF ClientSeesAll
  <2> QED
    BY <2>1, <2>2, <2>3, <2>4, <2>5, <2>6, <2>7, <2>8, <2>9, <2>10, <2>11, <2>12 DEF IInv
<1>3. ASSUME NEW V \in SUBSET Uids, NEW hp \in [V -> 0..(MaxHp - 1)], NEW slot \in [V -> Ids],
             Attack(hp, slot)
      PROVE  IInv'
  <2>e. UNCHANGED <<alive, in_world, mapid, spawns, pos, spawnT, shown>>
    BY <1>3 DEF Attack, Left
  <2>v. \A u \in V : u \in Uids /\ monsters[u] > 0 /\ monsters'[u] = hp[u]
    BY <1>3 DEF Attack, Left, Victims
  <2>w. \A u \in Uids \ V : monsters'[u] = monsters[u]
    BY <1>3 DEF Attack, Left
  <2>k. \A u \in V : hp[u] \in Nat /\ slot[u] \in Ids
    BY <1>n
  <2>s. \E u \in Uids : monsters[u] > 0
    BY <1>3 DEF Attack, Left, Victims
  <2>p. spawnT = -1 /\ in_world
    BY <1>a, <1>t, <2>s DEF ClearedWhileWaiting
  <2>d. \A u \in Uids, i \in Ids :
        /\ u \in V /\ hp[u] = 0 /\ i = slot[u] => deaths'[u][i].phase = "new"
        /\ ~(u \in V /\ hp[u] = 0 /\ i = slot[u]) => deaths'[u][i] = deaths[u][i]
    BY <1>3 DEF Attack, Left, TypeOK
  <2>h. \A u \in Uids, i \in Ids :
        /\ Here(u, i)' => Here(u, i) /\ deaths'[u][i] = deaths[u][i]
        /\ Fresh(u, i)' => Fresh(u, i) \/ (u \in V /\ hp[u] = 0 /\ i = slot[u])
    BY <2>e, <2>d DEF Here, Fresh, ComesBack
  <2>q. \A u \in V, i \in Ids : ~Here(u, i) /\ ~Fresh(u, i)
    <3>1. \A u \in V, i \in Ids : ~Here(u, i)
      BY <1>a, <2>v DEF DeadAndKnown
    <3>2. \A u \in V, i \in Ids : ~Fresh(u, i)
      BY <1>a, <1>n, <2>v DEF JustCreated, Fresh
    <3> QED BY <3>1, <3>2
  <2>1. ClearedWhileWaiting'
    BY <2>e, <2>p DEF ClearedWhileWaiting
  <2>2. NothingBefore'
    BY <2>e, <2>p DEF NothingBefore
  <2>3. Complete'
    BY <1>a, <2>e, <2>v, <2>w DEF Complete
  <2>4. DeadAndKnown'
    BY <1>a, <2>e, <2>w, <2>h, <2>q DEF DeadAndKnown
  <2>5. JustCreated'
    BY <1>a, <2>e, <2>v, <2>w, <2>p, <2>d DEF JustCreated, Complete
  <2>6. OneTask'
    BY <1>a, <2>h, <2>q DEF OneTask
  <2>7. EndsBeforeSpawn'
    BY <1>a, <2>e, <2>d DEF EndsBeforeSpawn
  <2>8. AnimShort'
    BY <1>a, <2>d DEF AnimShort
  <2>9. RebornHasTemplate'
    BY <1>a, <2>d DEF RebornHasTemplate
  <2>10. CorpseGone'
    BY <1>a, <2>e, <2>h DEF CorpseGone
  <2>11. NoStacking'
    BY <1>a, <2>e DEF NoStacking
  <2>12. ClientSeesAll'
    <3>1. ASSUME NEW u \in Uids, Corpse(u) PROVE Corpse(u)'
      <4>1. PICK i \in Ids : \/ deaths[u][i].phase = "new"
                             \/ deaths[u][i].phase = "anim" /\ deaths[u][i].home = mapid
        BY <3>1 DEF Corpse
      <4>2. \/ deaths'[u][i].phase = "new"
            \/ deaths'[u][i].phase = "anim" /\ deaths'[u][i].home = mapid'
        <5>1. deaths'[u][i].phase = "new" \/ deaths'[u][i] = deaths[u][i]
          BY <2>d
        <5> QED
          BY <4>1, <5>1, <2>e
      <4> QED
        BY <4>2 DEF Corpse
    <3>2. ASSUME NEW u \in Uids, monsters[u] > 0, ~(monsters'[u] > 0) PROVE Corpse(u)'
      <4>1. u \in V /\ hp[u] = 0 /\ slot[u] \in Ids
        BY <3>2, <2>v, <2>w
      <4>2. deaths'[u][slot[u]].phase = "new"
        BY <4>1, <2>d
      <4> QED
        BY <4>1, <4>2 DEF Corpse
    <3>3. \A u \in Uids : monsters'[u] > 0 => monsters[u] > 0
      BY <2>v, <2>w
    <3> QED
      BY <1>a, <2>e, <3>1, <3>2, <3>3 DEF ClientSeesAll
  <2> QED
    BY <2>1, <2>2, <2>3, <2>4, <2>5, <2>6, <2>7, <2>8, <2>9, <2>10, <2>11, <2>12 DEF IInv
<1>4. CASE Disconnect
  <2>e. /\ alive' = FALSE /\ UNCHANGED <<in_world, mapid, monsters, spawns, pos, spawnT, deaths, shown>>
    BY <1>4 DEF Disconnect
  <2>1. ClearedWhileWaiting'
    BY <1>a, <2>e DEF ClearedWhileWaiting
  <2>2. NothingBefore'
    BY <1>a, <2>e DEF NothingBefore
  <2>3. Complete'
    BY <1>a, <2>e DEF Complete
  <2>4. DeadAndKnown'
    BY <1>a, <2>e DEF DeadAndKnown, Here
  <2>5. JustCreated'
    BY <1>a, <2>e DEF JustCreated
  <2>6. OneTask'
    BY <1>a, <2>e DEF OneTask, Here, Fresh
  <2>7. EndsBeforeSpawn'
    BY <1>a, <2>e DEF EndsBeforeSpawn
  <2>8. AnimShort'
    BY <1>a, <2>e DEF AnimShort
  <2>9. RebornHasTemplate'
    BY <1>a, <2>e DEF RebornHasTemplate
  <2>10. CorpseGone'
    BY <2>e DEF CorpseGone
  <2>11. NoStacking'
    BY <1>a, <2>e DEF NoStacking
  <2>12. ClientSeesAll'
    BY <2>e DEF ClientSeesAll
  <2> QED
    BY <2>1, <2>2, <2>3, <2>4, <2>5, <2>6, <2>7, <2>8, <2>9, <2>10, <2>11, <2>12 DEF IInv
<1>5. CASE SpawnWorld
  <2>e. /\ spawnT = 0 /\ spawnT' = -1 /\ UNCHANGED <<alive, in_world, mapid, deaths>>
    BY <1>5 DEF SpawnWorld, Populate
  <2>c. in_world /\ \A u \in Uids : monsters[u] = 0 /\ shown[u] = 0 /\ pos[u] = "none" /\ spawns[u] = NoTmpl
    BY <1>a, <2>e DEF ClearedWhileWaiting, NothingBefore
  <2>f. \A u \in Uids, i \in Ids : /\ ~Here(u, i) /\ deaths[u][i].phase # "new"
                                   /\ ~(deaths[u][i].phase = "anim" /\ deaths[u][i].tmpl = NoTmpl /\ deaths[u][i].home = mapid)
    BY <1>a, <1>t, <1>n, <2>e DEF DeadAndKnown, JustCreated, EndsBeforeSpawn
  <2>g. \A u \in Uids, i \in Ids : ~Here(u, i)' /\ ~Fresh(u, i)'
    BY <2>e, <2>f DEF Here, Fresh
  <2>p. \A u \in Uids : /\ monsters'[u] > 0 => spawns'[u] # NoTmpl
                        /\ spawns'[u] = NoTmpl <=> pos'[u] = "none"
                        /\ shown'[u] \in {0, 1}
                        /\ alive => (monsters'[u] > 0 <=> shown'[u] = 1)
    BY <1>n, <1>5, <2>c DEF SpawnWorld, Populate, Added
  <2>1. ClearedWhileWaiting'
    BY <2>e, <2>c DEF ClearedWhileWaiting
  <2>2. NothingBefore'
    BY <2>e, <2>c DEF NothingBefore
  <2>3. Complete'
    BY <2>p DEF Complete
  <2>4. DeadAndKnown'
    BY <2>g DEF DeadAndKnown
  <2>5. JustCreated'
    BY <2>e, <2>f DEF JustCreated
  <2>6. OneTask'
    BY <2>g DEF OneTask
  <2>7. EndsBeforeSpawn'
    BY <2>e, <2>f DEF EndsBeforeSpawn
  <2>8. AnimShort'
    BY <1>a, <2>e DEF AnimShort
  <2>9. RebornHasTemplate'
    BY <1>a, <2>e DEF RebornHasTemplate
  <2>10. CorpseGone'
    BY <2>g DEF CorpseGone
  <2>11. NoStacking'
    BY <2>p DEF NoStacking
  <2>12. ClientSeesAll'
    BY <2>e, <2>p DEF ClientSeesAll
  <2> QED
    BY <2>1, <2>2, <2>3, <2>4, <2>5, <2>6, <2>7, <2>8, <2>9, <2>10, <2>11, <2>12 DEF IInv
<1>6. CASE Tick
  <2>e. UNCHANGED <<alive, in_world, mapid, monsters, spawns, pos, shown>>
    BY <1>6 DEF Tick
  <2>s. /\ spawnT # 0 /\ (spawnT > 0 => spawnT' = spawnT - 1) /\ (spawnT = -1 => spawnT' = -1)
    BY <1>6 DEF Tick, NothingDue
  <2>d. \A u \in Uids, i \in Ids :
        /\ deaths[u][i].phase # "new"
        /\ deaths'[u][i].phase = deaths[u][i].phase
        /\ deaths'[u][i].home = deaths[u][i].home /\ deaths'[u][i].tmpl = deaths[u][i].tmpl
        /\ deaths[u][i].phase = "anim" => deaths'[u][i].left = deaths[u][i].left - 1
    BY <1>6 DEF Tick, NothingDue
  <2>h. \A u \in Uids, i \in Ids : Here(u, i)' = Here(u, i) /\ ~Fresh(u, i)'
    BY <2>e, <2>d DEF Here, ComesBack, Fresh
  <2>1. ClearedWhileWaiting'
    BY <1>a, <1>t, <2>e, <2>s DEF ClearedWhileWaiting
  <2>2. NothingBefore'
    BY <1>a, <2>e, <2>s, <2>d DEF NothingBefore
  <2>3. Complete'
    BY <1>a, <2>e DEF Complete
  <2>4. DeadAndKnown'
    BY <1>a, <2>e, <2>s, <2>d, <2>h DEF DeadAndKnown
  <2>5. JustCreated'
    BY <2>d DEF JustCreated
  <2>6. OneTask'
    BY <1>a, <2>h DEF OneTask
  <2>7. EndsBeforeSpawn'
    BY <1>a, <1>t, <2>e, <2>s, <2>d DEF EndsBeforeSpawn
  <2>8. AnimShort'
    BY <1>a, <1>t, <1>n, <2>d DEF AnimShort
  <2>9. RebornHasTemplate'
    BY <1>a, <2>d DEF RebornHasTemplate
  <2>10. CorpseGone'
    BY <1>a, <2>e, <2>d, <2>h DEF CorpseGone
  <2>11. NoStacking'
    BY <1>a, <2>e DEF NoStacking
  <2>12. ClientSeesAll'
    BY <1>a, <1>t, <2>e, <2>s, <2>d DEF ClientSeesAll, Corpse
  <2> QED
    BY <2>1, <2>2, <2>3, <2>4, <2>5, <2>6, <2>7, <2>8, <2>9, <2>10, <2>11, <2>12 DEF IInv
<1>7. ASSUME NEW u \in Uids, NEW i \in Ids, DeathStart(u, i) PROVE IInv'
  <2>e. deaths[u][i].phase = "new" /\ UNCHANGED <<alive, in_world, mapid, monsters, spawns, pos, spawnT, shown>>
    BY <1>7 DEF DeathStart
  <2>d. /\ deaths'[u][i] = [phase |-> "anim", left |-> AnimDelay, home |-> mapid, tmpl |-> spawns[u]]
        /\ \A v \in Uids, j \in Ids : v # u \/ j # i => deaths'[v][j] = deaths[v][j]
    BY <1>7 DEF DeathStart, TypeOK
  <2>f. /\ deaths'[u][i].phase = "anim" /\ deaths'[u][i].left = AnimDelay
        /\ deaths'[u][i].home = mapid /\ deaths'[u][i].tmpl = spawns[u]
    BY <2>d
  <2>w. in_world
    BY <1>a, <2>e DEF NothingBefore
  <2>c. \/ spawnT = SpawnDelay /\ spawns[u] = NoTmpl
        \/ spawnT = -1 /\ monsters[u] = 0 /\ spawns[u] # NoTmpl
    BY <1>a, <1>n, <2>e DEF JustCreated, ClearedWhileWaiting
  <2>h. /\ \A v \in Uids, j \in Ids : v # u \/ j # i => Here(v, j)' = Here(v, j) /\ Fresh(v, j)' = Fresh(v, j)
        /\ Here(u, i)' => spawnT = -1 /\ Fresh(u, i)
        /\ ~Fresh(u, i)'
    BY <2>e, <2>d, <2>c DEF Here, Fresh, ComesBack
  <2>1. ClearedWhileWaiting'
    BY <1>a, <2>e DEF ClearedWhileWaiting
  <2>2. NothingBefore'
    BY <2>e, <2>w DEF NothingBefore
  <2>3. Complete'
    BY <1>a, <2>e DEF Complete
  <2>4. DeadAndKnown'
    BY <1>a, <1>n, <2>e, <2>d, <2>c, <2>h DEF DeadAndKnown
  <2>5. JustCreated'
    BY <1>a, <2>e, <2>d DEF JustCreated
  <2>6. OneTask'
    BY <1>a, <2>h DEF OneTask
  <2>7. EndsBeforeSpawn'
    BY <1>a, <1>n, <2>e, <2>d, <2>c DEF EndsBeforeSpawn
  <2>8. AnimShort'
    BY <1>a, <1>n, <2>d DEF AnimShort
  <2>9. RebornHasTemplate'
    BY <1>a, <2>d DEF RebornHasTemplate
  <2>10. CorpseGone'
    BY <1>a, <2>e, <2>d, <2>h DEF CorpseGone
  <2>11. NoStacking'
    BY <1>a, <2>e DEF NoStacking
  <2>12. ClientSeesAll'
    BY <1>a, <2>e, <2>d DEF ClientSeesAll, Corpse
  <2> QED
    BY <2>1, <2>2, <2>3, <2>4, <2>5, <2>6, <2>7, <2>8, <2>9, <2>10, <2>11, <2>12 DEF IInv
<1>8. ASSUME NEW u \in Uids, NEW i \in Ids, DeathAnim(u, i) PROVE IInv'
  <2>e. /\ deaths[u][i].phase = "anim" /\ deaths[u][i].left = 0
        /\ UNCHANGED <<alive, in_world, mapid, monsters, spawns, pos, spawnT>>
    BY <1>8 DEF DeathAnim
  <2>d. \A v \in Uids, j \in Ids : v # u \/ j # i => deaths'[v][j] = deaths[v][j]
    BY <1>8 DEF DeathAnim, TypeOK
  <2>f. \/ /\ deaths'[u][i].phase = "reborn" /\ alive /\ mapid = deaths[u][i].home /\ deaths[u][i].tmpl # NoTmpl
           /\ deaths'[u][i].home = deaths[u][i].home /\ deaths'[u][i].tmpl = deaths[u][i].tmpl
        \/ deaths'[u][i].phase = "free" /\ ~(alive /\ mapid = deaths[u][i].home /\ deaths[u][i].tmpl # NoTmpl)
    <3>1. CASE alive /\ mapid = deaths[u][i].home /\ deaths[u][i].tmpl # NoTmpl
      <4>1. PICK n \in RebornTimes :
                deaths' = [deaths EXCEPT ![u][i].phase = "reborn", ![u][i].left = n]
        BY <1>8, <3>1 DEF DeathAnim
      <4> QED
        BY <3>1, <4>1 DEF TypeOK
    <3>2. CASE ~(alive /\ mapid = deaths[u][i].home /\ deaths[u][i].tmpl # NoTmpl)
      BY <1>8, <3>2 DEF DeathAnim, TypeOK, Free
    <3> QED BY <3>1, <3>2
  <2>s. /\ alive /\ mapid = deaths[u][i].home => shown'[u] = 0
        /\ ~(alive /\ mapid = deaths[u][i].home) => shown'[u] = shown[u]
        /\ \A v \in Uids : v # u => shown'[v] = shown[v]
    BY <1>8 DEF DeathAnim, TypeOK
  <2>w. in_world
    BY <1>a, <2>e DEF NothingBefore
  <2>h. /\ \A v \in Uids, j \in Ids : v # u \/ j # i => Here(v, j)' = Here(v, j) /\ Fresh(v, j)' = Fresh(v, j)
        /\ Here(u, i)' => Here(u, i) /\ deaths'[u][i].tmpl = deaths[u][i].tmpl /\ alive
        /\ ~Fresh(u, i)'
    BY <2>e, <2>d, <2>f DEF Here, Fresh, ComesBack
  <2>g. mapid = deaths[u][i].home /\ spawnT = -1 => Here(u, i)
    BY <1>a, <2>e DEF EndsBeforeSpawn, Here, ComesBack
  <2>1. ClearedWhileWaiting'
    BY <1>a, <2>e, <2>s DEF ClearedWhileWaiting
  <2>2. NothingBefore'
    BY <2>e, <2>w DEF NothingBefore
  <2>3. Complete'
    BY <1>a, <2>e DEF Complete
  <2>4. DeadAndKnown'
    BY <1>a, <2>e, <2>d, <2>h DEF DeadAndKnown
  <2>5. JustCreated'
    BY <1>a, <2>e, <2>d, <2>f DEF JustCreated
  <2>6. OneTask'
    BY <1>a, <2>h DEF OneTask
  <2>7. EndsBeforeSpawn'
    BY <1>a, <2>e, <2>d, <2>f DEF EndsBeforeSpawn
  <2>8. AnimShort'
    BY <1>a, <2>d, <2>f DEF AnimShort
  <2>9. RebornHasTemplate'
    BY <1>a, <2>d, <2>f DEF RebornHasTemplate
  <2>10. CorpseGone'
    BY <1>a, <2>e, <2>d, <2>s, <2>h DEF CorpseGone, Here
  <2>11. NoStacking'
    BY <1>a, <2>s DEF NoStacking
  <2>12. ClientSeesAll'
    BY <1>a, <2>e, <2>d, <2>s, <2>g DEF ClientSeesAll, Corpse, DeadAndKnown
  <2> QED
    BY <2>1, <2>2, <2>3, <2>4, <2>5, <2>6, <2>7, <2>8, <2>9, <2>10, <2>11, <2>12 DEF IInv
<1>9. ASSUME NEW u \in Uids, NEW i \in Ids, DeathReborn(u, i) PROVE IInv'
  <2>e. /\ deaths[u][i].phase = "reborn" /\ deaths[u][i].left = 0
        /\ UNCHANGED <<alive, in_world, mapid, spawns, pos, spawnT>>
    BY <1>9 DEF DeathReborn
  <2>d. /\ deaths'[u][i].phase = "free"
        /\ \A v \in Uids, j \in Ids : v # u \/ j # i => deaths'[v][j] = deaths[v][j]
    BY <1>9 DEF DeathReborn, TypeOK, Free
  <2>w. in_world
    BY <1>a, <2>e DEF NothingBefore
  <2>r. deaths[u][i].tmpl # NoTmpl
    BY <1>a, <2>e DEF RebornHasTemplate
  <2>s. /\ \A v \in Uids : v # u => monsters'[v] = monsters[v] /\ shown'[v] = shown[v]
        /\ alive /\ mapid = deaths[u][i].home => monsters'[u] = MaxHp /\ shown'[u] = Added(shown[u])
        /\ ~(alive /\ mapid = deaths[u][i].home) => monsters'[u] = monsters[u] /\ shown'[u] = shown[u]
    BY <1>9 DEF DeathReborn, TypeOK
  <2>g. mapid = deaths[u][i].home => Here(u, i) /\ spawnT = -1 /\ spawns[u] # NoTmpl /\ (alive => shown[u] = 0)
    BY <1>a, <2>e, <2>r DEF Here, ComesBack, DeadAndKnown, CorpseGone
  <2>x. alive /\ mapid = deaths[u][i].home => shown'[u] = 1 /\ monsters'[u] > 0
    BY <1>n, <2>s, <2>g DEF Added
  <2>h. /\ \A v \in Uids, j \in Ids : v # u \/ j # i => Here(v, j)' = Here(v, j) /\ Fresh(v, j)' = Fresh(v, j)
        /\ ~Here(u, i)' /\ ~Fresh(u, i)'
    BY <2>e, <2>d DEF Here, Fresh, ComesBack
  <2>o. mapid = deaths[u][i].home => \A j \in Ids : ~Here(u, j)' /\ ~Fresh(u, j)'
    BY <1>a, <2>g, <2>h DEF OneTask
  <2>n. mapid = deaths[u][i].home => \A j \in Ids : deaths'[u][j].phase # "new"
    BY <2>o, <2>e, <2>g DEF Fresh
  <2>1. ClearedWhileWaiting'
    BY <1>a, <2>e, <2>s, <2>g DEF ClearedWhileWaiting
  <2>2. NothingBefore'
    BY <2>e, <2>w DEF NothingBefore
  <2>3. Complete'
    BY <1>a, <2>e, <2>s, <2>g DEF Complete
  <2>4. DeadAndKnown'
    BY <1>a, <2>e, <2>d, <2>s, <2>h, <2>o DEF DeadAndKnown
  <2>5. JustCreated'
    BY <1>a, <2>e, <2>d, <2>s, <2>n DEF JustCreated
  <2>6. OneTask'
    BY <1>a, <2>h DEF OneTask
  <2>7. EndsBeforeSpawn'
    BY <1>a, <2>e, <2>d DEF EndsBeforeSpawn
  <2>8. AnimShort'
    BY <1>a, <2>d DEF AnimShort
  <2>9. RebornHasTemplate'
    BY <1>a, <2>d DEF RebornHasTemplate
  <2>10. CorpseGone'
    BY <1>a, <2>e, <2>d, <2>s, <2>h, <2>o DEF CorpseGone
  <2>11. NoStacking'
    BY <1>a, <2>s, <2>x DEF NoStacking
  <2>12. ClientSeesAll'
    BY <1>a, <2>e, <2>d, <2>s, <2>x DEF ClientSeesAll, Corpse
  <2> QED
    BY <2>1, <2>2, <2>3, <2>4, <2>5, <2>6, <2>7, <2>8, <2>9, <2>10, <2>11, <2>12 DEF IInv
<1>10. ASSUME NEW u \in Uids, Chase(u) PROVE IInv'
  <2>e. /\ in_world /\ monsters[u] > 0 /\ UNCHANGED <<alive, in_world, mapid, monsters, spawns, spawnT, deaths, shown>>
    BY <1>10 DEF Chase
  <2>p. \A v \in Uids : pos'[v] = "none" <=> pos[v] = "none"
    BY <1>10 DEF Chase
  <2>1. ClearedWhileWaiting'
    BY <1>a, <2>e DEF ClearedWhileWaiting
  <2>2. NothingBefore'
    BY <2>e DEF NothingBefore
  <2>3. Complete'
    BY <1>a, <2>e, <2>p DEF Complete
  <2>4. DeadAndKnown'
    BY <1>a, <2>e DEF DeadAndKnown, Here
  <2>5. JustCreated'
    BY <1>a, <2>e DEF JustCreated
  <2>6. OneTask'
    BY <1>a, <2>e DEF OneTask, Here, Fresh
  <2>7. EndsBeforeSpawn'
    BY <1>a, <2>e DEF EndsBeforeSpawn
  <2>8. AnimShort'
    BY <1>a, <2>e DEF AnimShort
  <2>9. RebornHasTemplate'
    BY <1>a, <2>e DEF RebornHasTemplate
  <2>10. CorpseGone'
    BY <1>a, <2>e DEF CorpseGone, Here
  <2>11. NoStacking'
    BY <1>a, <2>e DEF NoStacking
  <2>12. ClientSeesAll'
    BY <1>a, <2>e DEF ClientSeesAll, Corpse
  <2> QED
    BY <2>1, <2>2, <2>3, <2>4, <2>5, <2>6, <2>7, <2>8, <2>9, <2>10, <2>11, <2>12 DEF IInv
<1>11. CASE UNCHANGED vars
  <2>e. UNCHANGED <<alive, in_world, mapid, monsters, spawns, pos, spawnT, deaths, shown>>
    BY <1>11 DEF vars
  <2>1. ClearedWhileWaiting'
    BY <1>a, <2>e DEF ClearedWhileWaiting
  <2>2. NothingBefore'
    BY <1>a, <2>e DEF NothingBefore
  <2>3. Complete'
    BY <1>a, <2>e DEF Complete
  <2>4. DeadAndKnown'
    BY <1>a, <2>e DEF DeadAndKnown, Here
  <2>5. JustCreated'
    BY <1>a, <2>e DEF JustCreated
  <2>6. OneTask'
    BY <1>a, <2>e DEF OneTask, Here, Fresh
  <2>7. EndsBeforeSpawn'
    BY <1>a, <2>e DEF EndsBeforeSpawn
  <2>8. AnimShort'
    BY <1>a, <2>e DEF AnimShort
  <2>9. RebornHasTemplate'
    BY <1>a, <2>e DEF RebornHasTemplate
  <2>10. CorpseGone'
    BY <1>a, <2>e DEF CorpseGone, Here
  <2>11. NoStacking'
    BY <1>a, <2>e DEF NoStacking
  <2>12. ClientSeesAll'
    BY <1>a, <2>e DEF ClientSeesAll, Corpse
  <2> QED
    BY <2>1, <2>2, <2>3, <2>4, <2>5, <2>6, <2>7, <2>8, <2>9, <2>10, <2>11, <2>12 DEF IInv
<1> QED
  BY <1>1, <1>2, <1>3, <1>4, <1>5, <1>6, <1>7, <1>8, <1>9, <1>10, <1>11 DEF Next, Requests, Background

LEMMA IInvAlways == ASSUME Patient PROVE Spec => []IInv
<1>1. TypeOK /\ IInv /\ [Next]_vars => IInv'
  BY IInvNext
<1> QED
  BY <1>1, IInvInit, TypeCorrect, PTL DEF Spec

\* With a patient player the client is never told to add a monster it shows.
THEOREM NeverStacked == ASSUME Patient PROVE Spec => []NoStacking
<1>1. IInv => NoStacking
  BY DEF IInv
<1> QED
  BY <1>1, IInvAlways, PTL

\* A respawn never heals a live monster, brings back the monster that died, and
\* brings it back once.
THEOREM RespawnsAreRight == ASSUME Patient PROVE Spec => []RespawnsRight
<1>1. IInv => RespawnsOnlyTheDead /\ RespawnsItself
  BY DEF IInv, DeadAndKnown, Here, RespawnsOnlyTheDead, RespawnsItself
<1>2. IInv => OneRespawn
  BY DEF IInv, OneTask, Here, OneRespawn
<1> QED
  BY <1>1, <1>2, IInvAlways, PTL DEF RespawnsRight

\* Every live monster can be fought and rewarded, and the client shows the live
\* monsters and, but for corpses about to go, nothing else.
THEOREM ClientAndServerAgree ==
    ASSUME Patient PROVE Spec => [](MonstersComplete /\ ClientSeesAll)
<1>1. IInv => MonstersComplete /\ ClientSeesAll
  BY DEF IInv, Complete, MonstersComplete
<1> QED
  BY <1>1, IInvAlways, PTL
=============================================================================
