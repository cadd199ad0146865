----------------------------- MODULE Population -----------------------------
(***************************************************************************)
(* The monsters of one session: gateway.py's spawn_world, kill_and_respawn *)
(* and the handlers that touch s.monsters, s.monster_spawns and            *)
(* s.monster_pos.  spawn_world and every kill_and_respawn are tasks of     *)
(* their own that sleep and then act on the session as they find it, while *)
(* the player attacks, teleports, enters the world again or disconnects.   *)
(*                                                                         *)
(* Time is discrete.  A sleep is a counter of ticks; time does not advance *)
(* while something is due, but requests may be served before what is due   *)
(* runs.  A task that was just created has not run yet ("new"): requests   *)
(* already received may be handled before its first line is.               *)
(*                                                                         *)
(* Abstracted: a monster's place is its born point or elsewhere; which     *)
(* monsters are near enough to be hit is left open; a template stands for  *)
(* the ADD_MONSTER event the monster was announced with, which names its   *)
(* kind, born point and full HP.                                           *)
(***************************************************************************)
EXTENDS Integers

CONSTANTS
    Maps,           \* map ids
    Uids,           \* monster uids; every map numbers its monsters from 900001 on
    Templates,      \* ADD_MONSTER events
    NoTmpl,         \* no entry in monster_spawns
    PopsOf,         \* what build_map_aoi may return for each map
    MaxHp,          \* full HP of a monster
    SpawnDelay,     \* spawn_world's sleep, in ticks
    AnimDelay,      \* kill_and_respawn's first sleep, in ticks
    RebornTimes,    \* kill_and_respawn's second sleep, in ticks
    Ids,            \* bound: kill_and_respawn tasks of one uid at a time
    Return,         \* TRUE: the player may be back on a map before the monsters
                    \* killed there have respawned
    Reenter         \* TRUE: GW_LOGIN_GATEWAY may come again on a connection in the world

Pops == [Uids -> Templates \cup {NoTmpl}]

ASSUME PopulationAssumption ==
    /\ NoTmpl \notin Templates
    /\ PopsOf \in [Maps -> SUBSET Pops]
    /\ MaxHp \in Nat \ {0}
    /\ SpawnDelay \in Nat /\ AnimDelay \in Nat
    /\ 0 < AnimDelay /\ AnimDelay < SpawnDelay
    /\ RebornTimes \subseteq Nat \ {0} /\ RebornTimes # {}
    /\ Return \in BOOLEAN /\ Reenter \in BOOLEAN

VARIABLES
    alive,      \* s.alive
    in_world,   \* s.in_world
    mapid,      \* s.mapid
    monsters,   \* s.monsters: HP by uid, 0 for a uid it does not hold
    spawns,     \* s.monster_spawns: template by uid, NoTmpl for none
    pos,        \* s.monster_pos: "born", "away", or "none" for a uid it does not hold
    spawnT,     \* ticks left in spawn_world's sleep, -1 when it is not sleeping
    deaths,     \* the kill_and_respawn tasks of each uid
    shown       \* how many copies of the monster the client's scene shows

vars == <<alive, in_world, mapid, monsters, spawns, pos, spawnT, deaths, shown>>

Task == [phase : {"free", "new", "anim", "reborn"}, left : Nat,
         home : Maps, tmpl : Templates \cup {NoTmpl}]

Nobody == [u \in Uids |-> 0]

Free(m) == [phase |-> "free", left |-> 0, home |-> m, tmpl |-> NoTmpl]

Init ==
    /\ alive = TRUE /\ in_world = FALSE
    /\ mapid \in Maps
    /\ monsters = Nobody
    /\ spawns = [u \in Uids |-> NoTmpl]
    /\ pos = [u \in Uids |-> "none"]
    /\ spawnT = -1
    /\ deaths = [u \in Uids |-> [i \in Ids |-> Free(mapid)]]
    /\ shown = Nobody
-----------------------------------------------------------------------------
\* A death whose monster will come back, if the player is on its map by then.
ComesBack(t) == t.phase \in {"anim", "reborn"} /\ t.tmpl # NoTmpl

\* The player goes to map m before the monsters killed there are back.
TooSoon(m) == \E u \in Uids, i \in Ids : ComesBack(deaths[u][i]) /\ deaths[u][i].home = m

\* on_login_gateway, as far as the monsters go: the client loads the scene of
\* the character's map and spawn_world starts over.  What the session knew of
\* an earlier map stays.
LoginGateway(m) ==
    /\ alive
    /\ in_world => Reenter
    /\ in_world' = TRUE
    /\ mapid' = m
    /\ spawnT' = SpawnDelay
    /\ shown' = Nobody
    /\ UNCHANGED <<alive, monsters, spawns, pos, deaths>>

\* Bugs a change of this code could bring in stand before the definition they
\* would replace; they only show that a property below notices them.
\* on_teleport, through a portal that exists; _start_spawn cancels the
\* spawn_world that is still asleep.  Portals within a map are possible.
Teleport(m) ==
    /\ alive /\ in_world
    /\ TooSoon(m) => Return
    /\ mapid' = m
    /\ monsters' = Nobody
    /\ spawns' = [u \in Uids |-> NoTmpl]
    /\ pos' = [u \in Uids |-> "none"]
    /\ spawnT' = SpawnDelay
    /\ shown' = Nobody
    /\ UNCHANGED <<alive, in_world, deaths>>

\* What ADD_MONSTER does in the client's scene.  Two copies are as bad as more.
Added(n) == IF n = 0 THEN 1 ELSE 2

\* build_map_aoi's monsters, to s.monsters and its sisters, and to the client.
Populate ==
    \E p \in PopsOf[mapid] :
        /\ spawns' = p
        /\ monsters' = [u \in Uids |-> IF p[u] = NoTmpl THEN 0 ELSE MaxHp]
        /\ pos' = [u \in Uids |-> IF p[u] = NoTmpl THEN "none" ELSE "born"]
        /\ shown' = [u \in Uids |-> IF p[u] = NoTmpl THEN shown[u] ELSE Added(shown[u])]

SpawnWorldWaits ==              \* waits for a closed session to come back
    /\ spawnT = 0 /\ alive
    /\ spawnT' = -1
    /\ Populate
    /\ UNCHANGED <<alive, in_world, mapid, deaths>>

\* spawn_world wakes up.
SpawnWorld ==
    /\ spawnT = 0
    /\ spawnT' = -1
    /\ IF alive THEN Populate ELSE UNCHANGED <<spawns, monsters, pos, shown>>
    /\ UNCHANGED <<alive, in_world, mapid, deaths>>

\* combat_loop moves a monster it holds the position of towards the player.
Chase(u) ==
    /\ alive /\ in_world
    /\ monsters[u] > 0 /\ pos[u] = "born"
    /\ pos' = [pos EXCEPT ![u] = "away"]
    /\ UNCHANGED <<alive, in_world, mapid, monsters, spawns, spawnT, deaths, shown>>

\* _pick_victims considers only monsters it holds both HP and position of.
Victims == {u \in Uids : monsters[u] > 0 /\ pos[u] # "none"}

LeftWithDead(hp) ==             \* a dead monster stays in s.monsters
    [u \in Uids |-> IF u \in DOMAIN hp /\ hp[u] > 0 THEN hp[u] ELSE monsters[u]]

\* s.monsters after a blow; 0 HP is no entry.
Left(hp) == [u \in Uids |-> IF u \in DOMAIN hp THEN hp[u] ELSE monsters[u]]

\* on_attack: hp are the victims' HP after the blow.  Each one that dies is
\* taken out of s.monsters and gets a kill_and_respawn task.
Attack(hp, slot) ==
    /\ alive
    /\ DOMAIN hp # {} /\ DOMAIN hp \subseteq Victims
    /\ \A u \in DOMAIN hp :
           /\ hp[u] < monsters[u]
           /\ hp[u] = 0 => deaths[u][slot[u]].phase = "free"
    /\ monsters' = Left(hp)
    /\ deaths' = [u \in Uids |->
                     IF u \in DOMAIN hp /\ hp[u] = 0
                     THEN [deaths[u] EXCEPT ![slot[u]].phase = "new"]
                     ELSE deaths[u]]
    /\ UNCHANGED <<alive, in_world, mapid, spawns, pos, spawnT, shown>>

\* The handle_conn of the session ends.  spawn_task is not cancelled.
Disconnect ==
    /\ alive
    /\ alive' = FALSE
    /\ UNCHANGED <<in_world, mapid, monsters, spawns, pos, spawnT, deaths, shown>>
-----------------------------------------------------------------------------
\* kill_and_respawn runs for the first time: only now it looks up the template
\* and the map.
DeathStart(u, i) ==
    /\ deaths[u][i].phase = "new"
    /\ deaths' = [deaths EXCEPT ![u][i] = [phase |-> "anim", left |-> AnimDelay,
                                           home |-> mapid, tmpl |-> spawns[u]]]
    /\ UNCHANGED <<alive, in_world, mapid, monsters, spawns, pos, spawnT, shown>>

DeathAnimKeepsCorpse(u, i) ==   \* no AOI_DEL
    /\ deaths[u][i].phase = "anim" /\ deaths[u][i].left = 0
    /\ IF alive /\ mapid = deaths[u][i].home /\ deaths[u][i].tmpl # NoTmpl
       THEN \E n \in RebornTimes :
               deaths' = [deaths EXCEPT ![u][i].phase = "reborn", ![u][i].left = n]
       ELSE deaths' = [deaths EXCEPT ![u][i] = Free(mapid)]
    /\ UNCHANGED <<alive, in_world, mapid, monsters, spawns, pos, spawnT, shown>>
DeathAnimOnly(u, i) ==          \* returns after the AOI_DEL
    /\ deaths[u][i].phase = "anim" /\ deaths[u][i].left = 0
    /\ IF alive /\ mapid = deaths[u][i].home
       THEN shown' = [shown EXCEPT ![u] = 0]
       ELSE UNCHANGED shown
    /\ deaths' = [deaths EXCEPT ![u][i] = Free(mapid)]
    /\ UNCHANGED <<alive, in_world, mapid, monsters, spawns, pos, spawnT>>

\* Its first sleep is over: the corpse goes (AOI_DEL), and the second one starts
\* if there is a template to respawn from.
DeathAnim(u, i) ==
    /\ deaths[u][i].phase = "anim" /\ deaths[u][i].left = 0
    /\ IF alive /\ mapid = deaths[u][i].home
       THEN shown' = [shown EXCEPT ![u] = 0]
       ELSE UNCHANGED shown
    /\ IF alive /\ mapid = deaths[u][i].home /\ deaths[u][i].tmpl # NoTmpl
       THEN \E n \in RebornTimes :
               deaths' = [deaths EXCEPT ![u][i].phase = "reborn", ![u][i].left = n]
       ELSE deaths' = [deaths EXCEPT ![u][i] = Free(mapid)]
    /\ UNCHANGED <<alive, in_world, mapid, monsters, spawns, pos, spawnT>>

DeathRebornSilent(u, i) ==      \* the client is not told
    /\ deaths[u][i].phase = "reborn" /\ deaths[u][i].left = 0
    /\ monsters' = IF alive /\ mapid = deaths[u][i].home
                   THEN [monsters EXCEPT ![u] = MaxHp] ELSE monsters
    /\ deaths' = [deaths EXCEPT ![u][i] = Free(mapid)]
    /\ UNCHANGED <<alive, in_world, mapid, spawns, pos, spawnT, shown>>

\* Its second sleep is over: the monster is back in s.monsters with full HP.
DeathReborn(u, i) ==
    /\ deaths[u][i].phase = "reborn" /\ deaths[u][i].left = 0
    /\ IF alive /\ mapid = deaths[u][i].home
       THEN /\ monsters' = [monsters EXCEPT ![u] = MaxHp]
            /\ shown' = [shown EXCEPT ![u] = Added(@)]
       ELSE UNCHANGED <<monsters, shown>>
    /\ deaths' = [deaths EXCEPT ![u][i] = Free(mapid)]
    /\ UNCHANGED <<alive, in_world, mapid, spawns, pos, spawnT>>

\* Nothing is waiting to run.
NothingDue ==
    /\ spawnT # 0
    /\ \A u \in Uids, i \in Ids :
           /\ deaths[u][i].phase # "new"
           /\ deaths[u][i].phase \in {"anim", "reborn"} => deaths[u][i].left > 0

Asleep == spawnT > 0 \/ \E u \in Uids, i \in Ids : deaths[u][i].phase # "free"

\* One tick of every sleep.
Tick ==
    /\ NothingDue /\ Asleep
    /\ spawnT' = IF spawnT > 0 THEN spawnT - 1 ELSE spawnT
    /\ deaths' = [u \in Uids |-> [i \in Ids |->
                     IF deaths[u][i].left > 0 THEN [deaths[u][i] EXCEPT !.left = @ - 1]
                     ELSE deaths[u][i]]]
    /\ UNCHANGED <<alive, in_world, mapid, monsters, spawns, pos, shown>>

Requests ==
    \/ \E m \in Maps : LoginGateway(m) \/ Teleport(m)
    \/ \E V \in SUBSET Uids : \E hp \in [V -> 0..(MaxHp - 1)], slot \in [V -> Ids] :
           Attack(hp, slot)
    \/ Disconnect

Background ==
    \/ SpawnWorld \/ Tick
    \/ \E u \in Uids, i \in Ids : DeathStart(u, i) \/ DeathAnim(u, i) \/ DeathReborn(u, i)

Next == Requests \/ Background \/ \E u \in Uids : Chase(u)

Spec == Init /\ [][Next]_vars

\* The event loop runs what is due, and sleeps end; nothing else is promised.
FairSpec ==
    /\ Spec
    /\ WF_vars(SpawnWorld) /\ WF_vars(Tick)
    /\ \A u \in Uids, i \in Ids :
           WF_vars(DeathStart(u, i) \/ DeathAnim(u, i) \/ DeathReborn(u, i))
-----------------------------------------------------------------------------
\* Type invariant.
TypeOK ==
    /\ alive \in BOOLEAN /\ in_world \in BOOLEAN
    /\ mapid \in Maps
    /\ monsters \in [Uids -> 0..MaxHp]
    /\ spawns \in Pops
    /\ pos \in [Uids -> {"none", "born", "away"}]
    /\ spawnT \in {-1} \cup 0..SpawnDelay
    /\ deaths \in [Uids -> [Ids -> Task]]
    /\ shown \in [Uids -> 0..2]

\* "So monsters can't stack": the client is never told to add a monster it
\* still shows (_start_spawn, spawn_world, kill_and_respawn).
NoStacking == \A u \in Uids : shown[u] <= 1

\* A respawn never falls on a monster that is alive: it would heal a monster
\* in the middle of a fight (kill_and_respawn).
RespawnsOnlyTheDead == \A u \in Uids, i \in Ids :
    ComesBack(deaths[u][i]) /\ deaths[u][i].home = mapid => monsters[u] = 0

\* A monster comes back as the one the session has on record for its uid, so that
\* its kill is worth what the client shows (monster_spawns, on_attack).
RespawnsItself == \A u \in Uids, i \in Ids :
    ComesBack(deaths[u][i]) /\ deaths[u][i].home = mapid => deaths[u][i].tmpl = spawns[u]

\* No monster dies twice: of one uid one task at most will respawn here.
OneRespawn == \A u \in Uids : \A i, j \in Ids :
    /\ ComesBack(deaths[u][i]) /\ deaths[u][i].home = mapid
    /\ ComesBack(deaths[u][j]) /\ deaths[u][j].home = mapid
    => i = j

\* Every killed monster comes back once, as itself, and never over a living one.
RespawnsRight == RespawnsOnlyTheDead /\ RespawnsItself /\ OneRespawn

\* Every monster that can hurt or be shown can be fought: it has a position, for
\* _pick_victims, and a template, for the rewards of its death.
MonstersComplete == \A u \in Uids :
    monsters[u] > 0 => pos[u] # "none" /\ spawns[u] # NoTmpl

\* A corpse the client still shows: its AOI_DEL is to come.
Corpse(u) == \E i \in Ids : \/ deaths[u][i].phase = "new"
                            \/ deaths[u][i].phase = "anim" /\ deaths[u][i].home = mapid

\* Once the map is populated the client shows the session's live monsters, and
\* nothing else but corpses about to go.
ClientSeesAll == in_world /\ alive /\ spawnT = -1 => \A u \in Uids :
    /\ monsters[u] > 0 => shown[u] = 1
    /\ shown[u] > 0 => monsters[u] > 0 \/ Corpse(u)

\* "Re-spawn at its born point": a monster that comes back to life stands where
\* its template says.
RespawnsAtBornPoint ==
    [][\A u \in Uids : monsters[u] = 0 /\ monsters'[u] > 0 => pos'[u] = "born"]_vars

\* A killed monster is back, unless the player leaves its map.
RespawnHappens == \A u \in Uids, i \in Ids, m \in Maps :
    ComesBack(deaths[u][i]) /\ deaths[u][i].home = m /\ mapid = m
        ~> monsters[u] > 0 \/ mapid # m \/ ~alive

\* Nothing a session started outlives it for ever.
TasksEnd == ~alive ~> ~Asleep /\ spawnT = -1
=============================================================================
