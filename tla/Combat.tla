------------------------------- MODULE Combat -------------------------------
(***************************************************************************)
(* The fight between the monsters around a player and the player's HP:     *)
(* gateway.py's combat_loop, on_player_revive and what the other handlers  *)
(* do to hp and player_dead.  combat_loop is a task that wakes up every    *)
(* COMBAT_TICK and acts on the session as the requests served meanwhile    *)
(* have left it.                                                           *)
(*                                                                         *)
(* Abstracted: where a monster is, is the zone it is in as seen from the   *)
(* player; Field has the geometry and refines this module.  Monsters appear*)
(* and die at any time (Population says when); a blow takes 1..MaxBlow HP. *)
(***************************************************************************)
EXTENDS CombatRules

VARIABLES
    alive,          \* s.alive
    in_world,       \* s.in_world
    hp,             \* s.hp
    player_dead,    \* s.player_dead
    zone,           \* the monsters the session knows HP and position of, and
                    \* where each is: "far", "chase" (within AGGRO_RADIUS) or
                    \* "strike" (within MONSTER_ATTACK_RANGE)
    bar,            \* the HP the client was last told
    told            \* the client was told of a death and of no revival since

vars == <<alive, in_world, hp, player_dead, zone, bar, told>>

Zones == {"far", "chase", "strike"}
Known == DOMAIN zone

Init ==
    /\ alive = TRUE /\ in_world = FALSE
    /\ hp = MaxHp /\ player_dead = FALSE
    /\ zone = [u \in {} |-> "far"]
    /\ bar = MaxHp /\ told = FALSE

\* on_login_gateway: full health, whatever the state before; the reply's
\* attributes carry it.  Monsters the session still holds are elsewhere, seen
\* from the place the character is loaded at.
LoginGateway ==
    /\ alive
    /\ in_world' = TRUE
    /\ hp' = MaxHp /\ player_dead' = FALSE
    /\ bar' = MaxHp /\ told' = FALSE
    /\ zone' \in [Known -> Zones]
    /\ UNCHANGED alive

\* on_player_revive, which a living player may send too.
Revive ==
    /\ alive
    /\ hp' = MaxHp /\ player_dead' = FALSE
    /\ bar' = hp' /\ told' = FALSE
    /\ UNCHANGED <<alive, in_world, zone>>

\* on_move: the player is elsewhere, and so is every monster from there.
Move ==
    /\ alive /\ in_world
    /\ zone' \in [Known -> Zones]
    /\ UNCHANGED <<alive, in_world, hp, player_dead, bar, told>>

\* spawn_world or kill_and_respawn brings monsters.
Appear(U) ==
    /\ alive /\ in_world
    /\ zone' \in [Known \cup U -> Zones]
    /\ \A u \in Known \ U : zone'[u] = zone[u]
    /\ UNCHANGED <<alive, in_world, hp, player_dead, bar, told>>

\* on_attack kills some, on_teleport forgets all; neither asks if the player
\* is dead.
Vanish(U) ==
    /\ alive /\ U # {} /\ U \subseteq Known
    /\ zone' = [u \in Known \ U |-> zone[u]]
    /\ UNCHANGED <<alive, in_world, hp, player_dead, bar, told>>

Striking(acted) == {u \in acted : zone[u] = "strike"}
Chasing(acted)  == {u \in acted : zone[u] = "chase"}

\* The first MAX_ATTACKERS of those near enough strike.
Attackers(acted) ==
    IF Cardinality(Striking(acted)) < MAX_ATTACKERS THEN Cardinality(Striking(acted))
    ELSE MAX_ATTACKERS

\* The blows of n attackers, in HP.
Blows(n) == n..(n * MaxBlow)

Hurt(d) == hp' = IF d < hp THEN hp - d ELSE 0

\* player_dead and CL_REVIVE_INFO.
Death ==
    /\ player_dead' = (hp' = 0)
    /\ told' = (told \/ hp' = 0)

\* One round of combat_loop.  The monsters act in the order of s.monsters, up to
\* the one whose blow kills; those that act chase or strike, and their events
\* go out with the HP that is left.
CombatTick(acted) ==
    /\ alive /\ in_world /\ ~player_dead
    /\ Known # {} /\ acted \subseteq Known
    /\ \E d \in Blows(Attackers(acted)) : Hurt(d)
    /\ hp' > 0 => acted = Known
    /\ zone' \in {z \in [Known -> Zones] :
                     \A u \in Known : IF u \in Chasing(acted) THEN z[u] \in {"chase", "strike"}
                                      ELSE z[u] = zone[u]}
    /\ bar' = IF Striking(acted) \cup Chasing(acted) # {} THEN hp' ELSE bar
    /\ Death
    /\ UNCHANGED <<alive, in_world>>

\* The connection ends; combat_task is cancelled.
Disconnect ==
    /\ alive /\ alive' = FALSE
    /\ UNCHANGED <<in_world, hp, player_dead, zone, bar, told>>

Tick == \E acted \in SUBSET Known : CombatTick(acted)

Next ==
    \/ LoginGateway \/ Revive \/ Move \/ Disconnect
    \/ \E U \in SUBSET Uids : Appear(U) \/ Vanish(U)
    \/ Tick

Spec == Init /\ [][Next]_vars
-----------------------------------------------------------------------------
\* Type invariant.
TypeOK ==
    /\ alive \in BOOLEAN /\ in_world \in BOOLEAN
    /\ hp \in 0..MaxHp /\ bar \in 0..MaxHp
    /\ player_dead \in BOOLEAN /\ told \in BOOLEAN
    /\ Known \subseteq Uids /\ zone \in [Known -> Zones]

\* The player is dead exactly when no HP is left: no death without the last HP,
\* no life at 0 HP that monsters would go on striking (combat_loop,
\* on_player_revive, on_login_gateway).
DeadAtZero == player_dead <=> hp = 0

\* The HP bar the client shows is the session's HP: whoever changes it says so.
BarTrue == bar = hp

\* A player is offered a revival exactly when dead; one who was not could not
\* go on (CL_REVIVE_INFO in combat_loop).
ToldWhenDead == told <=> player_dead

\* What the client shows of its own life is what the session holds of it: the HP
\* bar and the offer of a revival, through combat, revivals and entries; and the
\* session's own two records of it agree.
ClientKnows == DeadAtZero /\ BarTrue /\ ToldWhenDead
=============================================================================
