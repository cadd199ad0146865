-------------------------------- MODULE Loot --------------------------------
(***************************************************************************)
(* What monsters leave behind: gateway.py's s.dropbags, filled by          *)
(* on_attack, emptied by _auto_pickup when the player moves and by         *)
(* on_pickup, and left alone by on_teleport and on_login_gateway.          *)
(*                                                                         *)
(* Abstracted: a position is a member of Spots, the same on every map since*)
(* the code keeps no map with a drop; two spots are within PICKUP_RADIUS   *)
(* when Near says so; where a monster dies is left open; what give_item    *)
(* does with an item is in Sessions.                                       *)
(***************************************************************************)
EXTENDS Integers, FiniteSets

CONSTANTS
    Maps, Spots,
    Near(_, _),     \* two spots are within PICKUP_RADIUS
    MaxDrops        \* bound on the drops of a session

ASSUME LootAssumption == MaxDrops \in Nat

VARIABLES
    in_world,       \* s.in_world
    mapid, at,      \* s.mapid, and s.x, s.y
    dropbag_uid,    \* s.dropbag_uid, less 8000000
    dropbags,       \* s.dropbags
    given,          \* how often the item of each drop was given to the player
    ground          \* the dropbags the client's scene shows

vars == <<in_world, mapid, at, dropbag_uid, dropbags, given, ground>>

Duids == 1..MaxDrops
Drop  == [uid : Duids, at : Spots]

Init ==
    /\ in_world = FALSE
    /\ mapid \in Maps /\ at \in Spots
    /\ dropbag_uid = 0
    /\ dropbags = {} /\ ground = {}
    /\ given = [d \in Duids |-> 0]

\* on_login_gateway: the character's map and place; a fresh scene in the client.
LoginGateway(m, p) ==
    /\ in_world' = TRUE
    /\ mapid' = m /\ at' = p
    /\ ground' = {}
    /\ UNCHANGED <<dropbag_uid, dropbags, given>>

\* on_attack, when n of the victims die and drop something, each where it stood.
Kill(n, P) ==
    /\ in_world
    /\ dropbag_uid + n <= MaxDrops
    /\ dropbag_uid' = dropbag_uid + n
    /\ dropbags' = dropbags \cup {[uid |-> dropbag_uid + i, at |-> P[i]] : i \in 1..n}
    /\ ground' = ground \cup (dropbag_uid + 1)..(dropbag_uid + n)
    /\ UNCHANGED <<in_world, mapid, at, given>>

\* Bugs a change of this code could bring in stand before the definition they
\* would replace; they only show that a property below notices them.
TakeKept(taken) ==          \* the drops stay in s.dropbags
    /\ ground' = ground \ {d.uid : d \in taken}
    /\ given' = [u \in Duids |-> IF \E d \in taken : d.uid = u THEN given[u] + 1 ELSE given[u]]
    /\ UNCHANGED dropbags
TakeSilent(taken) ==        \* no DEL_DROPBAG
    /\ dropbags' = dropbags \ taken
    /\ given' = [u \in Duids |-> IF \E d \in taken : d.uid = u THEN given[u] + 1 ELSE given[u]]
    /\ UNCHANGED ground

\* The drops taken leave s.dropbags and the scene (DEL_DROPBAG); the player gets
\* one item for each.
Take(taken) ==
    /\ dropbags' = dropbags \ taken
    /\ ground' = ground \ {d.uid : d \in taken}
    /\ given' = [u \in Duids |-> IF \E d \in taken : d.uid = u THEN given[u] + 1 ELSE given[u]]

\* _auto_pickup, at the new position p.
Underfoot(p) == {d \in dropbags : Near(p, d.at)}

\* on_move.
Move(p) ==
    /\ in_world
    /\ at' = p
    /\ Take(Underfoot(p))
    /\ UNCHANGED <<in_world, mapid, dropbag_uid>>

\* on_pickup: wherever the drop lies.
Pickup(d) ==
    /\ in_world
    /\ Take({d})
    /\ UNCHANGED <<in_world, mapid, at, dropbag_uid>>

\* on_teleport: the session keeps its drops, the client's scene does not.
Teleport(m, p) ==
    /\ in_world
    /\ mapid' = m /\ at' = p
    /\ ground' = {}
    /\ UNCHANGED <<in_world, dropbag_uid, dropbags, given>>

Next ==
    \/ \E m \in Maps, p \in Spots : LoginGateway(m, p) \/ Teleport(m, p)
    \/ \E n \in 1..MaxDrops : \E P \in [1..n -> Spots] : Kill(n, P)
    \/ \E p \in Spots : Move(p)
    \/ \E d \in dropbags : Pickup(d)

Spec == Init /\ [][Next]_vars
-----------------------------------------------------------------------------
\* Type invariant.
TypeOK ==
    /\ in_world \in BOOLEAN
    /\ mapid \in Maps /\ at \in Spots
    /\ dropbag_uid \in 0..MaxDrops
    /\ dropbags \subseteq Drop
    /\ given \in [Duids -> Nat]
    /\ ground \subseteq Duids

\* Of every drop the session still has the bag or the player has the item, once,
\* and never both: however often it is walked over, picked up and left behind.
EachDropOnce == \A u \in Duids :
    Cardinality({d \in dropbags : d.uid = u}) + given[u] = IF u <= dropbag_uid THEN 1 ELSE 0

\* A bag the client shows can be picked up: walking up to it brings the item.
ShownIsThere == \A u \in ground : \E d \in dropbags : d.uid = u
=============================================================================
