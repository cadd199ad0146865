------------------------------- MODULE Field -------------------------------
(***************************************************************************)
(* The fight around one player with its geometry: gateway.py's combat_loop *)
(* (who strikes, who chases and to where), _pick_victims and on_attack     *)
(* (who is hit, who falls and drops what), on_move, and what entering the  *)
(* world, teleporting and reviving do to the same state.  The drops are    *)
(* Loot's, which this module extends; the player's life is Combat's, which *)
(* this module refines with the zones its distances give.                  *)
(*                                                                         *)
(* Places are pairs of network coordinates, as in the code, and the radii  *)
(* are the code's.  Abstracted: a monster's HP (any blow may be its last); *)
(* how long a dead monster takes to return (Population has the clock).     *)
(* There is one map with a portal in it: a teleport clears the same tables *)
(* wherever it leads.  The connection stays up (Connection ends it).       *)
(***************************************************************************)
EXTENDS CombatRules, Loot, Sequences, FiniteSetsExt

CONSTANTS
    AGGRO_RADIUS, MONSTER_ATTACK_RANGE, MONSTER_MOVE_STEP, AOE_RADIUS,
    Born,           \* the place of every monster's template
    Haunts,         \* the places the player goes to
    Caps,           \* the target_num_k of the player's skills
    Droppers,       \* the monsters whose kind drops something
    MaxMoves        \* bound on the player's changes of place

ASSUME FieldAssumption ==
    /\ Uids \subseteq Nat \ {0}
    /\ Droppers \subseteq Uids
    /\ Haunts \subseteq Nat \X Nat /\ Born \in [Uids -> Nat \X Nat]
    /\ Caps \subseteq Nat \ {0}
    /\ AGGRO_RADIUS \in Nat /\ AOE_RADIUS \in Nat
    /\ MONSTER_MOVE_STEP \in Nat /\ MONSTER_ATTACK_RANGE \in 0..MONSTER_MOVE_STEP
    /\ MONSTER_ATTACK_RANGE % 2 = 0

VARIABLES
    hp, player_dead,
    order,          \* the uids of s.monsters, in its order
    mpos,           \* s.monster_pos
    dying,          \* monsters with a kill_and_respawn that is still asleep
    spawning,       \* spawn_world is asleep
    bar, told,      \* as in Combat
    moves           \* how often the player has changed place

body  == <<hp, player_dead, bar, told>>
field == <<order, mpos, dying, spawning>>
loot  == <<in_world, mapid, at, dropbag_uid, dropbags, given, ground>>
fvars == <<body, field, loot, moves>>

Sq(n) == n * n
Dist2(p, q) == Sq(p[1] - q[1]) + Sq(p[2] - q[2])

Live  == Range(order)
Known == Live \cap DOMAIN mpos

\* The members of S, each once, in the strict order R.
InOrder(S, R) == CHOOSE q \in [1..Cardinality(S) -> S] :
                     \A i, j \in DOMAIN q : i < j => <<q[i], q[j]>> \in R
Ascending(S) == {p \in S \X S : p[1] < p[2]}

\* Those of a sequence that are in S, in its order.
Keep(q, S) ==
    LET kept == {i \in DOMAIN q : q[i] \in S}
        nth == InOrder(kept, Ascending(kept))
    IN  [k \in DOMAIN nth |-> q[nth[k]]]
-----------------------------------------------------------------------------
\* Integer square roots.
Root == [x \in 0..Sq(MONSTER_MOVE_STEP) |->
            CHOOSE r \in 0..MONSTER_MOVE_STEP : Sq(r) <= x /\ x < Sq(r + 1)]

\* n * o / sqrt(d2) rounded down, as int() does a positive coordinate.
Part(n, o, d2) ==
    LET k == Root[Sq(n * o) \div d2]
    IN  IF o >= 0 THEN k ELSE IF Sq(k) * d2 = Sq(n * o) THEN -k ELSE -k - 1

ApproachShort(m, o, d2) ==      \* a bug: stops at the range itself, not well inside
    IF d2 > Sq(MONSTER_MOVE_STEP + MONSTER_ATTACK_RANGE)
    THEN m + Part(MONSTER_MOVE_STEP, o, d2)
    ELSE m + o + Part(MONSTER_ATTACK_RANGE, -o, d2)

\* One coordinate of combat_loop's step towards the player, who is o away along
\* it: MONSTER_MOVE_STEP long, or as far as half the range from the player.
Approach(m, o, d2) ==
    LET rest == MONSTER_ATTACK_RANGE \div 2
    IN  IF d2 > Sq(MONSTER_MOVE_STEP + rest) THEN m + Part(MONSTER_MOVE_STEP, o, d2)
        ELSE m + o + Part(rest, -o, d2)

Step(m) == LET d2 == Dist2(m, at)
           IN  <<Approach(m[1], at[1] - m[1], d2), Approach(m[2], at[2] - m[2], d2)>>

Zone(m) == IF Dist2(m, at) > Sq(AGGRO_RADIUS) THEN "far"
           ELSE IF Dist2(m, at) > Sq(MONSTER_ATTACK_RANGE) THEN "chase" ELSE "strike"

C == INSTANCE Combat WITH alive <- TRUE, zone <- [u \in Known |-> Zone(mpos[u])]

PickUnsorted(target, cap) ==    \* a bug: in the order of the table
    LET centre == IF target \in Known THEN mpos[target] ELSE at
        near == {u \in Known \ {target} : Dist2(mpos[u], centre) <= Sq(AOE_RADIUS)}
        all == (IF target \in Known THEN <<target>> ELSE <<>>) \o InOrder(near, Ascending(near))
    IN  SubSeq(all, 1, Min({cap, Len(all)}))

\* _pick_victims: the target, if it is there, and the nearest around it, or the
\* nearest around the player; uids decide between equals.
PickVictims(target, cap) ==
    LET locked == target \in Known
        centre == IF locked THEN mpos[target] ELSE at
        Away(u) == Dist2(mpos[u], centre)
        near == {u \in Known \ {target} : Away(u) <= Sq(AOE_RADIUS)}
        nearer == {p \in near \X near : \/ Away(p[1]) < Away(p[2])
                                        \/ Away(p[1]) = Away(p[2]) /\ p[1] < p[2]}
        all == (IF locked THEN <<target>> ELSE <<>>) \o InOrder(near, nearer)
    IN  SubSeq(all, 1, Min({cap, Len(all)}))
-----------------------------------------------------------------------------
\* Session.__init__; the client's view as in Combat and Loot.
FieldInit ==
    /\ in_world = FALSE /\ mapid \in Maps /\ at \in Haunts
    /\ dropbag_uid = 0 /\ dropbags = {} /\ ground = {}
    /\ given = [d \in Duids |-> 0]
    /\ hp = MaxHp /\ player_dead = FALSE /\ bar = MaxHp /\ told = FALSE
    /\ order = <<>> /\ mpos = <<>> /\ dying = {} /\ spawning = FALSE
    /\ moves = 0

Moves == moves < MaxMoves /\ moves' = moves + 1

\* on_login_gateway.
Enter(p) ==
    /\ Moves
    /\ LoginGateway(mapid, p)
    /\ hp' = MaxHp /\ player_dead' = FALSE /\ bar' = MaxHp /\ told' = FALSE
    /\ spawning' = TRUE
    /\ UNCHANGED <<order, mpos, dying>>

\* on_move.
Walk(p) ==
    /\ Moves
    /\ Move(p)
    /\ UNCHANGED <<body, field>>

\* on_teleport.
Jump(p) ==
    /\ Moves
    /\ Teleport(mapid, p)
    /\ order' = <<>> /\ mpos' = <<>> /\ spawning' = TRUE
    /\ UNCHANGED <<body, dying>>

\* on_pickup.
Grab == (\E d \in dropbags : Pickup(d)) /\ UNCHANGED <<body, field, moves>>

\* spawn_world: all monsters at their born points, in the order of their uids.
Spawn ==
    /\ spawning
    /\ order' = InOrder(Uids, Ascending(Uids)) /\ mpos' = Born
    /\ spawning' = FALSE
    /\ UNCHANGED <<body, dying, loot, moves>>

\* The end of kill_and_respawn.
Respawn(u) ==
    /\ u \in dying
    /\ dying' = dying \ {u}
    /\ order' = IF u \in Live THEN order ELSE Append(order, u)
    /\ UNCHANGED <<body, mpos, spawning, loot, moves>>

ReviveStillDead ==              \* a bug: player_dead is not reset
    /\ hp' = MaxHp /\ bar' = hp' /\ told' = FALSE
    /\ UNCHANGED <<player_dead, field, loot, moves>>

\* on_player_revive.
Revive ==
    /\ hp' = MaxHp /\ player_dead' = FALSE /\ bar' = hp' /\ told' = FALSE
    /\ UNCHANGED <<field, loot, moves>>
-----------------------------------------------------------------------------
\* What a round of combat_loop has done so far.
Rounds == [hp : 0..MaxHp, pos : [DOMAIN mpos -> Int \X Int], attackers : 0..MAX_ATTACKERS,
           events : BOOLEAN, over : BOOLEAN]

ActUncapped(u, blows) == [done \in Rounds |->      \* a bug: attackers are not counted
    LET z == Zone(mpos[u])
    IN  IF u \notin Known \/ done.over \/ z = "far" THEN done
        ELSE IF z = "chase"
        THEN [done EXCEPT !.pos[u] = Step(mpos[u]), !.events = TRUE]
        ELSE LET left == IF blows[1] < done.hp THEN done.hp - blows[1] ELSE 0
             IN  [done EXCEPT !.hp = left, !.events = TRUE, !.over = (left = 0)]]

\* What one monster adds to it; blows are what the blows of the round take.
Act(u, blows) == [done \in Rounds |->
    LET z == Zone(mpos[u])
    IN  IF u \notin Known \/ done.over \/ z = "far" THEN done
        ELSE IF z = "chase"
        THEN [done EXCEPT !.pos[u] = Step(mpos[u]), !.events = TRUE]
        ELSE IF done.attackers >= MAX_ATTACKERS THEN done
        ELSE LET blow == blows[done.attackers + 1]
                 left == IF blow < done.hp THEN done.hp - blow ELSE 0
             IN  [done EXCEPT !.attackers = @ + 1, !.hp = left, !.events = TRUE,
                              !.over = (left = 0)]]

BlowsOfTheWeak == {0}           \* a bug: without the floor of maxhp // 200

\* What a blow may take: at least maxhp // 200, which is 1.
Blows == 1..MaxBlow

\* A round: all monsters in turn; one HP event with what is left, the offer of a
\* revival for the dead.
Round(blows) ==
    LET start == [hp |-> hp, pos |-> mpos, attackers |-> 0, events |-> FALSE, over |-> FALSE]
        upto[i \in 0..Len(order)] ==
            IF i = 0 THEN start ELSE Act(order[i], blows)[upto[i - 1]]
        done == upto[Len(order)]
    IN  /\ hp' = done.hp /\ mpos' = done.pos
        /\ bar' = IF done.events THEN done.hp ELSE bar
        /\ player_dead' = done.over /\ told' = (told \/ done.over)

\* combat_loop wakes up.
CombatLoop ==
    /\ in_world /\ ~player_dead /\ order # <<>>
    /\ UNCHANGED <<order, dying, spawning, loot, moves>>
    /\ \E blows \in [1..MAX_ATTACKERS -> Blows] : Round(blows)

\* on_attack: some of the victims die (when none does, only monsters' HP change);
\* those of a kind that drops something leave it where they stood, in the order
\* they were hit.
Attack(victims) ==
    /\ \E dead \in (SUBSET (Range(victims) \ dying)) \ {{}} :   \* one respawn of a uid at a time
          LET dropped == Keep(victims, dead \cap Droppers)
          IN  /\ Kill(Len(dropped), [i \in DOMAIN dropped |-> mpos[dropped[i]]])
              /\ order' = Keep(order, Live \ dead)
              /\ dying' = dying \cup dead
    /\ UNCHANGED <<body, mpos, spawning, moves>>

\* Any target, or none, and any skill.
Aims == {PickVictims(target, cap) : target \in Uids \cup {0}, cap \in Caps}

FieldNext ==
    \/ \E p \in Haunts : Enter(p) \/ Walk(p) \/ Jump(p)
    \/ Grab \/ Spawn \/ Revive \/ CombatLoop
    \/ \E u \in Uids : Respawn(u)
    \/ \E victims \in Aims : Attack(victims)

FieldSpec == FieldInit /\ [][FieldNext]_fvars

\* combat_loop goes on waking up; requests need never come.
FairSpec == FieldSpec /\ WF_fvars(CombatLoop)
-----------------------------------------------------------------------------
\* The player's life is what Combat says, with zones for distances: a chasing
\* monster never falls back, those far away do nothing, at most MAX_ATTACKERS
\* strike and none after the blow that kills (combat_loop, on_player_revive).
CombatSpec == C!Spec

\* Combat's agreement of HP, death, HP bar and revival offer.
ClientKnows == C!ClientKnows

Chased  == \E u \in Known : Zone(mpos[u]) = "chase"
InReach == \E u \in Known : Zone(mpos[u]) = "strike"

\* Monsters in striking range are no ornament: the player's HP does not stay what
\* it is while one is there (combat_loop).
StrikesLand == \A n \in 1..MaxHp : in_world /\ hp = n /\ InReach ~> hp # n \/ ~InReach

\* Monsters that have noticed the player come into striking range of one who stays,
\* as everyone does in the end: whole-number steps do not leave them just short
\* (combat_loop).
ChaseArrives == in_world /\ moves = MaxMoves /\ Chased ~> ~Chased \/ player_dead

\* Whatever is attacked, with any skill: as many are hit as the skill can hit and
\* the area holds, each once, none of them dead, the target first if it is
\* there, and nobody is passed over for one farther away (_pick_victims).
VictimsRight == \A target \in Uids \cup {0}, cap \in Caps :
    LET victims == PickVictims(target, cap)
        hit == Range(victims)
        centre == IF target \in Known THEN mpos[target] ELSE at
        reach == {u \in Known : Dist2(mpos[u], centre) <= Sq(AOE_RADIUS)}
    IN  /\ Cardinality(hit) = Len(victims) /\ Len(victims) = Min({cap, Cardinality(reach)})
        /\ hit \subseteq reach
        /\ target \in Known => victims[1] = target
        /\ \A u \in hit \ {target}, v \in reach \ hit :
               Dist2(mpos[u], centre) <= Dist2(mpos[v], centre)
=============================================================================
