------------------------------ MODULE Sessions ------------------------------
(***************************************************************************)
(* Live sessions and the character rows they share (gateway.py, Session and*)
(* the functions that read or write a row).  A connection caches parts of  *)
(* its character in a Session object when it enters the world, changes the *)
(* cached copy, and writes it back with save_session; items and equipment  *)
(* are changed in the row itself.  Several connections may hold the same   *)
(* character, and a connection may name another character later.           *)
(*                                                                         *)
(* Each action is one handler, or one of grant_money / give_item, which    *)
(* the shop, the quest award and the pick-up call; none of them awaits, so *)
(* each runs whole.  Each saves at most once, so a save is atomic here:    *)
(* Storage shows why it may be.                                            *)
(*                                                                         *)
(* Abstracted: purse stands for level, exp, gold and diamond (all four are *)
(* loaded on enter-world, changed in the session and saved at once), place *)
(* for mapid, x and y; uid 0 is 7000000, the first value of item_uid.      *)
(*                                                                         *)
(* The client: GW_* requests other than GW_LOGIN_GATEWAY come only from a  *)
(* connection that has entered the world (docs/02-ARCHITECTURE.md, steps 6 *)
(* and 7).  Takeover and Reselect say what else a client may do.           *)
(***************************************************************************)
EXTENDS Integers, Sequences

CONSTANTS
    Conns,          \* connections, each a Session object while it is open
    Chars,          \* player ids that have a row
    Stray,          \* a player id without a row (the store was reset)
    None,           \* Session.player_id before any login
    Places, Home,   \* map positions; Home is the one of a new Session
    Items,          \* item ids of tb_item
    Gear, Souls,    \* those of item_type 3 and 7
    StackMax,       \* group_size of each item
    Takeover,       \* TRUE: a character may enter the world on a second connection
    Reselect,       \* TRUE: a connection in the world may select or enter again
    MaxPurse, MaxItems, MaxCount    \* bounds of the model

PlayerIds == Chars \cup {Stray}

ASSUME SessionsAssumption ==
    /\ Stray \notin Chars /\ None \notin PlayerIds
    /\ Home \in Places
    /\ Gear \subseteq Items /\ Souls \subseteq Items /\ Gear \cap Souls = {}
    /\ StackMax \in [Items -> Nat]
    /\ Takeover \in BOOLEAN /\ Reselect \in BOOLEAN
    /\ MaxPurse \in Nat /\ MaxItems \in Nat /\ MaxCount \in Nat

VARIABLES
    data,       \* storage._data: the row of each character, in memory
    disk,       \* accounts.json: what a restart brings back
    sess,       \* the Session object of each connection
    entered,    \* ghost: the character each connection last entered the world with
    earned,     \* ghost: what each character's purse has been given, less what it paid
    last        \* ghost: where each character last was in the world

vars == <<data, disk, sess, entered, earned, last>>

Bags     == {"bag", "equip", "warsoul"}
Cell     == [uid : Nat, item : Items, count : Nat, bag : Bags]
Row      == [purse : Nat, place : Places, items : Seq(Cell),
             equipped : SUBSET [uid : Nat, item : Items]]
Session  == [alive : BOOLEAN, player_id : PlayerIds \cup {None}, in_world : BOOLEAN,
             purse : Nat, place : Places, item_uid : Nat]

\* on_create_player's row, and Session.__init__ (a closed connection has none).
NewRow    == [purse |-> 0, place |-> Home, items |-> <<>>, equipped |-> {}]
NoSession == [alive |-> FALSE, player_id |-> None, in_world |-> FALSE,
              purse |-> 0, place |-> Home, item_uid |-> 0]

Init ==
    /\ data = [c \in Chars |-> NewRow] /\ disk = data
    /\ sess = [k \in Conns |-> NoSession]
    /\ entered = [k \in Conns |-> None]
    /\ earned = [c \in Chars |-> 0]
    /\ last = [c \in Chars |-> Home]

\* The connections on which character c is in the world.
InWorld(c) == {k \in Conns : sess[k].alive /\ sess[k].in_world /\ sess[k].player_id = c}
-----------------------------------------------------------------------------
\* Bugs a change of this code could bring in stand before the definition they
\* would replace; they only show that a property below notices them.
SaveUnentered(r) ==         \* save_session without its in_world test
    IF r.player_id \in Chars
    THEN /\ data' = [data EXCEPT ![r.player_id].purse = r.purse,
                              ![r.player_id].place = r.place]
         /\ disk' = data'
    ELSE UNCHANGED <<data, disk>>

\* save_session(s): writes the cached copy back, unless the session is not in
\* the world or its character has no row.
SaveSession(r) ==
    IF r.player_id \in Chars /\ r.in_world
    THEN /\ data' = [data EXCEPT ![r.player_id].purse = r.purse,
                              ![r.player_id].place = r.place]
         /\ disk' = data'
    ELSE UNCHANGED <<data, disk>>

Connect(k) ==
    /\ ~sess[k].alive
    /\ sess' = [sess EXCEPT ![k] = [NoSession EXCEPT !.alive = TRUE]]
    /\ UNCHANGED <<data, disk, entered, earned, last>>

\* on_login_player: only names the character; the client then reconnects.
LoginPlayer(k, c) ==
    /\ sess[k].alive
    /\ sess[k].in_world => Reselect
    /\ sess' = [sess EXCEPT ![k].player_id = c]
    /\ UNCHANGED <<data, disk, entered, earned, last>>

\* The uids an item of the row already has.
Uids(row) == {row.items[i].uid : i \in DOMAIN row.items}

LoadNoUid(r, c) ==          \* item uids start again
    IF c \notin Chars THEN {r}
    ELSE {[r EXCEPT !.purse = data[c].purse, !.place = data[c].place]}

\* on_login_gateway: enter the world with the saved copy of the character, and
\* continue its item uids past the saved ones.
LoadRow(r, c) ==
    IF c \notin Chars THEN {r}
    ELSE {[r EXCEPT !.purse = data[c].purse, !.place = data[c].place, !.item_uid = u] :
             u \in {m \in Uids(data[c]) \cup {r.item_uid} :
                        \A v \in Uids(data[c]) \cup {r.item_uid} : v <= m}}

LoginGateway(k, c) ==
    /\ sess[k].alive
    /\ sess[k].in_world => Reselect
    /\ InWorld(c) \subseteq {k} \/ Takeover
    /\ \E r \in LoadRow([sess[k] EXCEPT !.player_id = c, !.in_world = TRUE], c) :
           /\ sess' = [sess EXCEPT ![k] = r]
           /\ last' = IF c \in Chars THEN [last EXCEPT ![c] = r.place] ELSE last
    /\ entered' = [entered EXCEPT ![k] = c]
    /\ UNCHANGED <<data, disk, earned>>
-----------------------------------------------------------------------------
Active(k) == sess[k].alive /\ sess[k].in_world

\* Where connection k's character is, for the ghost last.
SeenAt(k, p) == IF sess[k].player_id \in Chars
                THEN [last EXCEPT ![sess[k].player_id] = p] ELSE last

\* on_move: the position is only cached.  (Picking up loot is GiveItem.)
Move(k, p) ==
    /\ Active(k)
    /\ sess' = [sess EXCEPT ![k].place = p]
    /\ last' = SeenAt(k, p)
    /\ UNCHANGED <<data, disk, entered, earned>>

\* on_teleport, as far as the session is concerned: the new place is saved.
Teleport(k, p) ==
    /\ Active(k)
    /\ sess' = [sess EXCEPT ![k].place = p]
    /\ SaveSession(sess'[k])
    /\ last' = SeenAt(k, p)
    /\ UNCHANGED <<entered, earned>>

GrantUnsaved(k, n) ==       \* grant_money without save_session
    /\ Active(k)
    /\ sess[k].purse + n \in 0..MaxPurse
    /\ sess' = [sess EXCEPT ![k].purse = @ + n]
    /\ earned' = IF sess[k].player_id \in Chars
                 THEN [earned EXCEPT ![sess[k].player_id] = @ + n] ELSE earned
    /\ UNCHANGED <<data, disk, entered, last>>

\* grant_money (and grant_exp, which saves the same way): the cached purse
\* changes and is saved at once.  A payment never exceeds the cached purse,
\* which is what on_shop_buy checks before it calls this.
GrantMoney(k, n) ==
    /\ Active(k)
    /\ sess[k].purse + n \in 0..MaxPurse
    /\ sess' = [sess EXCEPT ![k].purse = @ + n]
    /\ SaveSession(sess'[k])
    /\ earned' = IF sess[k].player_id \in Chars
                 THEN [earned EXCEPT ![sess[k].player_id] = @ + n] ELSE earned
    /\ UNCHANGED <<entered, last>>

\* pos_for(item_type, worn).
PosFor(item, worn) == IF item \in Gear /\ worn THEN "equip"
                      ELSE IF item \in Souls THEN "warsoul" ELSE "bag"

\* The bag stacks of the item that n more of it still fit on.
Stacks(row, item, n) ==
    {i \in DOMAIN row.items : /\ row.items[i].item = item
                              /\ row.items[i].bag = "bag"
                              /\ row.items[i].count + n <= StackMax[item]}

Stackable(item) == item \notin Gear \cup Souls /\ StackMax[item] > 1

\* give_item, onto a stack that has room: the first such cell.
AddToStack(c, item, n) ==
    \E i \in Stacks(data[c], item, n) :
        /\ \A j \in Stacks(data[c], item, n) : i <= j
        /\ data' = [data EXCEPT ![c].items[i].count = @ + n]

\* Equipment uid of a row holds item from now on.
Wear(row, uid, item) ==
    [row EXCEPT !.equipped = {e \in @ : e.uid # uid} \cup {[uid |-> uid, item |-> item]}]

\* give_item, as a new cell of the row with the session's next uid.
AddCell(row, uid, item, n, worn) ==
    LET cell == [uid |-> uid, item |-> item, count |-> n, bag |-> PosFor(item, worn)]
        held == [row EXCEPT !.items = Append(@, cell)]
    IN  IF worn THEN Wear(held, uid, item) ELSE held

\* give_item(s, itemid, count, auto_equip).
GiveItem(k, item, n, auto_equip) ==
    LET c   == sess[k].player_id
        uid == sess[k].item_uid + 1
    IN
    /\ Active(k)
    /\ IF c \in Chars /\ Stackable(item) /\ Stacks(data[c], item, n) # {}
       THEN AddToStack(c, item, n) /\ disk' = data' /\ UNCHANGED sess
       ELSE /\ uid <= MaxItems
            /\ c \in Chars => Len(data[c].items) < MaxItems
            /\ sess' = [sess EXCEPT ![k].item_uid = uid]
            /\ IF c \in Chars
               THEN /\ data' = [data EXCEPT ![c] =
                                   AddCell(@, uid, item, n, item \in Gear /\ auto_equip)]
                    /\ disk' = data'
               ELSE UNCHANGED <<data, disk>>
    /\ UNCHANGED <<entered, earned, last>>

WearUnchecked(k, uid) ==    \* an item of the right kind, whoever owns it
    LET c == sess[k].player_id IN
    /\ Active(k) /\ c \in Chars
    /\ \E item \in Gear : data' = [data EXCEPT ![c] = Wear(@, uid, item)]
    /\ disk' = data'
    /\ UNCHANGED <<sess, entered, earned, last>>

\* on_equip_wear, opt 1: the first cell with that uid, if there is one.
EquipWear(k, uid) ==
    LET c == sess[k].player_id IN
    /\ Active(k) /\ c \in Chars
    /\ \/ /\ uid \notin Uids(data[c])
          /\ UNCHANGED data
       \/ \E i \in DOMAIN data[c].items :
             /\ data[c].items[i].uid = uid
             /\ \A j \in 1..(i - 1) : data[c].items[j].uid # uid
             /\ data' = [data EXCEPT ![c] = Wear(@, uid, data[c].items[i].item)]
    /\ disk' = data'
    /\ UNCHANGED <<sess, entered, earned, last>>

\* on_equip_wear, any other opt.
EquipRemove(k, uid) ==
    LET c == sess[k].player_id IN
    /\ Active(k) /\ c \in Chars
    /\ data' = [data EXCEPT ![c].equipped = {e \in @ : e.uid # uid}]
    /\ disk' = data'
    /\ UNCHANGED <<sess, entered, earned, last>>

DisconnectUnsaved(k) ==     \* without save_session
    /\ sess[k].alive
    /\ sess' = [sess EXCEPT ![k] = NoSession]
    /\ entered' = [entered EXCEPT ![k] = None]
    /\ UNCHANGED <<data, disk, earned, last>>

\* The finally block of handle_conn: save, and the Session is gone.
Disconnect(k) ==
    /\ sess[k].alive
    /\ SaveSession(sess[k])
    /\ sess' = [sess EXCEPT ![k] = NoSession]
    /\ entered' = [entered EXCEPT ![k] = None]
    /\ UNCHANGED <<earned, last>>

\* The process dies and is started again: rows come from disk, sessions are
\* gone, and a position that was only cached is lost with them.
Restart ==
    /\ data' = disk /\ UNCHANGED disk
    /\ sess' = [k \in Conns |-> NoSession]
    /\ entered' = [k \in Conns |-> None]
    /\ last' = [c \in Chars |-> disk[c].place]
    /\ UNCHANGED earned

Next ==
    \/ \E k \in Conns : Connect(k) \/ Disconnect(k)
    \/ \E k \in Conns, c \in PlayerIds : LoginPlayer(k, c) \/ LoginGateway(k, c)
    \/ \E k \in Conns, p \in Places : Move(k, p) \/ Teleport(k, p)
    \/ \E k \in Conns, n \in {1, -1} : GrantMoney(k, n)
    \/ \E k \in Conns, item \in Items, n \in 1..MaxCount, auto \in BOOLEAN :
           GiveItem(k, item, n, auto)
    \/ \E k \in Conns, uid \in 0..MaxItems : EquipWear(k, uid) \/ EquipRemove(k, uid)
    \/ Restart

Spec == Init /\ [][Next]_vars
-----------------------------------------------------------------------------
\* Type invariant.
TypeOK ==
    /\ data \in [Chars -> Row] /\ disk \in [Chars -> Row]
    /\ sess \in [Conns -> Session]
    /\ entered \in [Conns -> PlayerIds \cup {None}]
    /\ earned \in [Chars -> Int]
    /\ last \in [Chars -> Places]

\* Nothing in a row is ever only in memory: killing the process between two
\* handlers loses no purse, item, equipment or saved place.
RowsAreSaved == disk = data

\* "Never overwrite from a non-world session" (save_session): the purse and
\* place in a row change only while a connection that entered the world with
\* this very character is in the world with it.
OnlyItsOwnSession ==
    [][\A c \in Chars :
          <<data'[c].purse, data'[c].place>> # <<data[c].purse, data[c].place>>
          => \E k \in InWorld(c) : entered[k] = c]_vars

\* The cached purse of a session in the world is the one in its row: a session
\* never decides on, or saves, a stale amount.
PurseCoherent == \A c \in Chars : \A k \in InWorld(c) : sess[k].purse = data[c].purse

\* What is on disk is all that was given, less all that was paid: no reconnect,
\* switch of connection or restart undoes a reward or a purchase.
NothingUndone == \A c \in Chars : disk[c].purse = earned[c]

\* No two cells of a character have the same uid: new pickups never reuse one.
UidsUnique == \A c \in Chars : \A i, j \in DOMAIN data[c].items :
                  data[c].items[i].uid = data[c].items[j].uid => i = j

\* What is worn is an item the character has, under its uid.
WornIsOwned == \A c \in Chars : \A e \in data[c].equipped :
                  \E i \in DOMAIN data[c].items :
                      data[c].items[i].uid = e.uid /\ data[c].items[i].item = e.item

\* A character that is not in the world is saved where it last was.
LogoutPlaceKept == \A c \in Chars : InWorld(c) = {} => data[c].place = last[c]
=============================================================================
