--------------------------- MODULE SessionsProofs ---------------------------
(***************************************************************************)
(* Theorems about Sessions, for every set of connections, characters,      *)
(* places and items and every bound.  TypeCorrect, RowsSaved and WornOwned *)
(* hold whatever the clients do; the others need a discipline: one         *)
(* connection in the world per character, and none that changes its        *)
(* character there.                                                        *)
(***************************************************************************)
EXTENDS Sessions, SequenceTheorems, TLAPS

\* What save_session leaves, given a well-formed session.
LEMMA SaveTyped ==
    ASSUME TypeOK, NEW r \in Session, SaveSession(r)
    PROVE  /\ data' \in [Chars -> Row] /\ disk' \in [Chars -> Row]
           /\ RowsAreSaved => RowsAreSaved'
           /\ \A c \in Chars : /\ data'[c].items = data[c].items
                               /\ data'[c].equipped = data[c].equipped
<1>1. CASE r.player_id \in Chars /\ r.in_world
  <2>1. /\ data' = [data EXCEPT ![r.player_id].purse = r.purse,
                               ![r.player_id].place = r.place]
        /\ disk' = data'
    BY <1>1 DEF SaveSession
  <2>2. r.purse \in Nat /\ r.place \in Places /\ data[r.player_id] \in Row
    BY <1>1 DEF Session, TypeOK
  <2>3. data' \in [Chars -> Row]
    BY <1>1, <2>1, <2>2 DEF TypeOK, Row
  <2>4. \A c \in Chars : /\ data'[c].items = data[c].items
                         /\ data'[c].equipped = data[c].equipped
    BY <1>1, <2>1 DEF TypeOK, Row
  <2> QED
    BY <2>1, <2>3, <2>4 DEF RowsAreSaved
<1>2. CASE ~(r.player_id \in Chars /\ r.in_world)
  BY <1>2 DEF SaveSession, TypeOK, RowsAreSaved
<1> QED
  BY <1>1, <1>2

\* Wearing an item keeps a row a row.
LEMMA WearTyped ==
    ASSUME NEW row \in Row, NEW uid \in Nat, NEW item \in Items
    PROVE  Wear(row, uid, item) \in Row
  BY DEF Wear, Row

\* So does putting a new cell in it.
LEMMA AddCellTyped ==
    ASSUME NEW row \in Row, NEW uid \in Nat, NEW item \in Items, NEW n \in Nat,
           NEW worn \in BOOLEAN
    PROVE  AddCell(row, uid, item, n, worn) \in Row
<1> DEFINE cell == [uid |-> uid, item |-> item, count |-> n, bag |-> PosFor(item, worn)]
           held == [row EXCEPT !.items = Append(@, cell)]
<1>1. cell \in Cell
  BY DEF Cell, PosFor, Bags
<1>2. Append(row.items, cell) \in Seq(Cell)
  BY <1>1, AppendProperties DEF Row
<1>3. held \in Row
  BY <1>2 DEF Row
<1> QED
  BY <1>3, WearTyped DEF AddCell

\* What on_login_gateway makes of a session.
LEMMA LoadTyped ==
    ASSUME TypeOK, NEW r \in Session, NEW c \in PlayerIds, NEW q \in LoadRow(r, c)
    PROVE  /\ q \in Session
           /\ q.alive = r.alive /\ q.player_id = r.player_id /\ q.in_world = r.in_world
           /\ c \in Chars => /\ q.purse = data[c].purse /\ q.place = data[c].place
                             /\ \A u \in Uids(data[c]) : u <= q.item_uid
<1>1. CASE c \notin Chars
  BY <1>1 DEF LoadRow
<1>2. CASE c \in Chars
  <2>1. \A v \in Uids(data[c]) : v \in Nat
    <3>1. data[c].items \in Seq(Cell)
      BY <1>2 DEF TypeOK, Row
    <3>2. \A i \in DOMAIN data[c].items : data[c].items[i] \in Cell
      BY <3>1
    <3> QED
      BY <3>2 DEF Cell, Uids
  <2>2. PICK u \in Uids(data[c]) \cup {r.item_uid} :
            /\ \A v \in Uids(data[c]) \cup {r.item_uid} : v <= u
            /\ q = [r EXCEPT !.purse = data[c].purse, !.place = data[c].place, !.item_uid = u]
    BY <1>2 DEF LoadRow
  <2>3. u \in Nat
    BY <2>1, <2>2 DEF Session
  <2> QED
    BY <1>2, <2>2, <2>3 DEF TypeOK, Row, Session
<1> QED BY <1>1, <1>2

\* One step keeps the types.
LEMMA TypeNext == TypeOK /\ [Next]_vars => TypeOK'
<1> SUFFICES ASSUME TypeOK, [Next]_vars PROVE TypeOK'
  OBVIOUS
<1> USE SessionsAssumption
<1>1. ASSUME NEW k \in Conns, Connect(k) PROVE TypeOK'
  BY <1>1 DEF Connect, TypeOK, Session, NoSession
<1>2. ASSUME NEW k \in Conns, Disconnect(k) PROVE TypeOK'
  <2>1. /\ data' \in [Chars -> Row] /\ disk' \in [Chars -> Row]
    BY <1>2, SaveTyped DEF Disconnect, TypeOK
  <2> QED
    BY <1>2, <2>1 DEF Disconnect, TypeOK, Session, NoSession
<1>3. ASSUME NEW k \in Conns, NEW c \in PlayerIds, LoginPlayer(k, c) PROVE TypeOK'
  BY <1>3 DEF LoginPlayer, TypeOK, Session
<1>4. ASSUME NEW k \in Conns, NEW c \in PlayerIds, LoginGateway(k, c) PROVE TypeOK'
  <2> DEFINE r == [sess[k] EXCEPT !.player_id = c, !.in_world = TRUE]
  <2>1. r \in Session
    BY DEF TypeOK, Session
  <2>2. PICK q \in LoadRow(r, c) :
            /\ sess' = [sess EXCEPT ![k] = q]
            /\ last' = IF c \in Chars THEN [last EXCEPT ![c] = q.place] ELSE last
    BY <1>4 DEF LoginGateway
  <2>3. q \in Session
    BY <2>1, LoadTyped
  <2>4. /\ sess' \in [Conns -> Session] /\ last' \in [Chars -> Places]
    BY <2>2, <2>3 DEF TypeOK, Session
  <2> QED
    BY <1>4, <2>4 DEF LoginGateway, TypeOK
<1>5. ASSUME NEW k \in Conns, NEW p \in Places, Move(k, p) PROVE TypeOK'
  BY <1>5 DEF Move, SeenAt, TypeOK, Session
<1>6. ASSUME NEW k \in Conns, NEW p \in Places, Teleport(k, p) PROVE TypeOK'
  <2>1. sess' \in [Conns -> Session] /\ sess'[k] \in Session
    BY <1>6 DEF Teleport, TypeOK, Session
  <2>2. /\ data' \in [Chars -> Row] /\ disk' \in [Chars -> Row]
    BY <1>6, <2>1, SaveTyped DEF Teleport
  <2> QED
    BY <1>6, <2>1, <2>2 DEF Teleport, SeenAt, TypeOK
<1>7. ASSUME NEW k \in Conns, NEW n \in {1, -1}, GrantMoney(k, n) PROVE TypeOK'
  <2>1. sess' \in [Conns -> Session] /\ sess'[k] \in Session
    BY <1>7 DEF GrantMoney, TypeOK, Session
  <2>2. /\ data' \in [Chars -> Row] /\ disk' \in [Chars -> Row]
    BY <1>7, <2>1, SaveTyped DEF GrantMoney
  <2>3. earned' \in [Chars -> Int]
    BY <1>7 DEF GrantMoney, TypeOK
  <2> QED
    BY <1>7, <2>1, <2>2, <2>3 DEF GrantMoney, TypeOK
<1>8. ASSUME NEW k \in Conns, NEW item \in Items, NEW n \in 1..MaxCount,
             NEW auto \in BOOLEAN, GiveItem(k, item, n, auto)
      PROVE  TypeOK'
  <2> DEFINE c == sess[k].player_id  uid == sess[k].item_uid + 1
  <2>1. uid \in Nat
    BY DEF TypeOK, Session
  <2>2. CASE c \in Chars /\ AddToStack(c, item, n) /\ disk' = data' /\ UNCHANGED sess
    <3>1. PICK i \in DOMAIN data[c].items :
              data' = [data EXCEPT ![c].items[i].count = @ + n]
      BY <2>2 DEF AddToStack, Stacks
    <3>2. data[c] \in Row /\ data[c].items \in Seq(Cell) /\ data[c].items[i] \in Cell
      BY <2>2 DEF TypeOK, Row
    <3>3. [data[c].items[i] EXCEPT !.count = data[c].items[i].count + n] \in Cell
      <4>1. data[c].items[i].count \in Nat
        BY <3>2 DEF Cell
      <4>2. n \in Nat
        BY SessionsAssumption DEF SessionsAssumption
      <4>3. data[c].items[i].count + n \in Nat
        BY <4>1, <4>2
      <4> QED
        BY <3>2, <4>3 DEF Cell
    <3>4. [data[c].items EXCEPT
              ![i] = [data[c].items[i] EXCEPT !.count = data[c].items[i].count + n]] \in Seq(Cell)
      BY <3>2, <3>3, ExceptSeq
    <3>5. [data[c] EXCEPT !.items =
              [data[c].items EXCEPT
                  ![i] = [data[c].items[i] EXCEPT !.count = data[c].items[i].count + n]]] \in Row
      BY <3>2, <3>4 DEF Row
    <3>6. data' \in [Chars -> Row] /\ disk' \in [Chars -> Row]
      BY <2>2, <3>1, <3>5 DEF TypeOK
    <3> QED
      BY <1>8, <2>2, <3>6 DEF GiveItem, TypeOK
  <2>3. CASE /\ sess' = [sess EXCEPT ![k].item_uid = uid]
             /\ IF c \in Chars
                THEN /\ data' = [data EXCEPT ![c] =
                                    AddCell(@, uid, item, n, item \in Gear /\ auto)]
                     /\ disk' = data'
                ELSE UNCHANGED <<data, disk>>
    <3>1. sess' \in [Conns -> Session]
      BY <2>1, <2>3 DEF TypeOK, Session
    <3>2. CASE c \in Chars
      <4>1. data[c] \in Row /\ n \in Nat
        BY <3>2 DEF TypeOK
      <4>2. AddCell(data[c], uid, item, n, item \in Gear /\ auto) \in Row
        BY <2>1, <4>1, AddCellTyped
      <4>3. data' \in [Chars -> Row] /\ disk' \in [Chars -> Row]
        BY <2>3, <3>2, <4>2 DEF TypeOK
      <4> QED
        BY <1>8, <3>1, <4>3 DEF GiveItem, TypeOK
    <3>3. CASE c \notin Chars
      BY <1>8, <2>3, <3>1, <3>3 DEF GiveItem, TypeOK
    <3> QED BY <3>2, <3>3
  <2> QED
    BY <1>8, <2>2, <2>3 DEF GiveItem
<1>9. ASSUME NEW k \in Conns, NEW uid \in 0..MaxItems, EquipWear(k, uid) PROVE TypeOK'
  <2> DEFINE c == sess[k].player_id
  <2>1. CASE UNCHANGED data
    BY <1>9, <2>1 DEF EquipWear, TypeOK
  <2>2. ASSUME NEW i \in DOMAIN data[c].items,
               data' = [data EXCEPT ![c] = Wear(@, uid, data[c].items[i].item)]
        PROVE  TypeOK'
    <3>1. c \in Chars /\ data[c] \in Row
      BY <1>9 DEF EquipWear, TypeOK
    <3>3. data[c].items \in Seq(Cell)
      BY <3>1 DEF Row
    <3>4. data[c].items[i] \in Cell
      BY <3>3
    <3>5. data[c].items[i].item \in Items
      BY <3>4 DEF Cell
    <3>2. data' \in [Chars -> Row]
      BY <2>2, <3>1, <3>5, WearTyped DEF TypeOK
    <3> QED
      BY <1>9, <3>2 DEF EquipWear, TypeOK
  <2> QED
    BY <1>9, <2>1, <2>2 DEF EquipWear
<1>10. ASSUME NEW k \in Conns, NEW uid \in 0..MaxItems, EquipRemove(k, uid) PROVE TypeOK'
  BY <1>10 DEF EquipRemove, TypeOK, Row
<1>11. CASE Restart
  BY <1>11 DEF Restart, TypeOK, Row, Session, NoSession
<1>12. CASE UNCHANGED vars
  BY <1>12 DEF vars, TypeOK
<1> QED
  BY <1>1, <1>2, <1>3, <1>4, <1>5, <1>6, <1>7, <1>8, <1>9, <1>10, <1>11, <1>12 DEF Next

\* Rows, sessions and ghosts always have their types; no purse is negative.
THEOREM TypeCorrect == Spec => []TypeOK
<1>1. Init => TypeOK
  BY SessionsAssumption DEF Init, TypeOK, Row, Session, NewRow, NoSession
<1> QED
  BY <1>1, TypeNext, PTL DEF Spec
-----------------------------------------------------------------------------
\* One step keeps rows and disk the same.
LEMMA SavedNext == TypeOK /\ RowsAreSaved /\ [Next]_vars => RowsAreSaved'
<1> SUFFICES ASSUME TypeOK, RowsAreSaved, [Next]_vars PROVE RowsAreSaved'
  OBVIOUS
<1>1. ASSUME NEW k \in Conns, Connect(k) \/ Disconnect(k) PROVE RowsAreSaved'
  BY <1>1, SaveTyped DEF Connect, Disconnect, RowsAreSaved, TypeOK
<1>2. ASSUME NEW k \in Conns, NEW c \in PlayerIds, LoginPlayer(k, c) \/ LoginGateway(k, c)
      PROVE  RowsAreSaved'
  BY <1>2 DEF LoginPlayer, LoginGateway, RowsAreSaved
<1>3. ASSUME NEW k \in Conns, NEW p \in Places, Move(k, p) \/ Teleport(k, p)
      PROVE  RowsAreSaved'
  <2>1. Teleport(k, p) => sess'[k] \in Session
    BY DEF Teleport, TypeOK, Session
  <2> QED
    BY <1>3, <2>1, SaveTyped DEF Move, Teleport, RowsAreSaved
<1>4. ASSUME NEW k \in Conns, NEW n \in {1, -1}, GrantMoney(k, n) PROVE RowsAreSaved'
  <2>1. sess'[k] \in Session
    BY <1>4, SessionsAssumption DEF GrantMoney, TypeOK, Session
  <2> QED
    BY <1>4, <2>1, SaveTyped DEF GrantMoney
<1>5. ASSUME NEW k \in Conns, NEW item \in Items, NEW n \in 1..MaxCount,
             NEW auto \in BOOLEAN, GiveItem(k, item, n, auto)
      PROVE  RowsAreSaved'
  BY <1>5 DEF GiveItem, RowsAreSaved
<1>6. ASSUME NEW k \in Conns, NEW uid \in 0..MaxItems, EquipWear(k, uid) \/ EquipRemove(k, uid)
      PROVE  RowsAreSaved'
  BY <1>6 DEF EquipWear, EquipRemove, RowsAreSaved
<1>7. CASE Restart \/ UNCHANGED vars
  BY <1>7 DEF Restart, vars, RowsAreSaved
<1> QED
  BY <1>1, <1>2, <1>3, <1>4, <1>5, <1>6, <1>7 DEF Next

\* No purse, item, worn piece or saved place is ever only in memory.
THEOREM RowsSaved == Spec => []RowsAreSaved
<1>1. Init => RowsAreSaved
  BY DEF Init, RowsAreSaved
<1> QED
  BY <1>1, SavedNext, TypeCorrect, PTL DEF Spec
-----------------------------------------------------------------------------
\* What a row's character wears, the row holds.
Owned(row) == \A e \in row.equipped : \E i \in DOMAIN row.items :
                  row.items[i].uid = e.uid /\ row.items[i].item = e.item

LEMMA WearOwned ==
    ASSUME NEW row \in Row, Owned(row), NEW i \in DOMAIN row.items
    PROVE  Owned(Wear(row, row.items[i].uid, row.items[i].item))
<1> DEFINE worn == Wear(row, row.items[i].uid, row.items[i].item)
<1>1. /\ worn.items = row.items
      /\ worn.equipped = {e \in row.equipped : e.uid # row.items[i].uid}
                         \cup {[uid |-> row.items[i].uid, item |-> row.items[i].item]}
  BY DEF Wear, Row
<1> QED
  BY <1>1 DEF Owned

LEMMA AddCellOwned ==
    ASSUME NEW row \in Row, Owned(row), NEW uid \in Nat, NEW item \in Items, NEW n \in Nat,
           NEW worn \in BOOLEAN
    PROVE  Owned(AddCell(row, uid, item, n, worn))
<1> DEFINE cell == [uid |-> uid, item |-> item, count |-> n, bag |-> PosFor(item, worn)]
           held == [row EXCEPT !.items = Append(@, cell)]
           last1 == Len(row.items) + 1
<1>1. cell \in Cell /\ row.items \in Seq(Cell)
  BY DEF Cell, PosFor, Bags, Row
<1>2. /\ Append(row.items, cell) \in Seq(Cell)
      /\ DOMAIN Append(row.items, cell) = 1..last1
      /\ \A i \in DOMAIN row.items : i \in 1..last1 /\ Append(row.items, cell)[i] = row.items[i]
      /\ Append(row.items, cell)[last1] = cell /\ last1 \in 1..last1
  BY <1>1, AppendProperties
<1>3. held \in Row /\ held.items = Append(row.items, cell) /\ held.equipped = row.equipped
  BY <1>2 DEF Row
<1>4. Owned(held)
  <2> SUFFICES ASSUME NEW e \in held.equipped
               PROVE  \E i \in DOMAIN held.items :
                          held.items[i].uid = e.uid /\ held.items[i].item = e.item
    BY DEF Owned
  <2>1. PICK i \in DOMAIN row.items : row.items[i].uid = e.uid /\ row.items[i].item = e.item
    BY <1>3 DEF Owned
  <2>2. i \in DOMAIN held.items /\ held.items[i] = row.items[i]
    BY <1>2, <1>3
  <2> QED
    BY <2>1, <2>2
<1>5. /\ last1 \in DOMAIN held.items
      /\ held.items[last1].uid = uid /\ held.items[last1].item = item
  BY <1>2, <1>3
<1>6. Owned(Wear(held, held.items[last1].uid, held.items[last1].item))
  <2> HIDE DEF held, last1
  <2> QED
    BY <1>3, <1>4, <1>5, WearOwned
<1>7. Owned(Wear(held, uid, item))
  BY <1>5, <1>6
<1> QED
  BY <1>4, <1>7 DEF AddCell

\* One step keeps what is worn owned.
LEMMA OwnedNext ==
    ASSUME TypeOK, RowsAreSaved, \A c \in Chars : Owned(data[c]), [Next]_vars
    PROVE  \A c \in Chars : Owned(data'[c])
<1> USE SessionsAssumption
<1>1. ASSUME NEW r \in Session, SaveSession(r) PROVE \A c \in Chars : Owned(data'[c])
  BY <1>1, SaveTyped DEF Owned
<1>2. ASSUME NEW k \in Conns, Connect(k) \/ Disconnect(k)
      PROVE  \A c \in Chars : Owned(data'[c])
  BY <1>1, <1>2 DEF Connect, Disconnect, TypeOK
<1>3. ASSUME NEW k \in Conns, NEW p \in Places, Teleport(k, p)
      PROVE  \A c \in Chars : Owned(data'[c])
  <2>1. sess'[k] \in Session
    BY <1>3 DEF Teleport, TypeOK, Session
  <2> QED
    BY <1>1, <1>3, <2>1 DEF Teleport
<1>4. ASSUME NEW k \in Conns, NEW n \in {1, -1}, GrantMoney(k, n)
      PROVE  \A c \in Chars : Owned(data'[c])
  <2>1. sess'[k] \in Session
    BY <1>4 DEF GrantMoney, TypeOK, Session
  <2> QED
    BY <1>1, <1>4, <2>1 DEF GrantMoney
<1>5. ASSUME NEW k \in Conns, NEW item \in Items, NEW n \in 1..MaxCount,
             NEW auto \in BOOLEAN, GiveItem(k, item, n, auto)
      PROVE  \A c \in Chars : Owned(data'[c])
  <2> DEFINE d == sess[k].player_id  uid == sess[k].item_uid + 1
  <2>1. CASE UNCHANGED data
    BY <2>1
  <2>2. CASE d \in Chars /\ AddToStack(d, item, n)
    <3>1. PICK i \in DOMAIN data[d].items :
              data' = [data EXCEPT ![d].items[i].count = @ + n]
      BY <2>2 DEF AddToStack, Stacks
    <3>2. data[d] \in Row /\ data[d].items \in Seq(Cell) /\ data[d].items[i] \in Cell
      BY <2>2 DEF TypeOK, Row
    <3>3. /\ data'[d].equipped = data[d].equipped
          /\ DOMAIN data'[d].items = DOMAIN data[d].items
          /\ \A j \in DOMAIN data[d].items : /\ data'[d].items[j].uid = data[d].items[j].uid
                                             /\ data'[d].items[j].item = data[d].items[j].item
      BY <2>2, <3>1, <3>2 DEF TypeOK, Row, Cell
    <3>4. \A c \in Chars : c # d => data'[c] = data[c]
      BY <3>1 DEF TypeOK
    <3> QED
      BY <2>2, <3>3, <3>4 DEF Owned
  <2>3. CASE d \in Chars /\ data' = [data EXCEPT ![d] =
                                      AddCell(@, uid, item, n, item \in Gear /\ auto)]
    <3>1. uid \in Nat /\ n \in Nat /\ data[d] \in Row
      BY <2>3 DEF TypeOK, Session
    <3>2. Owned(AddCell(data[d], uid, item, n, item \in Gear /\ auto))
      BY <2>3, <3>1, AddCellOwned
    <3> QED
      BY <2>3, <3>2 DEF TypeOK
  <2> QED
    BY <1>5, <2>1, <2>2, <2>3 DEF GiveItem
<1>6. ASSUME NEW k \in Conns, NEW uid \in 0..MaxItems, EquipWear(k, uid)
      PROVE  \A c \in Chars : Owned(data'[c])
  <2> DEFINE d == sess[k].player_id
  <2>1. CASE UNCHANGED data
    BY <2>1
  <2>2. ASSUME d \in Chars, NEW i \in DOMAIN data[d].items, data[d].items[i].uid = uid,
               data' = [data EXCEPT ![d] = Wear(@, uid, data[d].items[i].item)]
        PROVE  \A c \in Chars : Owned(data'[c])
    <3>1. data[d] \in Row
      BY <2>2 DEF TypeOK
    <3>2. Owned(Wear(data[d], uid, data[d].items[i].item))
      BY <2>2, <3>1, WearOwned
    <3> QED
      BY <2>2, <3>2 DEF TypeOK
  <2> QED
    BY <1>6, <2>1, <2>2 DEF EquipWear
<1>7. ASSUME NEW k \in Conns, NEW uid \in 0..MaxItems, EquipRemove(k, uid)
      PROVE  \A c \in Chars : Owned(data'[c])
  <2> DEFINE d == sess[k].player_id
  <2>1. d \in Chars /\ data[d] \in Row
        /\ data' = [data EXCEPT ![d].equipped = {e \in data[d].equipped : e.uid # uid}]
    BY <1>7 DEF EquipRemove, TypeOK
  <2>2. /\ data'[d].items = data[d].items /\ data'[d].equipped \subseteq data[d].equipped
        /\ \A c \in Chars : c # d => data'[c] = data[c]
    BY <2>1 DEF TypeOK, Row
  <2>3. Owned(data'[d])
    BY <2>1, <2>2 DEF Owned
  <2> QED
    BY <2>2, <2>3
<1>8. CASE Restart
  BY <1>8 DEF Restart, RowsAreSaved
<1>9. CASE UNCHANGED data
  BY <1>9
<1> QED
  BY <1>2, <1>3, <1>4, <1>5, <1>6, <1>7, <1>8, <1>9
     DEF Next, vars, LoginPlayer, LoginGateway, Move

\* Whatever the clients do, nothing is worn that the character does not have
\* under that uid (give_item, on_equip_wear).
THEOREM WornOwned == Spec => []WornIsOwned
<1> DEFINE Inv == \A c \in Chars : Owned(data[c])
<1>1. Init => Inv
  BY DEF Init, NewRow, Owned
<1>2. TypeOK /\ RowsAreSaved /\ Inv /\ [Next]_vars => Inv'
  BY OwnedNext
<1>3. Inv => WornIsOwned
  BY DEF Owned, WornIsOwned
<1> QED
  BY <1>1, <1>2, <1>3, TypeCorrect, RowsSaved, PTL DEF Spec
-----------------------------------------------------------------------------
\* The discipline of a well-behaved client.
Discipline == ~Takeover /\ ~Reselect

\* A character is in the world on one connection at most.
Alone == \A c \in PlayerIds : \A j, k \in InWorld(c) : j = k

\* A connection in the world is there with the character it entered with.
Named == \A k \in Conns : Active(k) => /\ sess[k].player_id \in PlayerIds
                                      /\ entered[k] = sess[k].player_id

\* Who is in the world depends on three fields of the sessions only.
Standing(k) == <<sess[k].alive, sess[k].player_id, sess[k].in_world>>

LEMMA SameStanding ==
    ASSUME \A k \in Conns : UNCHANGED Standing(k), UNCHANGED entered
    PROVE  /\ \A k \in Conns : Active(k)' = Active(k)
           /\ \A c : InWorld(c)' = InWorld(c)
           /\ Alone => Alone'
           /\ Named => Named'
<1>1. \A k \in Conns : /\ sess'[k].alive = sess[k].alive
                      /\ sess'[k].player_id = sess[k].player_id
                      /\ sess'[k].in_world = sess[k].in_world
  BY DEF Standing
<1> QED
  BY <1>1 DEF Alone, Named, InWorld, Active

\* What one step does to who is in the world.
LEMMA OwnerNext ==
    ASSUME Discipline, TypeOK, Alone, Named, [Next]_vars
    PROVE  Alone' /\ Named'
<1>1. ASSUME NEW k \in Conns, Connect(k) \/ Disconnect(k) PROVE Alone' /\ Named'
  BY <1>1 DEF Connect, Disconnect, NoSession, TypeOK, Alone, Named, InWorld, Active
<1>2. ASSUME NEW k \in Conns, NEW c \in PlayerIds, LoginPlayer(k, c) PROVE Alone' /\ Named'
  BY <1>2 DEF LoginPlayer, Discipline, TypeOK, Session, Alone, Named, InWorld, Active
<1>3. ASSUME NEW k \in Conns, NEW c \in PlayerIds, LoginGateway(k, c) PROVE Alone' /\ Named'
  <2> DEFINE r == [sess[k] EXCEPT !.player_id = c, !.in_world = TRUE]
  <2>1. r \in Session /\ r.player_id = c /\ r.in_world = TRUE
    BY DEF TypeOK, Session
  <2>2. PICK q \in LoadRow(r, c) : sess' = [sess EXCEPT ![k] = q]
    BY <1>3 DEF LoginGateway
  <2>3. q.player_id = r.player_id /\ q.in_world = r.in_world
    BY <2>1, LoadTyped
  <2>4. /\ sess'[k].player_id = c
        /\ \A j \in Conns \ {k} : sess'[j] = sess[j]
    BY <2>1, <2>2, <2>3 DEF TypeOK
  <2>5. InWorld(c) \subseteq {k} /\ entered' = [entered EXCEPT ![k] = c]
    BY <1>3 DEF LoginGateway, Discipline
  <2>6. Named'
    BY <2>4, <2>5 DEF TypeOK, Named, Active
  <2>7. Alone'
    BY <2>4, <2>5 DEF Alone, InWorld
  <2> QED
    BY <2>6, <2>7
<1>4. ASSUME NEW k \in Conns, NEW p \in Places, Move(k, p) \/ Teleport(k, p)
      PROVE  Alone' /\ Named'
  <2>1. sess' = [sess EXCEPT ![k].place = p] /\ UNCHANGED entered
    BY <1>4 DEF Move, Teleport
  <2>2. \A j \in Conns : UNCHANGED Standing(j)
    BY <2>1 DEF TypeOK, Session, Standing
  <2> QED
    BY <2>1, <2>2, SameStanding
<1>5. ASSUME NEW k \in Conns, NEW n \in {1, -1}, GrantMoney(k, n) PROVE Alone' /\ Named'
  <2>1. sess' = [sess EXCEPT ![k].purse = sess[k].purse + n] /\ UNCHANGED entered
    BY <1>5 DEF GrantMoney
  <2>2. \A j \in Conns : UNCHANGED Standing(j)
    BY <2>1 DEF TypeOK, Session, Standing
  <2> QED
    BY <2>1, <2>2, SameStanding
<1>6. ASSUME NEW k \in Conns, NEW item \in Items, NEW n \in 1..MaxCount,
             NEW auto \in BOOLEAN, GiveItem(k, item, n, auto)
      PROVE  Alone' /\ Named'
  <2>1. \/ UNCHANGED sess
        \/ sess' = [sess EXCEPT ![k].item_uid = sess[k].item_uid + 1]
    BY <1>6 DEF GiveItem
  <2>2. \A j \in Conns : UNCHANGED Standing(j)
    BY <2>1 DEF TypeOK, Session, Standing
  <2>3. UNCHANGED entered
    BY <1>6 DEF GiveItem
  <2> QED
    BY <2>2, <2>3, SameStanding
<1>7. ASSUME NEW k \in Conns, NEW uid \in 0..MaxItems, EquipWear(k, uid) \/ EquipRemove(k, uid)
      PROVE  Alone' /\ Named'
  BY <1>7 DEF EquipWear, EquipRemove, Alone, Named, InWorld, Active
<1>8. CASE Restart
  BY <1>8 DEF Restart, NoSession, Alone, Named, InWorld, Active
<1>9. CASE UNCHANGED vars
  BY <1>9 DEF vars, Alone, Named, InWorld, Active
<1> QED
  BY <1>1, <1>2, <1>3, <1>4, <1>5, <1>6, <1>7, <1>8, <1>9 DEF Next

\* With that discipline a session in the world is its character's only one.
LEMMA OwnerAlways == ASSUME Discipline PROVE Spec => [](TypeOK /\ RowsAreSaved /\ Alone /\ Named)
<1>1. Init => Alone /\ Named
  BY DEF Init, Alone, Named, InWorld, Active, NoSession
<1>2. TypeOK /\ Alone /\ Named /\ [Next]_vars => (Alone /\ Named)'
  BY OwnerNext
<1> QED
  BY <1>1, <1>2, TypeCorrect, RowsSaved, PTL DEF Spec
-----------------------------------------------------------------------------
\* What save_session writes, and that it writes nothing else.
LEMMA SaveWrites ==
    ASSUME TypeOK, NEW r \in Session, SaveSession(r), NEW c \in Chars
    PROVE  /\ r.player_id = c /\ r.in_world => data'[c].purse = r.purse /\ data'[c].place = r.place
           /\ ~(r.player_id = c /\ r.in_world) => data'[c] = data[c]
<1>1. CASE r.player_id \in Chars /\ r.in_world
  <2>1. data' = [data EXCEPT ![r.player_id].purse = r.purse,
                             ![r.player_id].place = r.place]
    BY <1>1 DEF SaveSession
  <2>2. data[r.player_id] \in Row
    BY <1>1 DEF TypeOK
  <2> QED
    BY <1>1, <2>1, <2>2 DEF TypeOK, Row
<1>2. CASE ~(r.player_id \in Chars /\ r.in_world)
  BY <1>2 DEF SaveSession, TypeOK
<1> QED
  BY <1>1, <1>2

\* Items and equipment are changed in rows; purses and places are not.
LEMMA ItemsOnly ==
    ASSUME TypeOK, NEW k \in Conns,
           \/ \E item \in Items, n \in 1..MaxCount, auto \in BOOLEAN : GiveItem(k, item, n, auto)
           \/ \E uid \in 0..MaxItems : EquipWear(k, uid) \/ EquipRemove(k, uid)
    PROVE  /\ \A c \in Chars : data'[c].purse = data[c].purse /\ data'[c].place = data[c].place
           /\ \A j \in Conns : /\ sess'[j].purse = sess[j].purse /\ sess'[j].place = sess[j].place
                               /\ UNCHANGED Standing(j)
           /\ UNCHANGED <<entered, earned, last>>
<1>1. ASSUME NEW item \in Items, NEW n \in 1..MaxCount, NEW auto \in BOOLEAN,
             GiveItem(k, item, n, auto)
      PROVE  /\ \A c \in Chars : data'[c].purse = data[c].purse /\ data'[c].place = data[c].place
             /\ \A j \in Conns : /\ sess'[j].purse = sess[j].purse /\ sess'[j].place = sess[j].place
                                 /\ UNCHANGED Standing(j)
             /\ UNCHANGED <<entered, earned, last>>
  <2> DEFINE c == sess[k].player_id  uid == sess[k].item_uid + 1
  <2>1. \/ UNCHANGED sess
        \/ sess' = [sess EXCEPT ![k].item_uid = uid]
    BY <1>1 DEF GiveItem
  <2>2. \A j \in Conns : /\ sess'[j].purse = sess[j].purse /\ sess'[j].place = sess[j].place
                         /\ UNCHANGED Standing(j)
    BY <2>1 DEF TypeOK, Session, Standing
  <2>3. \/ c \in Chars /\ AddToStack(c, item, n)
        \/ c \in Chars /\ data' = [data EXCEPT ![c] =
                                      AddCell(@, uid, item, n, item \in Gear /\ auto)]
        \/ UNCHANGED data
    BY <1>1 DEF GiveItem
  <2>4. ASSUME c \in Chars
        PROVE  /\ AddCell(data[c], uid, item, n, item \in Gear /\ auto).purse = data[c].purse
               /\ AddCell(data[c], uid, item, n, item \in Gear /\ auto).place = data[c].place
    BY <2>4 DEF AddCell, Wear, TypeOK, Row
  <2>5. \A d \in Chars : data'[d].purse = data[d].purse /\ data'[d].place = data[d].place
    <3>1. CASE c \in Chars /\ AddToStack(c, item, n)
      BY <3>1 DEF AddToStack, TypeOK, Row
    <3>2. CASE c \in Chars /\ data' = [data EXCEPT ![c] =
                                      AddCell(@, uid, item, n, item \in Gear /\ auto)]
      BY <3>2, <2>4 DEF TypeOK
    <3>3. CASE UNCHANGED data
      BY <3>3
    <3> QED
      BY <2>3, <3>1, <3>2, <3>3
  <2> QED
    BY <1>1, <2>2, <2>5 DEF GiveItem
<1>2. ASSUME NEW uid \in 0..MaxItems, EquipWear(k, uid) \/ EquipRemove(k, uid)
      PROVE  /\ \A c \in Chars : data'[c].purse = data[c].purse /\ data'[c].place = data[c].place
             /\ UNCHANGED <<sess, entered, earned, last>>
  <2> DEFINE c == sess[k].player_id
  <2>1. \/ UNCHANGED data
        \/ c \in Chars /\ \E i \in DOMAIN data[c].items :
               data' = [data EXCEPT ![c] = Wear(@, uid, data[c].items[i].item)]
        \/ c \in Chars /\ data' = [data EXCEPT ![c].equipped = {e \in @ : e.uid # uid}]
    BY <1>2 DEF EquipWear, EquipRemove
  <2>2. \A d \in Chars : data'[d].purse = data[d].purse /\ data'[d].place = data[d].place
    <3>1. CASE UNCHANGED data
      BY <3>1
    <3>2. ASSUME c \in Chars, NEW item,
                 data' = [data EXCEPT ![c] = Wear(@, uid, item)]
          PROVE  \A d \in Chars : data'[d].purse = data[d].purse /\ data'[d].place = data[d].place
      <4>1. data[c] \in Row
        BY <3>2 DEF TypeOK
      <4>2. /\ Wear(data[c], uid, item).purse = data[c].purse
            /\ Wear(data[c], uid, item).place = data[c].place
        BY <4>1 DEF Wear, Row
      <4> QED
        BY <3>2, <4>2 DEF TypeOK
    <3>3. CASE c \in Chars /\ data' = [data EXCEPT ![c].equipped = {e \in @ : e.uid # uid}]
      BY <3>3 DEF TypeOK, Row
    <3> QED
      BY <2>1, <3>1, <3>2, <3>3
  <2> QED
    BY <1>2, <2>2 DEF EquipWear, EquipRemove
<1> QED
  BY <1>1, <1>2 DEF Standing

\* Every purse in a row is all that was given, less all that was paid.
PurseEarned == \A c \in Chars : data[c].purse = earned[c]

LEMMA PurseNext ==
    ASSUME Discipline, TypeOK, RowsAreSaved, Alone, PurseCoherent, PurseEarned, [Next]_vars
    PROVE  PurseCoherent' /\ PurseEarned'
<1>1. ASSUME NEW k \in Conns, Connect(k) PROVE PurseCoherent' /\ PurseEarned'
  BY <1>1 DEF Connect, NoSession, TypeOK, PurseCoherent, PurseEarned, InWorld
<1>2. ASSUME NEW k \in Conns, Disconnect(k) PROVE PurseCoherent' /\ PurseEarned'
  <2>1. sess[k] \in Session /\ SaveSession(sess[k]) /\ sess[k].alive
    BY <1>2 DEF Disconnect, TypeOK
  <2>2. \A c \in Chars : data'[c].purse = data[c].purse
    BY <2>1, SaveWrites DEF PurseCoherent, InWorld
  <2> QED
    BY <1>2, <2>2 DEF Disconnect, NoSession, TypeOK, PurseCoherent, PurseEarned, InWorld
<1>3. ASSUME NEW k \in Conns, NEW c \in PlayerIds, LoginPlayer(k, c)
      PROVE  PurseCoherent' /\ PurseEarned'
  BY <1>3 DEF LoginPlayer, Discipline, TypeOK, Session, PurseCoherent, PurseEarned, InWorld
<1>4. ASSUME NEW k \in Conns, NEW c \in PlayerIds, LoginGateway(k, c)
      PROVE  PurseCoherent' /\ PurseEarned'
  <2> DEFINE r == [sess[k] EXCEPT !.player_id = c, !.in_world = TRUE]
  <2>1. r \in Session /\ r.player_id = c
    BY DEF TypeOK, Session
  <2>2. PICK q \in LoadRow(r, c) : sess' = [sess EXCEPT ![k] = q]
    BY <1>4 DEF LoginGateway
  <2>3. q.player_id = c /\ (c \in Chars => q.purse = data[c].purse)
    BY <2>1, LoadTyped
  <2>4. UNCHANGED <<data, earned>>
    BY <1>4 DEF LoginGateway
  <2> QED
    BY <2>2, <2>3, <2>4 DEF TypeOK, PurseCoherent, PurseEarned, InWorld
<1>5. ASSUME NEW k \in Conns, NEW p \in Places, Move(k, p) PROVE PurseCoherent' /\ PurseEarned'
  BY <1>5 DEF Move, TypeOK, Session, PurseCoherent, PurseEarned, InWorld
<1>6. ASSUME NEW k \in Conns, NEW p \in Places, Teleport(k, p)
      PROVE  PurseCoherent' /\ PurseEarned'
  <2>1. sess' = [sess EXCEPT ![k].place = p] /\ UNCHANGED earned /\ SaveSession(sess'[k]) /\ Active(k)
    BY <1>6 DEF Teleport
  <2>2. sess'[k] \in Session /\ sess'[k].purse = sess[k].purse
        /\ \A j \in Conns : UNCHANGED Standing(j) /\ sess'[j].purse = sess[j].purse
    BY <2>1 DEF TypeOK, Session, Standing
  <2>3. ASSUME NEW c \in Chars PROVE data'[c].purse = data[c].purse
    <3>1. CASE sess[k].player_id = c
      <4>1. data'[c].purse = sess[k].purse
        BY <2>1, <2>2, <3>1, SaveWrites DEF Active, Standing
      <4> QED
        BY <2>1, <3>1, <4>1 DEF PurseCoherent, InWorld, Active
    <3>2. CASE sess[k].player_id # c
      BY <2>1, <2>2, <3>2, SaveWrites DEF Standing
    <3> QED BY <3>1, <3>2
  <2> QED
    BY <2>1, <2>2, <2>3 DEF PurseCoherent, PurseEarned, InWorld, Standing
<1>7. ASSUME NEW k \in Conns, NEW n \in {1, -1}, GrantMoney(k, n)
      PROVE  PurseCoherent' /\ PurseEarned'
  <2> DEFINE d == sess[k].player_id
  <2>1. sess' = [sess EXCEPT ![k].purse = sess[k].purse + n] /\ SaveSession(sess'[k]) /\ Active(k)
        /\ earned' = IF d \in Chars THEN [earned EXCEPT ![d] = earned[d] + n] ELSE earned
    BY <1>7 DEF GrantMoney
  <2>2. /\ sess'[k] \in Session /\ sess'[k].purse = sess[k].purse + n
        /\ \A j \in Conns : UNCHANGED Standing(j)
        /\ \A j \in Conns \ {k} : sess'[j].purse = sess[j].purse
    BY <1>7 DEF GrantMoney, TypeOK, Session, Standing
  <2>3. \A c \in Chars : c # d => data'[c].purse = data[c].purse
    BY <2>2, <2>1, SaveWrites DEF Standing
  <2>4. d \in Chars => data'[d].purse = sess[k].purse + n
    BY <2>2, <2>1, SaveWrites DEF Standing, Active
  <2>5. d \in Chars => sess[k].purse = data[d].purse
    BY <2>1 DEF Active, InWorld, PurseCoherent
  <2>6. PurseEarned'
    BY <2>1, <2>3, <2>4, <2>5 DEF PurseEarned, TypeOK
  <2>7. \A c \in Chars : InWorld(c)' = InWorld(c)
    BY <2>2 DEF InWorld, Standing
  <2>8. d \in Chars => \A j \in InWorld(d) : j = k
    BY <2>1 DEF Alone, InWorld, Active, PlayerIds
  <2> QED
    BY <2>2, <2>3, <2>4, <2>6, <2>7, <2>8 DEF PurseCoherent, InWorld
<1>8. ASSUME NEW k \in Conns,
             \/ \E item \in Items, n \in 1..MaxCount, auto \in BOOLEAN : GiveItem(k, item, n, auto)
             \/ \E uid \in 0..MaxItems : EquipWear(k, uid) \/ EquipRemove(k, uid)
      PROVE  PurseCoherent' /\ PurseEarned'
  BY <1>8, ItemsOnly DEF PurseCoherent, PurseEarned, InWorld, Standing
<1>9. CASE Restart
  BY <1>9 DEF Restart, NoSession, RowsAreSaved, PurseCoherent, PurseEarned, InWorld
<1>10. CASE UNCHANGED vars
  BY <1>10 DEF vars, PurseCoherent, PurseEarned, InWorld
<1> QED
  BY <1>1, <1>2, <1>3, <1>4, <1>5, <1>6, <1>7, <1>8, <1>9, <1>10 DEF Next

\* A disciplined client's purse is never stale in a session ...
THEOREM PurseNeverStale == ASSUME Discipline PROVE Spec => [](PurseCoherent /\ PurseEarned)
<1>1. Init => PurseCoherent /\ PurseEarned
  BY DEF Init, PurseCoherent, PurseEarned, InWorld, NoSession, NewRow
<1>2. TypeOK /\ RowsAreSaved /\ Alone /\ PurseCoherent /\ PurseEarned /\ [Next]_vars
        => (PurseCoherent /\ PurseEarned)'
  BY PurseNext
<1> QED
  BY <1>1, <1>2, OwnerAlways, PTL DEF Spec

\* ... and no reconnect, second character or restart takes a reward or a
\* purchase back: the purse on disk is all that was given less all that was paid.
THEOREM NothingIsUndone == ASSUME Discipline PROVE Spec => []NothingUndone
<1>1. PurseEarned /\ RowsAreSaved => NothingUndone
  BY DEF PurseEarned, RowsAreSaved, NothingUndone
<1> QED
  BY <1>1, PurseNeverStale, RowsSaved, PTL
-----------------------------------------------------------------------------
\* "Never overwrite from a non-world session": with a disciplined client, only a
\* connection that entered the world as that character changes its saved purse
\* or place.
THEOREM OwnSessionOnly == ASSUME Discipline PROVE Spec => OnlyItsOwnSession
<1> DEFINE Kept(c) == <<data'[c].purse, data'[c].place>> = <<data[c].purse, data[c].place>>
           ByItsOwn(c) == \E k \in InWorld(c) : entered[k] = c
<1>1. ASSUME TypeOK, RowsAreSaved, Named, [Next]_vars, NEW c \in Chars
      PROVE  Kept(c) \/ ByItsOwn(c)
  <2>1. ASSUME NEW r \in Session, SaveSession(r), NEW k \in Conns,
               sess[k].alive, r.in_world = sess[k].in_world, r.player_id = sess[k].player_id
        PROVE  Kept(c) \/ ByItsOwn(c)
    BY <2>1, <1>1, SaveWrites DEF Named, Active, InWorld
  <2>2. ASSUME NEW k \in Conns, Connect(k) \/ Disconnect(k) PROVE Kept(c) \/ ByItsOwn(c)
    BY <2>1, <2>2, <1>1 DEF Connect, Disconnect, TypeOK
  <2>3. ASSUME NEW k \in Conns, NEW d \in PlayerIds, LoginPlayer(k, d) \/ LoginGateway(k, d)
        PROVE  Kept(c)
    BY <2>3 DEF LoginPlayer, LoginGateway
  <2>4. ASSUME NEW k \in Conns, NEW p \in Places, Move(k, p) \/ Teleport(k, p)
        PROVE  Kept(c) \/ ByItsOwn(c)
    <3>1. CASE Move(k, p)
      BY <3>1 DEF Move
    <3>2. CASE Teleport(k, p)
      <4>1. /\ sess'[k] \in Session /\ sess'[k].in_world = sess[k].in_world
            /\ sess'[k].player_id = sess[k].player_id
        BY <1>1, <3>2 DEF Teleport, TypeOK, Session
      <4> QED
        BY <2>1, <3>2, <4>1 DEF Teleport, Active
    <3> QED BY <2>4, <3>1, <3>2
  <2>5. ASSUME NEW k \in Conns, NEW n \in {1, -1}, GrantMoney(k, n) PROVE Kept(c) \/ ByItsOwn(c)
    <3>1. /\ sess'[k] \in Session /\ sess'[k].in_world = sess[k].in_world
          /\ sess'[k].player_id = sess[k].player_id
      BY <1>1, <2>5 DEF GrantMoney, TypeOK, Session
    <3> QED
      BY <2>1, <2>5, <3>1 DEF GrantMoney, Active
  <2>6. ASSUME NEW k \in Conns,
               \/ \E item \in Items, n \in 1..MaxCount, auto \in BOOLEAN : GiveItem(k, item, n, auto)
               \/ \E uid \in 0..MaxItems : EquipWear(k, uid) \/ EquipRemove(k, uid)
        PROVE  Kept(c)
    BY <1>1, <2>6, ItemsOnly
  <2>7. CASE Restart \/ UNCHANGED vars
    BY <1>1, <2>7 DEF Restart, RowsAreSaved, vars
  <2> QED
    BY <1>1, <2>2, <2>3, <2>4, <2>5, <2>6, <2>7 DEF Next
<1>2. TypeOK /\ RowsAreSaved /\ Named /\ [Next]_vars
        => [\A c \in Chars :
               <<data'[c].purse, data'[c].place>> # <<data[c].purse, data[c].place>>
               => \E k \in InWorld(c) : entered[k] = c]_vars
  BY <1>1
<1> QED
  BY <1>2, OwnerAlways, PTL DEF Spec, OnlyItsOwnSession
-----------------------------------------------------------------------------
\* Where a session in the world is, is where its character last was.
PlaceCached == \A c \in Chars : \A k \in InWorld(c) : sess[k].place = last[c]

LEMMA PlaceNext ==
    ASSUME Discipline, TypeOK, RowsAreSaved, Alone, PlaceCached, LogoutPlaceKept, [Next]_vars
    PROVE  PlaceCached' /\ LogoutPlaceKept'
<1>1. ASSUME NEW k \in Conns, Connect(k) PROVE PlaceCached' /\ LogoutPlaceKept'
  BY <1>1 DEF Connect, NoSession, TypeOK, PlaceCached, LogoutPlaceKept, InWorld
<1>2. ASSUME NEW k \in Conns, Disconnect(k) PROVE PlaceCached' /\ LogoutPlaceKept'
  <2>1. /\ sess[k] \in Session /\ SaveSession(sess[k]) /\ sess[k].alive
        /\ sess' = [sess EXCEPT ![k] = NoSession] /\ last' = last
    BY <1>2 DEF Disconnect, TypeOK
  <2>2. \A c \in Chars : InWorld(c)' = InWorld(c) \ {k}
    BY <2>1 DEF InWorld, NoSession, TypeOK
  <2>3. PlaceCached'
    BY <2>1, <2>2 DEF PlaceCached, InWorld, TypeOK
  <2>4. ASSUME NEW c \in Chars, InWorld(c)' = {} PROVE data'[c].place = last[c]
    <3>1. CASE k \in InWorld(c)
      BY <2>1, <3>1, SaveWrites DEF InWorld, PlaceCached
    <3>2. CASE k \notin InWorld(c)
      <4>1. InWorld(c) = {} /\ data'[c] = data[c]
        BY <2>1, <2>2, <2>4, <3>2, SaveWrites DEF InWorld
      <4> QED
        BY <4>1 DEF LogoutPlaceKept
    <3> QED BY <3>1, <3>2
  <2> QED
    BY <2>1, <2>3, <2>4 DEF LogoutPlaceKept
<1>3. ASSUME NEW k \in Conns, NEW c \in PlayerIds, LoginPlayer(k, c)
      PROVE  PlaceCached' /\ LogoutPlaceKept'
  BY <1>3 DEF LoginPlayer, Discipline, TypeOK, Session, PlaceCached, LogoutPlaceKept, InWorld
<1>4. ASSUME NEW k \in Conns, NEW c \in PlayerIds, LoginGateway(k, c)
      PROVE  PlaceCached' /\ LogoutPlaceKept'
  <2> DEFINE r == [sess[k] EXCEPT !.player_id = c, !.in_world = TRUE]
  <2>1. r \in Session /\ r.player_id = c /\ r.in_world = TRUE /\ r.alive
    BY <1>4 DEF LoginGateway, TypeOK, Session
  <2>2. PICK q \in LoadRow(r, c) :
            /\ sess' = [sess EXCEPT ![k] = q]
            /\ last' = IF c \in Chars THEN [last EXCEPT ![c] = q.place] ELSE last
    BY <1>4 DEF LoginGateway
  <2>3. q.player_id = c /\ q.in_world /\ q.alive
    BY <2>1, LoadTyped
  <2>4. UNCHANGED data /\ InWorld(c) \subseteq {k} /\ ~sess[k].in_world
    BY <1>4 DEF LoginGateway, Discipline
  <2>5. \A d \in Chars : InWorld(d)' = IF d = c THEN {k} ELSE InWorld(d)
    BY <2>2, <2>3, <2>4 DEF TypeOK, InWorld
  <2>6. \A d \in Chars : d # c => last'[d] = last[d] /\ k \notin InWorld(d)
    BY <2>2, <2>4 DEF TypeOK, InWorld
  <2>7. c \in Chars => last'[c] = q.place
    BY <2>2 DEF TypeOK
  <2>8. sess'[k].place = q.place /\ \A j \in Conns \ {k} : sess'[j].place = sess[j].place
    BY <2>2 DEF TypeOK
  <2>9. PlaceCached'
    BY <2>5, <2>6, <2>7, <2>8 DEF PlaceCached, InWorld
  <2> QED
    BY <2>4, <2>5, <2>6, <2>9 DEF LogoutPlaceKept
<1>5. ASSUME NEW k \in Conns, NEW p \in Places, Move(k, p) \/ Teleport(k, p)
      PROVE  PlaceCached' /\ LogoutPlaceKept'
  <2> DEFINE d == sess[k].player_id
  <2>1. /\ sess' = [sess EXCEPT ![k].place = p] /\ last' = SeenAt(k, p) /\ Active(k)
        /\ UNCHANGED data \/ SaveSession(sess'[k])
    BY <1>5 DEF Move, Teleport
  <2>2. /\ sess'[k] \in Session /\ sess'[k].place = p
        /\ \A j \in Conns : UNCHANGED Standing(j) /\ (j # k => sess'[j].place = sess[j].place)
    BY <2>1 DEF TypeOK, Session, Standing
  <2>3. \A c \in Chars : InWorld(c)' = InWorld(c) /\ (c = d => InWorld(c) = {k})
                         /\ (c # d => k \notin InWorld(c))
    BY <2>1, <2>2 DEF InWorld, Standing, Active, Alone, PlayerIds
  <2>4. \A c \in Chars : last'[c] = IF c = d THEN p ELSE last[c]
    BY <2>1 DEF SeenAt, TypeOK
  <2>5. \A c \in Chars : c # d => data'[c] = data[c]
    BY <2>1, <2>2, SaveWrites DEF Standing
  <2>6. PlaceCached'
    BY <2>2, <2>3, <2>4 DEF PlaceCached, InWorld
  <2> QED
    BY <2>3, <2>4, <2>5, <2>6 DEF LogoutPlaceKept
<1>6. ASSUME NEW k \in Conns, NEW n \in {1, -1}, GrantMoney(k, n)
      PROVE  PlaceCached' /\ LogoutPlaceKept'
  <2> DEFINE d == sess[k].player_id
  <2>1. sess' = [sess EXCEPT ![k].purse = sess[k].purse + n] /\ SaveSession(sess'[k])
        /\ UNCHANGED last /\ Active(k)
    BY <1>6 DEF GrantMoney
  <2>2. /\ sess'[k] \in Session
        /\ \A j \in Conns : UNCHANGED Standing(j) /\ sess'[j].place = sess[j].place
    BY <1>6, <2>1 DEF GrantMoney, TypeOK, Session, Standing
  <2>3. \A c \in Chars : InWorld(c)' = InWorld(c) /\ (InWorld(c) = {} => c # d)
    BY <2>1, <2>2 DEF InWorld, Standing, Active
  <2>4. \A c \in Chars : c # d => data'[c] = data[c]
    BY <2>1, <2>2, SaveWrites DEF Standing
  <2> QED
    BY <2>1, <2>2, <2>3, <2>4 DEF PlaceCached, LogoutPlaceKept, InWorld
<1>7. ASSUME NEW k \in Conns,
             \/ \E item \in Items, n \in 1..MaxCount, auto \in BOOLEAN : GiveItem(k, item, n, auto)
             \/ \E uid \in 0..MaxItems : EquipWear(k, uid) \/ EquipRemove(k, uid)
      PROVE  PlaceCached' /\ LogoutPlaceKept'
  BY <1>7, ItemsOnly DEF PlaceCached, LogoutPlaceKept, InWorld, Standing
<1>8. CASE Restart
  BY <1>8 DEF Restart, NoSession, TypeOK, PlaceCached, LogoutPlaceKept, InWorld
<1>9. CASE UNCHANGED vars
  BY <1>9 DEF vars, PlaceCached, LogoutPlaceKept, InWorld
<1> QED
  BY <1>1, <1>2, <1>3, <1>4, <1>5, <1>6, <1>7, <1>8, <1>9 DEF Next

\* However a disciplined client's connections end, a character that is not in the
\* world is saved where it last was, though on_move only caches the place
\* (save_session in the finally block of handle_conn).
THEOREM PlaceIsKept == ASSUME Discipline PROVE Spec => []LogoutPlaceKept
<1>1. Init => PlaceCached /\ LogoutPlaceKept
  BY DEF Init, PlaceCached, LogoutPlaceKept, InWorld, NoSession, NewRow
<1>2. TypeOK /\ RowsAreSaved /\ Alone /\ PlaceCached /\ LogoutPlaceKept /\ [Next]_vars
        => (PlaceCached /\ LogoutPlaceKept)'
  BY PlaceNext
<1> QED
  BY <1>1, <1>2, OwnerAlways, PTL DEF Spec
-----------------------------------------------------------------------------
\* Two rows with the same uids, cell for cell.
SameUids(r, q) == /\ DOMAIN r.items = DOMAIN q.items
                  /\ \A i \in DOMAIN q.items : r.items[i].uid = q.items[i].uid

\* No two cells of a row have the same uid.
NoTwo(row) == \A i, j \in DOMAIN row.items : row.items[i].uid = row.items[j].uid => i = j

LEMMA SameUidsKeeps ==
    ASSUME NEW r, NEW q, SameUids(r, q)
    PROVE  Uids(r) = Uids(q) /\ (NoTwo(q) => NoTwo(r))
BY DEF SameUids, NoTwo, Uids

\* give_item's new cell adds its uid to the row's, and no other.
LEMMA AddCellUids ==
    ASSUME NEW row \in Row, NEW uid \in Nat, NEW item \in Items, NEW n \in Nat,
           NEW worn \in BOOLEAN
    PROVE  /\ Uids(AddCell(row, uid, item, n, worn)) = Uids(row) \cup {uid}
           /\ uid \notin Uids(row) /\ NoTwo(row) => NoTwo(AddCell(row, uid, item, n, worn))
<1> DEFINE cell == [uid |-> uid, item |-> item, count |-> n, bag |-> PosFor(item, worn)]
           held == [row EXCEPT !.items = Append(@, cell)]
           last1 == Len(row.items) + 1
<1>1. cell \in Cell /\ row.items \in Seq(Cell)
  BY DEF Cell, PosFor, Bags, Row
<1>2. /\ DOMAIN row.items = 1..Len(row.items) /\ Len(row.items) \in Nat
      /\ DOMAIN Append(row.items, cell) = 1..last1
      /\ \A i \in DOMAIN row.items : Append(row.items, cell)[i] = row.items[i]
      /\ Append(row.items, cell)[last1] = cell
  BY <1>1, AppendProperties
<1>3. AddCell(row, uid, item, n, worn).items = Append(row.items, cell)
  BY DEF AddCell, Wear, Row
<1>4. /\ DOMAIN AddCell(row, uid, item, n, worn).items = DOMAIN row.items \cup {last1}
      /\ last1 \notin DOMAIN row.items
      /\ \A i \in DOMAIN row.items :
             AddCell(row, uid, item, n, worn).items[i].uid = row.items[i].uid
      /\ AddCell(row, uid, item, n, worn).items[last1].uid = uid
  BY <1>2, <1>3
<1> HIDE DEF cell, held, last1
<1> QED
  BY <1>4 DEF Uids, NoTwo

\* The next uid of a session in the world is past all those of its row.
UidsPast == \A c \in Chars : \A k \in InWorld(c) : \A u \in Uids(data[c]) : u <= sess[k].item_uid
UidsInv  == UidsPast /\ \A c \in Chars : NoTwo(data[c])

\* A step that keeps all uids, and who is in the world or who leaves it.
LEMMA UidsKept ==
    ASSUME UidsInv, \A c \in Chars : SameUids(data'[c], data[c]),
           \A c \in Chars : \A k \in InWorld(c)' :
               k \in InWorld(c) /\ sess'[k].item_uid = sess[k].item_uid
    PROVE  UidsInv'
BY SameUidsKeeps DEF UidsInv, UidsPast

LEMMA UidsNext ==
    ASSUME Discipline, TypeOK, RowsAreSaved, Alone, UidsInv, [Next]_vars
    PROVE  UidsInv'
<1>1. ASSUME NEW r \in Session, SaveSession(r) PROVE \A c \in Chars : SameUids(data'[c], data[c])
  BY <1>1, SaveTyped DEF SameUids
<1>2. ASSUME NEW k \in Conns, Connect(k) \/ Disconnect(k) PROVE UidsInv'
  <2>1. \A c \in Chars : SameUids(data'[c], data[c])
    BY <1>1, <1>2 DEF Connect, Disconnect, TypeOK, SameUids
  <2>2. sess'[k].in_world = FALSE /\ \A j \in Conns \ {k} : sess'[j] = sess[j]
    BY <1>2 DEF Connect, Disconnect, TypeOK, NoSession
  <2> QED
    BY <2>1, <2>2, UidsKept DEF InWorld
<1>3. ASSUME NEW k \in Conns, NEW c \in PlayerIds, LoginPlayer(k, c) PROVE UidsInv'
  <2>1. /\ sess'[k].in_world = FALSE /\ \A j \in Conns \ {k} : sess'[j] = sess[j]
        /\ UNCHANGED data
    BY <1>3 DEF LoginPlayer, Discipline, TypeOK, Session
  <2> QED
    BY <2>1, UidsKept DEF InWorld, SameUids
<1>4. ASSUME NEW k \in Conns, NEW c \in PlayerIds, LoginGateway(k, c) PROVE UidsInv'
  <2> DEFINE r == [sess[k] EXCEPT !.player_id = c, !.in_world = TRUE]
  <2>1. r \in Session /\ r.player_id = c
    BY DEF TypeOK, Session
  <2>2. PICK q \in LoadRow(r, c) : sess' = [sess EXCEPT ![k] = q]
    BY <1>4 DEF LoginGateway
  <2>3. q.player_id = c /\ (c \in Chars => \A u \in Uids(data[c]) : u <= q.item_uid)
    BY <2>1, LoadTyped
  <2>4. UNCHANGED data
    BY <1>4 DEF LoginGateway
  <2>5. sess'[k] = q /\ \A j \in Conns \ {k} : sess'[j] = sess[j]
    BY <2>2 DEF TypeOK
  <2> QED
    BY <2>3, <2>4, <2>5 DEF UidsInv, UidsPast, InWorld
<1>5. ASSUME NEW k \in Conns, NEW p \in Places, Move(k, p) \/ Teleport(k, p) PROVE UidsInv'
  <2>1. sess' = [sess EXCEPT ![k].place = p]
    BY <1>5 DEF Move, Teleport
  <2>2. \A j \in Conns : UNCHANGED Standing(j) /\ sess'[j].item_uid = sess[j].item_uid
    BY <2>1 DEF TypeOK, Session, Standing
  <2>3. sess'[k] \in Session
    BY <2>1 DEF TypeOK, Session
  <2>4. \A c \in Chars : SameUids(data'[c], data[c])
    BY <1>1, <1>5, <2>3 DEF Move, Teleport, SameUids
  <2> QED
    BY <2>2, <2>4, UidsKept DEF InWorld, Standing
<1>6. ASSUME NEW k \in Conns, NEW n \in {1, -1}, GrantMoney(k, n) PROVE UidsInv'
  <2>1. sess' = [sess EXCEPT ![k].purse = sess[k].purse + n] /\ sess[k].purse + n \in 0..MaxPurse
    BY <1>6 DEF GrantMoney
  <2>2. \A j \in Conns : UNCHANGED Standing(j) /\ sess'[j].item_uid = sess[j].item_uid
    BY <2>1 DEF TypeOK, Session, Standing
  <2>3. sess'[k] \in Session
    BY <2>1 DEF TypeOK, Session
  <2>4. \A c \in Chars : SameUids(data'[c], data[c])
    BY <1>1, <1>6, <2>3 DEF GrantMoney
  <2> QED
    BY <2>2, <2>4, UidsKept DEF InWorld, Standing
<1>7. ASSUME NEW k \in Conns, NEW item \in Items, NEW n \in 1..MaxCount,
             NEW auto \in BOOLEAN, GiveItem(k, item, n, auto)
      PROVE  UidsInv'
  <2> DEFINE d == sess[k].player_id  uid == sess[k].item_uid + 1
  <2>1. \A j \in Conns : UNCHANGED Standing(j)
    BY <1>7, ItemsOnly
  <2>2. CASE d \in Chars /\ AddToStack(d, item, n) /\ UNCHANGED sess
    <3>1. PICK i \in DOMAIN data[d].items :
              data' = [data EXCEPT ![d].items[i].count = @ + n]
      BY <2>2 DEF AddToStack, Stacks
    <3>2. data[d] \in Row /\ data[d].items \in Seq(Cell) /\ data[d].items[i] \in Cell
      BY <2>2 DEF TypeOK, Row
    <3>3. \A c \in Chars : SameUids(data'[c], data[c])
      BY <2>2, <3>1, <3>2 DEF TypeOK, Row, Cell, SameUids
    <3> QED
      BY <2>2, <3>3, UidsKept DEF InWorld
  <2>3. CASE /\ d \in Chars /\ sess' = [sess EXCEPT ![k].item_uid = uid]
             /\ data' = [data EXCEPT ![d] = AddCell(@, uid, item, n, item \in Gear /\ auto)]
    <3>1. uid \in Nat /\ n \in Nat /\ data[d] \in Row /\ sess[k].item_uid \in Nat
      BY <2>3, SessionsAssumption DEF TypeOK, Session
    <3>2. k \in InWorld(d) /\ \A j \in InWorld(d) : j = k
      BY <1>7, <2>3 DEF GiveItem, Active, InWorld, Alone, PlayerIds
    <3>3. \A u \in Uids(data[d]) : u <= sess[k].item_uid
      BY <2>3, <3>2 DEF UidsInv, UidsPast
    <3>4. uid \notin Uids(data[d])
      BY <3>1, <3>3
    <3>5. /\ Uids(data'[d]) = Uids(data[d]) \cup {uid} /\ NoTwo(data'[d])
          /\ \A c \in Chars : c # d => data'[c] = data[c]
      BY <2>3, <3>1, <3>4, AddCellUids DEF UidsInv, TypeOK
    <3>6. sess'[k].item_uid = uid /\ \A j \in Conns \ {k} : sess'[j] = sess[j]
      BY <2>3 DEF TypeOK, Session
    <3>7. \A u \in Uids(data[d]) : u \in Nat
      <4>1. \A i \in DOMAIN data[d].items : data[d].items[i] \in Cell
        BY <3>1 DEF Row
      <4> QED
        BY <4>1 DEF Cell, Uids
    <3>8. \A u \in Uids(data'[d]) : u <= sess'[k].item_uid
      BY <3>1, <3>3, <3>5, <3>6, <3>7
    <3>9. ASSUME NEW c \in Chars, NEW j \in InWorld(c)', NEW u \in Uids(data'[c])
          PROVE  u <= sess'[j].item_uid
      <4>1. j \in InWorld(c)
        BY <2>1 DEF InWorld, Standing
      <4>2. CASE c = d
        BY <3>2, <3>8, <4>1, <4>2
      <4>3. CASE c # d
        BY <3>2, <3>5, <3>6, <4>1, <4>3 DEF UidsInv, UidsPast, InWorld
      <4> QED BY <4>2, <4>3
    <3> QED
      BY <3>5, <3>9 DEF UidsInv, UidsPast
  <2>4. CASE /\ d \notin Chars /\ sess' = [sess EXCEPT ![k].item_uid = uid] /\ UNCHANGED data
    <3>1. \A j \in Conns \ {k} : sess'[j] = sess[j]
      BY <2>4 DEF TypeOK
    <3> QED
      BY <2>1, <2>4, <3>1, UidsKept DEF InWorld, Standing, SameUids
  <2> QED
    BY <1>7, <2>2, <2>3, <2>4 DEF GiveItem
<1>8. ASSUME NEW k \in Conns, NEW uid \in 0..MaxItems, EquipWear(k, uid) \/ EquipRemove(k, uid)
      PROVE  UidsInv'
  <2> DEFINE d == sess[k].player_id
  <2>1. /\ UNCHANGED sess /\ d \in Chars
        /\ \/ UNCHANGED data
           \/ \E i : data' = [data EXCEPT ![d] = Wear(@, uid, data[d].items[i].item)]
           \/ data' = [data EXCEPT ![d].equipped = {e \in @ : e.uid # uid}]
    BY <1>8 DEF EquipWear, EquipRemove
  <2>2. data[d] \in Row /\ \A item : Wear(data[d], uid, item).items = data[d].items
    BY <2>1 DEF Wear, TypeOK, Row
  <2>3. \A c \in Chars : data'[c].items = data[c].items
    <3>1. \A c \in Chars : c # d => data'[c] = data[c]
      BY <2>1 DEF TypeOK
    <3>2. \/ data'[d] = data[d]
          \/ \E i : data'[d] = Wear(data[d], uid, data[d].items[i].item)
          \/ data'[d] = [data[d] EXCEPT !.equipped = {e \in data[d].equipped : e.uid # uid}]
      BY <2>1 DEF TypeOK
    <3>3. data'[d].items = data[d].items
      BY <2>2, <3>2 DEF Row
    <3> QED BY <3>1, <3>3
  <2> QED
    BY <2>1, <2>3, UidsKept DEF InWorld, SameUids
<1>9. CASE Restart
  BY <1>9, UidsKept DEF Restart, RowsAreSaved, NoSession, InWorld, SameUids
<1>10. CASE UNCHANGED vars
  BY <1>10, UidsKept DEF vars, InWorld, SameUids
<1> QED
  BY <1>2, <1>3, <1>4, <1>5, <1>6, <1>7, <1>8, <1>9, <1>10 DEF Next

\* With a disciplined client no two cells of a character have the same uid, across
\* reconnects and restarts (item_uid is read back from the row by
\* on_login_gateway).  With Takeover they may: see the run sessions_takeover_uids.
THEOREM UidsAreUnique == ASSUME Discipline PROVE Spec => []UidsUnique
<1>1. Init => UidsInv
  BY DEF Init, UidsInv, UidsPast, NoTwo, Uids, InWorld, NoSession, NewRow
<1>2. TypeOK /\ RowsAreSaved /\ Alone /\ UidsInv /\ [Next]_vars => UidsInv'
  BY UidsNext
<1>3. UidsInv => UidsUnique
  BY DEF UidsInv, NoTwo, UidsUnique
<1> QED
  BY <1>1, <1>2, <1>3, OwnerAlways, PTL DEF Spec
=============================================================================
