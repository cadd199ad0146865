----------------------------- MODULE SaveProofs -----------------------------
(***************************************************************************)
(* What saves make safe: the safety invariants of Shop, whose handler      *)
(* saves three times, and below them those of Storage, which is a save     *)
(* seen from inside, with the abstract store it implements.  The two share *)
(* no variable.                                                            *)
(*                                                                         *)
(* Shop is taken for any goods, prices, limits and funds, any number of    *)
(* failures and any of the places where they strike.  Inductive are not    *)
(* its invariants but their counterparts that know, in the middle of an    *)
(* order, what it still owes and what it has not counted yet.              *)
(*                                                                         *)
(* Storage is taken for any accounts, ids, revisions and number of         *)
(* crashes.  AckedKept is not inductive: one also has to know that the     *)
(* image in the temporary file is the one in memory when it is renamed,    *)
(* and that accounts.json is never torn, so that a restart reads it.       *)
(***************************************************************************)
EXTENDS Shop, Storage, TLAPS
-----------------------------------------------------------------------------
(* Shop. *)

\* What the order under way has paid for and not got, got and not counted.
Owed(m)      == IF pc = "pay" /\ order.mtype = m THEN Cost(order) ELSE 0
Uncounted(g) == IF pc = "give" /\ order.good = g THEN order.count ELSE 0
Coming(g)    == IF pc \in {"pay", "give"} /\ order.good = g THEN order.count ELSE 0

PurseTrue == /\ online => purse = row.money
             /\ pc # "idle" => online

Solvent == /\ \A m \in Money : row.money[m] + row.worth[m] + Owed(m) <= Funds[m]
           /\ \A m \in Money : disk.money[m] + disk.worth[m] <= Funds[m]

Counting == /\ \A g \in Listed : row.bought[g] + Uncounted(g) <= row.held[g]
            /\ \A g \in Listed : disk.bought[g] <= disk.held[g]

Limited == \A g \in Goods : Limit[g] > 0 =>
               /\ row.bought[g] + Coming(g) <= Limit[g]
               /\ disk.bought[g] <= Limit[g]

Exact == faults = 0 =>
    /\ \A m \in Money : row.money[m] + row.worth[m] + Owed(m) = Funds[m]
    /\ \A g \in Listed : row.bought[g] + Uncounted(g) = row.held[g]
    /\ pc = "idle" => disk = row

IInv == TypeOK /\ PurseTrue /\ Solvent /\ Counting /\ Limited /\ Exact

LEMMA CostType == ASSUME NEW o \in Orders PROVE Cost(o) \in Nat
<1>1. Price[o.good] \in Nat /\ o.count \in Nat
    BY ShopAssumption DEF Orders
<1> QED BY <1>1 DEF Cost

\* give_item keeps the row's type, and adds the goods and their worth.
LEMMA GivenRow ==
    ASSUME NEW r \in Row, NEW o \in Orders
    PROVE  /\ Given(r, o) \in Row
           /\ Given(r, o).money = r.money /\ Given(r, o).bought = r.bought
           /\ \A m \in Money : Given(r, o).worth[m] =
                  r.worth[m] + (IF o.mtype = m THEN Cost(o) ELSE 0)
           /\ \A g \in Listed : Given(r, o).held[g] =
                  r.held[g] + (IF o.good = g THEN o.count ELSE 0)
<1>1. Cost(o) \in Nat
    BY CostType
<1> DEFINE n == IF o.good \in Listed THEN o.count ELSE 0
<1>2. o.good \in Goods /\ o.mtype \in Currencies /\ o.count \in Nat /\ n \in Nat
    BY ShopAssumption DEF Orders
<1>c. Money \subseteq Currencies /\ Listed \subseteq Goods
    BY ShopAssumption DEF Currencies
<1> DEFINE h  == [r.held EXCEPT ![o.good] = @ + n]
           w  == [r.worth EXCEPT ![o.mtype] = @ + Cost(o)]
           r1 == [r EXCEPT !.held = h]
           r2 == [r1 EXCEPT !.worth = w]
<1>3. h \in [Goods -> Nat] /\ w \in [Currencies -> Nat]
    BY <1>1, <1>2 DEF Row
<1>4. r1 \in Row /\ r1.money = r.money /\ r1.bought = r.bought /\ r1.held = h /\ r1.worth = r.worth
    BY <1>3 DEF Row
<1>5. r2 \in Row /\ r2.money = r1.money /\ r2.bought = r1.bought /\ r2.held = r1.held /\ r2.worth = w
    BY <1>3, <1>4 DEF Row
<1>6. Given(r, o) = r2
    BY DEF Given, Row
<1>7. \A g \in Listed : h[g] = r.held[g] + (IF o.good = g THEN o.count ELSE 0)
    BY <1>2, <1>c DEF Row
<1>8. \A m \in Money : w[m] = r.worth[m] + (IF o.mtype = m THEN Cost(o) ELSE 0)
    BY <1>1, <1>2, <1>c DEF Row
<1> QED BY <1>4, <1>5, <1>6, <1>7, <1>8

\* Counting a purchase changes nothing but its count.
LEMMA CountedRow ==
    ASSUME NEW r \in Row, NEW o \in Orders
    PROVE  /\ Counted(r, o) \in Row
           /\ Counted(r, o).money = r.money /\ Counted(r, o).worth = r.worth
           /\ Counted(r, o).held = r.held
           /\ \A g \in Goods : Counted(r, o).bought[g] =
                  r.bought[g] + (IF o.good = g THEN o.count ELSE 0)
<1>1. o.good \in Goods /\ o.count \in Nat
    BY ShopAssumption DEF Orders
<1> QED BY <1>1 DEF Counted, Row

\* What stands in the row between payment and the next save: goods that tb_item lists,
\* not counted yet, or the count of one it does not list.
LEMMA DeliverRow ==
    ASSUME row \in Row, NEW o \in Orders, Deliver(row, o)
    PROVE  /\ row' \in Row /\ row'.money = row.money
           /\ \A m \in Money : row'.worth[m] = row.worth[m] + (IF o.mtype = m THEN Cost(o) ELSE 0)
           /\ pc' \in {"give", "count"}
           /\ \A g \in Listed : row'.bought[g] = row.bought[g]
           /\ \A g \in Listed : row'.held[g] = row.held[g] + (IF o.good = g THEN o.count ELSE 0)
           /\ \A g \in Listed : o.good = g => pc' = "give"
           /\ \A g \in Goods :
                  row'.bought[g] + (IF pc' = "give" /\ o.good = g THEN o.count ELSE 0)
                      = row.bought[g] + (IF o.good = g THEN o.count ELSE 0)
<1> DEFINE r == Given(row, o)
<1>1. /\ r \in Row /\ r.money = row.money /\ r.bought = row.bought
      /\ \A m \in Money : r.worth[m] = row.worth[m] + (IF o.mtype = m THEN Cost(o) ELSE 0)
      /\ \A g \in Listed : r.held[g] = row.held[g] + (IF o.good = g THEN o.count ELSE 0)
    BY GivenRow
<1>2. o.count \in Nat /\ Listed \subseteq Goods /\ \A g \in Goods : row.bought[g] \in Nat
    BY ShopAssumption DEF Orders, Row
<1>3. /\ Counted(r, o) \in Row /\ Counted(r, o).money = r.money /\ Counted(r, o).worth = r.worth
      /\ Counted(r, o).held = r.held
      /\ \A g \in Goods : Counted(r, o).bought[g] = r.bought[g] + (IF o.good = g THEN o.count ELSE 0)
    BY <1>1, CountedRow
<1>4. CASE o.good \in Listed
    <2>1. row' = r /\ pc' = "give"
        BY <1>4 DEF Deliver
    <2> HIDE DEF r
    <2> QED BY <2>1, <1>1, <1>2
<1>5. CASE o.good \notin Listed
    <2>1. row' = Counted(r, o) /\ pc' = "count"
        BY <1>5 DEF Deliver
    <2> HIDE DEF r
    <2>2. \A g \in Listed : row'.bought[g] = row.bought[g]
        BY <1>5, <2>1, <1>1, <1>2, <1>3
    <2> QED BY <1>5, <2>1, <2>2, <1>1, <1>2, <1>3
<1> QED BY <1>4, <1>5

LEMMA IInvInit == Init => IInv
<1> SUFFICES ASSUME Init PROVE IInv
    OBVIOUS
<1>f. 0 \in 0..MaxFaults
    BY ShopAssumption
<1>r. row \in Row
    BY ShopAssumption DEF Init, Row
<1>z. /\ \A m \in Money : Funds[m] \in Nat /\ row.money[m] = Funds[m] /\ row.worth[m] = 0
      /\ \A g \in Listed : row.bought[g] = 0 /\ row.held[g] = 0
    BY ShopAssumption DEF Init, Currencies
<1>1. TypeOK
    BY <1>f, <1>r, ShopAssumption DEF Init, TypeOK
<1>2. PurseTrue
    BY DEF Init, PurseTrue
<1>3. Solvent
    BY <1>z DEF Init, Solvent, Owed
<1>4. Counting
    BY <1>z DEF Init, Counting, Uncounted
<1>5. Limited
    BY ShopAssumption DEF Init, Limited, Coming
<1>6. Exact
    BY <1>z DEF Init, Exact, Owed, Uncounted
<1> QED BY <1>1, <1>2, <1>3, <1>4, <1>5, <1>6 DEF IInv

LEMMA BuyStep ==
    ASSUME IInv, NEW o \in Orders, Buy(o)
    PROVE  IInv'
<1>c. Cost(o) \in Nat
    BY CostType
<1>o. o.good \in Goods /\ o.mtype \in Currencies /\ o.count \in Nat /\ Listed \subseteq Goods
    BY ShopAssumption DEF Orders
<1>r. row \in Row /\ purse = row.money
    BY DEF IInv, TypeOK, PurseTrue, Buy
<1>i. pc = "idle" /\ order' = o /\ online /\ online' = online /\ UNCHANGED <<disk, faults>>
    BY DEF Buy
<1>1. CASE Charges(o)
    <2>0. o.mtype \in Money /\ Cost(o) > 0
        BY <1>1 DEF Charges
    <2>1. /\ pc' = "pay"
          /\ purse' = [purse EXCEPT ![o.mtype] = @ - Cost(o)]
          /\ row' = [row EXCEPT !.money = purse']
          /\ purse[o.mtype] >= Cost(o)
        BY <1>1, <2>0 DEF Buy, Paid, Accepted
    <2>2. purse' \in [Money -> Nat]
        BY <2>0, <2>1, <1>c DEF IInv, TypeOK
    <2>3. row' \in Row /\ row'.worth = row.worth /\ row'.held = row.held
              /\ row'.bought = row.bought /\ row'.money = purse'
        BY <2>1, <2>2, <1>r DEF Row
    <2>4. TypeOK'
        BY <2>1, <2>2, <2>3, <1>i DEF IInv, TypeOK
    <2>5. PurseTrue'
        BY <2>3, <1>i DEF PurseTrue
    <2>6. \A m \in Money : row'.money[m] + row'.worth[m] + Owed(m)' = row.money[m] + row.worth[m] + Owed(m)
        <3> TAKE m \in Money
        <3>1. row.money[m] \in Nat /\ row.worth[m] \in Nat
            BY <1>r DEF Row, Currencies
        <3>2. Owed(m) = 0
            BY <1>i DEF Owed
        <3>3. CASE o.mtype = m
            <4>1. Owed(m)' = Cost(o)
                BY <3>3, <2>1, <1>i DEF Owed, Cost
            <4>2. row'.money[m] = row.money[m] - Cost(o)
                BY <3>3, <2>1, <2>3, <1>r, <1>o DEF Row
            <4> QED BY <4>1, <4>2, <3>1, <3>2, <2>3, <1>c
        <3>4. CASE o.mtype # m
            <4>1. Owed(m)' = 0
                BY <3>4, <2>1, <1>i DEF Owed
            <4>2. row'.money[m] = row.money[m]
                BY <3>4, <2>1, <2>3, <1>r DEF Row
            <4> QED BY <4>1, <4>2, <3>2, <2>3
        <3> QED BY <3>3, <3>4
    <2>7. Solvent'
        BY <2>6, <1>i DEF IInv, Solvent
    <2>8. Counting'
        BY <2>1, <2>3, <1>i DEF IInv, Counting, Uncounted
    <2>9. Limited'
        BY <2>1, <2>3, <1>i, <1>o, ShopAssumption DEF IInv, TypeOK, Row, Limited, Coming, Buy, Accepted
    <2>10. Exact'
        BY <2>1, <2>3, <2>6, <1>i DEF IInv, Exact, Uncounted
    <2> QED BY <2>4, <2>5, <2>7, <2>8, <2>9, <2>10 DEF IInv
<1>2. CASE ~Charges(o)
    <2>1. Deliver(row, o) /\ purse' = purse
        BY <1>2 DEF Buy
    <2>n. \A m \in Money : o.mtype = m => Cost(o) = 0
        BY <1>2, <1>c DEF Charges
    <2>2. /\ row' \in Row /\ row'.money = row.money /\ pc' \in {"give", "count"}
          /\ \A m \in Money : row'.worth[m] = row.worth[m] + (IF o.mtype = m THEN Cost(o) ELSE 0)
          /\ \A g \in Listed : row'.bought[g] = row.bought[g]
          /\ \A g \in Listed : row'.held[g] = row.held[g] + (IF o.good = g THEN o.count ELSE 0)
          /\ \A g \in Listed : o.good = g => pc' = "give"
          /\ \A g \in Goods : row'.bought[g] + (IF pc' = "give" /\ o.good = g THEN o.count ELSE 0)
                                 = row.bought[g] + (IF o.good = g THEN o.count ELSE 0)
        BY <2>1, <1>r, DeliverRow
    <2>u. \A g \in Listed : Uncounted(g)' = IF o.good = g THEN o.count ELSE 0
        BY <2>2, <1>i DEF Uncounted
    <2>t. \A m \in Money : row.worth[m] \in Nat
        BY <1>r DEF Row, Currencies
    <2>w. \A m \in Money : row'.worth[m] = row.worth[m]
        BY <2>2, <2>n, <2>t
    <2>3. TypeOK'
        BY <2>1, <2>2, <1>i DEF IInv, TypeOK
    <2>4. PurseTrue'
        BY <2>1, <2>2, <1>r, <1>i DEF PurseTrue
    <2>5. Solvent'
        BY <2>2, <2>w, <1>i DEF IInv, Solvent, Owed
    <2>6. Counting'
        <3>1. \A g \in Listed : row.bought[g] \in Nat /\ row.held[g] \in Nat
            BY <1>o, <1>r DEF Row
        <3>2. \A g \in Listed : row.bought[g] <= row.held[g] /\ disk.bought[g] <= disk.held[g]
            BY <1>i, <3>1 DEF IInv, Counting, Uncounted
        <3>3. \A g \in Listed : /\ row'.bought[g] = row.bought[g]
                                /\ row'.held[g] = row.held[g] + Uncounted(g)'
            BY <2>2, <2>u
        <3>4. \A g \in Listed : Uncounted(g)' \in Nat
            BY <1>i, <1>o DEF Uncounted
        <3> HIDE DEF Uncounted
        <3>5. \A g \in Listed : row'.bought[g] + Uncounted(g)' <= row'.held[g]
            BY <3>1, <3>2, <3>3, <3>4
        <3> QED BY <3>2, <3>5, <1>i DEF Counting
    <2>7. Limited'
        <3>1. \A g \in Goods : row'.bought[g] + Coming(g)' = row.bought[g] + (IF o.good = g THEN o.count ELSE 0)
            BY <2>2, <1>i DEF Coming
        <3>2. \A g \in Goods : Limit[g] > 0 =>
                  /\ row.bought[g] <= Limit[g] /\ disk.bought[g] <= Limit[g]
                  /\ o.good = g => row.bought[g] + o.count <= Limit[g]
            BY <1>i, <1>r, ShopAssumption DEF IInv, Limited, Coming, Buy, Accepted, Row
        <3>3. \A g \in Goods : row.bought[g] \in Nat
            BY <1>r DEF Row
        <3> HIDE DEF Coming
        <3> QED BY <3>1, <3>2, <3>3, <1>i DEF Limited
    <2>8. Exact'
        <3> SUFFICES ASSUME faults' = 0 PROVE Exact'
            BY DEF Exact
        <3>1. /\ \A m \in Money : row.money[m] + row.worth[m] + Owed(m) = Funds[m] /\ Owed(m) = 0
              /\ \A g \in Listed : row.bought[g] + Uncounted(g) = row.held[g] /\ Uncounted(g) = 0
            BY <1>i DEF IInv, Exact, Owed, Uncounted
        <3>2. \A m \in Money : Owed(m)' = 0
            BY <2>2 DEF Owed
        <3>3. \A g \in Listed : /\ row'.bought[g] = row.bought[g]
                                /\ row'.held[g] = row.held[g] + Uncounted(g)'
            BY <2>2, <2>u
        <3>4. \A g \in Listed : row.bought[g] \in Nat /\ row.held[g] \in Nat
            BY <1>o, <1>r DEF Row
        <3>5. \A m \in Money : row'.money[m] + row'.worth[m] + Owed(m)' = Funds[m]
            BY <3>1, <3>2, <2>2, <2>w
        <3>6. \A g \in Listed : row'.bought[g] + Uncounted(g)' = row'.held[g]
            BY <3>1, <3>3, <3>4
        <3> QED BY <3>5, <3>6, <2>2 DEF Exact
    <2> QED BY <2>3, <2>4, <2>5, <2>6, <2>7, <2>8 DEF IInv
<1> QED BY <1>1, <1>2

LEMMA PaySavedStep == IInv /\ PaySaved => IInv'
<1> SUFFICES ASSUME IInv, PaySaved PROVE IInv'
    OBVIOUS
<1>1. pc = "pay" /\ disk' = row /\ Deliver(row, order) /\ UNCHANGED <<online, purse, order, faults>>
    BY DEF PaySaved
<1>2. row \in Row /\ order \in Orders /\ \A g \in Goods : row.bought[g] \in Nat /\ row.held[g] \in Nat
    BY DEF IInv, TypeOK, Row
<1>3. Cost(order) \in Nat /\ order.count \in Nat /\ Listed \subseteq Goods
    BY <1>2, CostType, ShopAssumption DEF Orders
<1>4. /\ row' \in Row /\ row'.money = row.money /\ pc' \in {"give", "count"}
      /\ \A m \in Money : row'.worth[m] = row.worth[m] + (IF order.mtype = m THEN Cost(order) ELSE 0)
      /\ \A g \in Listed : row'.bought[g] = row.bought[g]
      /\ \A g \in Listed : row'.held[g] = row.held[g] + (IF order.good = g THEN order.count ELSE 0)
      /\ \A g \in Listed : order.good = g => pc' = "give"
      /\ \A g \in Goods : row'.bought[g] + (IF pc' = "give" /\ order.good = g THEN order.count ELSE 0)
                             = row.bought[g] + (IF order.good = g THEN order.count ELSE 0)
    BY <1>1, <1>2, DeliverRow
<1>w. \A m \in Money : row.money[m] \in Nat /\ row.worth[m] \in Nat
    BY <1>2 DEF Row, Currencies
<1>5. TypeOK'
    BY <1>1, <1>2, <1>4 DEF IInv, TypeOK
<1>6. PurseTrue'
    BY <1>1, <1>4 DEF IInv, PurseTrue
<1>u. \A g \in Listed : Uncounted(g)' = IF order.good = g THEN order.count ELSE 0
    BY <1>1, <1>4 DEF Uncounted
<1>o. \A m \in Money : row'.money[m] + row'.worth[m] + Owed(m)' = row.money[m] + row.worth[m] + Owed(m)
    BY <1>1, <1>3, <1>4, <1>w DEF Owed
<1>p. \A m \in Money : row.money[m] + row.worth[m] <= row.money[m] + row.worth[m] + Owed(m)
    BY <1>1, <1>3, <1>w DEF Owed
<1>7. Solvent'
    <2>1. \A m \in Money : Owed(m) \in Nat /\ Funds[m] \in Nat
        BY <1>3, ShopAssumption DEF Owed
    <2>2. \A m \in Money : row.money[m] + row.worth[m] + Owed(m) <= Funds[m]
        BY DEF IInv, Solvent
    <2>3. \A m \in Money : row.money[m] + row.worth[m] <= Funds[m]
        BY <2>1, <2>2, <1>w
    <2> QED BY <1>1, <1>o, <2>2, <2>3 DEF Solvent
<1>8. Counting'
    <2>1. \A g \in Listed : /\ row'.bought[g] = row.bought[g]
                            /\ row'.held[g] = row.held[g] + Uncounted(g)'
        BY <1>4, <1>u
    <2>2. \A g \in Listed : row.bought[g] <= row.held[g]
        BY <1>1, <1>2, <1>3 DEF IInv, Counting, Uncounted
    <2>3. \A g \in Listed : /\ row.bought[g] \in Nat /\ row.held[g] \in Nat
                            /\ Uncounted(g)' \in Nat
        BY <1>1, <1>2, <1>3 DEF Uncounted
    <2>4. \A g \in Listed : row'.bought[g] + Uncounted(g)' <= row'.held[g]
        BY <2>1, <2>2, <2>3
    <2> QED BY <2>2, <2>4, <1>1 DEF Counting
<1>c. \A g \in Goods : /\ row'.bought[g] + Coming(g)' = row.bought[g] + Coming(g)
                       /\ Coming(g) \in Nat
    BY <1>1, <1>3, <1>4 DEF Coming
<1>9. Limited'
    <2>1. \A g \in Goods : Limit[g] > 0 => row.bought[g] + Coming(g) <= Limit[g] /\ Limit[g] \in Nat
        BY ShopAssumption DEF IInv, Limited
    <2>2. \A g \in Goods : Limit[g] > 0 => row.bought[g] <= Limit[g]
        BY <1>2, <1>c, <2>1
    <2> QED BY <1>1, <1>c, <2>1, <2>2 DEF Limited
<1>10. Exact'
    <2>1. \A g \in Listed : (row'.bought[g] + Uncounted(g)' = row'.held[g])
                               <=> (row.bought[g] + Uncounted(g) = row.held[g])
        <3> TAKE g \in Listed
        <3>1. row'.bought[g] = row.bought[g] /\ row'.held[g] = row.held[g] + Uncounted(g)'
            BY <1>4, <1>u
        <3>2. /\ row.bought[g] \in Nat /\ row.held[g] \in Nat /\ Uncounted(g)' \in Nat
              /\ Uncounted(g) = 0
            BY <1>1, <1>2, <1>3 DEF Uncounted
        <3> QED BY <3>1, <3>2
    <2>2. pc' # "idle" /\ faults' = faults
        BY <1>1, <1>4
    <2> QED BY <1>o, <2>1, <2>2 DEF IInv, Exact
<1> QED BY <1>5, <1>6, <1>7, <1>8, <1>9, <1>10 DEF IInv

LEMMA GiveSavedStep == IInv /\ GiveSaved => IInv'
<1> SUFFICES ASSUME IInv, GiveSaved PROVE IInv'
    OBVIOUS
<1>1. pc = "give" /\ pc' = "count" /\ disk' = row
          /\ row' = Counted(row, order)
          /\ UNCHANGED <<online, purse, order, faults>>
    BY DEF GiveSaved
<1>2. row \in Row /\ order \in Orders /\ order.good \in Goods /\ order.count \in Nat
          /\ Listed \subseteq Goods
    BY ShopAssumption DEF IInv, TypeOK, Orders
<1>3. /\ row' \in Row /\ row'.money = row.money /\ row'.worth = row.worth /\ row'.held = row.held
      /\ \A g \in Goods : row'.bought[g] = row.bought[g] + (IF order.good = g THEN order.count ELSE 0)
    BY <1>1, <1>2, CountedRow
<1>5. TypeOK'
    BY <1>1, <1>2, <1>3 DEF IInv, TypeOK
<1>6. PurseTrue'
    BY <1>1, <1>3 DEF IInv, PurseTrue
<1>7. Solvent'
    BY <1>1, <1>2, <1>3, ShopAssumption DEF IInv, Solvent, Owed, Row, Currencies
<1>8. Counting'
    BY <1>1, <1>2, <1>3 DEF IInv, Counting, Uncounted, Row
<1>9. Limited'
    BY <1>1, <1>2, <1>3, ShopAssumption DEF IInv, Limited, Coming, Row
<1>10. Exact'
    BY <1>1, <1>2, <1>3 DEF IInv, Exact, Owed, Uncounted, Row
<1> QED BY <1>5, <1>6, <1>7, <1>8, <1>9, <1>10 DEF IInv

\* A fault leaves row and disk, or one of them twice, without what was pending.
LEMMA FaultStep == IInv /\ (SaveRaises \/ Die) => IInv'
<1> SUFFICES ASSUME IInv, SaveRaises \/ Die PROVE IInv'
    OBVIOUS
<1>1. /\ online' = FALSE /\ pc' = "idle" /\ faults' = faults + 1 /\ UNCHANGED <<purse, order>>
      /\ row' \in {row, disk} /\ disk' \in {row, disk} /\ faults < MaxFaults
    BY DEF SaveRaises, Die
<1>f. faults' \in 0..MaxFaults
    BY <1>1, ShopAssumption DEF IInv, TypeOK
<1>2. TypeOK'
    BY <1>1, <1>f DEF IInv, TypeOK
<1>3. PurseTrue'
    BY <1>1 DEF PurseTrue
<1>4. row \in Row /\ disk \in Row /\ order \in Orders
    BY DEF IInv, TypeOK
<1>5. \A m \in Money : row.money[m] + row.worth[m] <= Funds[m]
    BY <1>4, CostType, ShopAssumption DEF IInv, Solvent, Owed, Row, Currencies
<1>6. Solvent'
    BY <1>1, <1>4, <1>5, ShopAssumption DEF IInv, Solvent, Owed, Row, Currencies
<1>u. \A g \in Goods : Uncounted(g) \in Nat /\ Coming(g) \in Nat
    BY <1>4, ShopAssumption DEF Uncounted, Coming, Orders
<1>7. \A g \in Goods : /\ g \in Listed => row.bought[g] <= row.held[g]
                       /\ Limit[g] > 0 => row.bought[g] <= Limit[g]
    <2> TAKE g \in Goods
    <2>1. Uncounted(g) \in Nat /\ Coming(g) \in Nat
        BY <1>u
    <2>2. row.bought[g] \in Nat /\ row.held[g] \in Nat /\ Limit[g] \in Nat
        BY <1>4, ShopAssumption DEF Row
    <2>3. /\ g \in Listed => row.bought[g] + Uncounted(g) <= row.held[g]
          /\ Limit[g] > 0 => row.bought[g] + Coming(g) <= Limit[g]
        BY DEF IInv, Counting, Limited
    <2> QED BY <2>1, <2>2, <2>3
<1>8. Counting'
    BY <1>1, <1>4, <1>7, ShopAssumption DEF IInv, Counting, Uncounted, Row
<1>9. Limited'
    BY <1>1, <1>4, <1>7, ShopAssumption DEF IInv, Limited, Coming, Row
<1>10. Exact'
    BY <1>1 DEF IInv, TypeOK, Exact
<1> QED BY <1>2, <1>3, <1>6, <1>8, <1>9, <1>10 DEF IInv

\* A save between two orders, or after the last step of one, changes no row.
LEMMA SavedStep ==
    ASSUME IInv, pc \in {"idle", "count"}, pc' = "idle", row' = row, disk' = row,
           online' => online /\ purse' = purse, UNCHANGED <<order, faults>>,
           purse' \in [Money -> Nat], online' \in BOOLEAN
    PROVE  IInv'
<1>1. TypeOK'
    BY DEF IInv, TypeOK
<1>2. PurseTrue'
    BY DEF IInv, PurseTrue
<1>3. \A m \in Money : row \in Row /\ Owed(m) = 0 /\ Owed(m)' = 0
    BY DEF IInv, TypeOK, Owed
<1>4. \A g \in Goods : row \in Row /\ Uncounted(g) = 0 /\ Uncounted(g)' = 0
                       /\ Coming(g) = 0 /\ Coming(g)' = 0
    BY DEF IInv, TypeOK, Uncounted, Coming
<1>5. Solvent'
    BY <1>3 DEF IInv, Solvent, Row, Currencies
<1>6. Counting'
    <2>1. \A g \in Listed : g \in Goods
        BY ShopAssumption
    <2>2. \A g \in Listed : Uncounted(g) = 0 /\ Uncounted(g)' = 0 /\ row.bought[g] \in Nat
        BY <2>1, <1>4 DEF Row
    <2> QED BY <2>2 DEF IInv, Counting
<1>7. Limited'
    BY <1>4 DEF IInv, Limited, Row
<1>8. Exact'
    <2>1. \A g \in Listed : Uncounted(g) = 0 /\ Uncounted(g)' = 0
        BY ShopAssumption, <1>4
    <2>2. \A m \in Money : Owed(m) = 0 /\ Owed(m)' = 0
        BY <1>3
    <2> HIDE DEF Owed, Uncounted
    <2> QED BY <2>1, <2>2 DEF IInv, Exact
<1> QED BY <1>1, <1>2, <1>5, <1>6, <1>7, <1>8 DEF IInv

LEMMA IInvNext == IInv /\ [Next]_vars => IInv'
<1> SUFFICES ASSUME IInv, [Next]_vars PROVE IInv'
    OBVIOUS
<1>1. CASE Enter
    <2>1. pc = "idle" /\ row.money \in [Money -> Nat]
        BY <1>1 DEF Enter, IInv, TypeOK, PurseTrue, Row
    <2>2. TypeOK' /\ PurseTrue'
        BY <1>1, <2>1 DEF Enter, IInv, TypeOK, PurseTrue
    <2>3. Solvent' /\ Counting' /\ Limited' /\ Exact'
        BY <1>1 DEF Enter, IInv, Solvent, Counting, Limited, Exact, Owed, Uncounted, Coming, Cost
    <2> QED BY <2>2, <2>3 DEF IInv
<1>2. CASE Disconnect
    <2>1. purse = row.money /\ row \in Row
        BY <1>2 DEF Disconnect, IInv, TypeOK, PurseTrue
    <2>2. row' = row /\ disk' = row
        BY <1>2, <2>1 DEF Disconnect, Paid, Row
    <2> QED BY <1>2, <2>2, SavedStep DEF Disconnect, IInv, TypeOK
<1>3. CASE OtherSave
    BY <1>3, SavedStep DEF OtherSave, IInv, TypeOK
<1>4. CASE SaveRaises \/ Die
    BY <1>4, FaultStep
<1>5. ASSUME NEW o \in Orders, Buy(o) PROVE IInv'
    BY <1>5, BuyStep
<1>6. CASE PaySaved
    BY <1>6, PaySavedStep
<1>7. CASE GiveSaved
    BY <1>7, GiveSavedStep
<1>8. CASE CountSaved
    BY <1>8, SavedStep DEF CountSaved, IInv, TypeOK
<1>9. CASE UNCHANGED vars
    BY <1>9 DEF vars, IInv, TypeOK, PurseTrue, Solvent, Counting, Limited, Exact, Owed,
        Uncounted, Coming, Cost
<1> QED BY <1>1, <1>2, <1>3, <1>4, <1>5, <1>6, <1>7, <1>8, <1>9 DEF Next

\* What the invariant says of the properties the runs check.
LEMMA IInvImplies == IInv => FairTrade /\ BooksBalance
<1> SUFFICES ASSUME IInv PROVE FairTrade /\ BooksBalance
    OBVIOUS
<1>1. row \in Row /\ disk \in Row /\ order \in Orders /\ Cost(order) \in Nat
    BY CostType DEF IInv, TypeOK
<1>2. \A m \in Money : Owed(m) \in Nat /\ (pc = "idle" => Owed(m) = 0)
    BY <1>1 DEF Owed
<1>3. \A g \in Goods : /\ Uncounted(g) \in Nat /\ Coming(g) \in Nat
                       /\ pc = "idle" => Uncounted(g) = 0
    BY <1>1, ShopAssumption DEF Uncounted, Coming, Orders
<1>4. NeverUnpaid
    BY <1>1, <1>2, ShopAssumption DEF IInv, Solvent, NeverUnpaid, Row, Currencies
<1>c. Counting /\ Exact
    BY DEF IInv
<1>5. CountedIsHeld
    <2>1. \A g \in Listed : g \in Goods /\ row.bought[g] \in Nat /\ row.held[g] \in Nat
        BY <1>1, ShopAssumption DEF Row
    <2>2. ASSUME NEW g \in Listed PROVE row.bought[g] <= row.held[g]
        <3>1. row.bought[g] + Uncounted(g) <= row.held[g]
            BY <1>c DEF Counting
        <3>2. Uncounted(g) \in Nat
            BY <1>3, <2>1
        <3> QED BY <3>1, <3>2, <2>1
    <2> QED BY <2>2, <1>c DEF Counting, CountedIsHeld
<1>6. CountWithinLimit
    BY <1>1, <1>3, ShopAssumption DEF IInv, Limited, CountWithinLimit, Row
<1>7. BooksBalance
    <2> SUFFICES ASSUME faults = 0, pc = "idle"
                 PROVE  /\ disk = row /\ \A g \in Listed : row.bought[g] = row.held[g]
                        /\ \A m \in Money : row.money[m] + row.worth[m] = Funds[m]
        BY DEF BooksBalance
    <2>1. ASSUME NEW g \in Listed PROVE row.bought[g] = row.held[g]
        <3>1. g \in Goods /\ row.bought[g] \in Nat
            BY <1>1, ShopAssumption DEF Row
        <3>2. row.bought[g] + Uncounted(g) = row.held[g] /\ Uncounted(g) = 0
            BY <1>3, <1>c, <3>1 DEF Exact
        <3> QED BY <3>1, <3>2
    <2>2. \A m \in Money : row.money[m] + row.worth[m] = Funds[m]
        BY <1>1, <1>2 DEF IInv, Exact, Row, Currencies
    <2> QED BY <2>1, <2>2 DEF IInv, Exact
<1> QED BY <1>4, <1>5, <1>6, <1>7 DEF FairTrade

\* Every variable keeps its type: no purse goes below zero.
THEOREM TypeCorrect == Spec => []TypeOK
<1>1. IInv => TypeOK
    BY DEF IInv
<1> QED BY <1>1, IInvInit, IInvNext, PTL DEF Spec

\* Wherever on_shop_buy is cut off, no goods are had in diamond or gold that were not
\* paid for, no good that tb_item lists counts that was not had, and no count exceeds its
\* limit; whatever currencies there are besides, and whatever orders name them.
THEOREM TradeIsFair == Spec => []FairTrade
BY IInvInit, IInvNext, IInvImplies, PTL DEF Spec

\* Where nothing fails, every answered order is counted and saved, paid if it was in
\* diamond or gold, and given if tb_item lists the item.
THEOREM BooksAlwaysBalance == Spec => []BooksBalance
BY IInvInit, IInvNext, IInvImplies, PTL DEF Spec
-----------------------------------------------------------------------------
(* Storage. *)

\* Where save() is, and what the two files hold there.
SaveInv ==
    /\ file # Torn
    /\ step = "replace" => tmp = data
    /\ adding # 0 => step \in {"open", "dump", "replace"} /\ data[adding] # NoRow

StoreInv == StoreTypeOK /\ SaveInv

LEMMA EmptyIsImage == EmptyData \in Images
  BY StorageAssumption DEF EmptyData, Images

\* An id handed out by next_playerid is not in use.
LEMMA NextIdFresh ==
  ASSUME StoreTypeOK, NEW p \in PlayerIds, NextId(p)
  PROVE  data[p] = NoRow
<1>1. PICK mx \in Stored(data) \cup {0} :
          (\A q \in Stored(data) : q <= mx) /\ p = mx + 1
  BY DEF NextId
<1>2. mx \in Int
  BY <1>1, StorageAssumption DEF Stored
<1>3. p \notin Stored(data)
  BY <1>1, <1>2, StorageAssumption DEF Stored
<1>. QED  BY <1>3 DEF Stored

\* The type invariant and the shape of a save are kept by every step.
LEMMA StoreInvNext == StoreInv /\ [StoreNext]_storeVars => StoreInv'
<1> SUFFICES ASSUME StoreInv, [StoreNext]_storeVars PROVE StoreInv'
  OBVIOUS
<1> USE StorageAssumption, EmptyIsImage DEF StoreInv, SaveInv, StoreTypeOK
<1>1. ASSUME NEW a \in Accounts, NEW p \in PlayerIds, AddCharacter(a, p)
      PROVE  StoreInv'
  <2>1. [account |-> a, rev |-> 0] \in StoredRow
    BY DEF StoredRow
  <2>2. data' \in Images /\ data'[p] # NoRow
    BY <1>1, <2>1 DEF AddCharacter, Images
  <2>. QED  BY <1>1, <2>2 DEF AddCharacter
<1>2. ASSUME NEW p \in PlayerIds, Touch(p) PROVE StoreInv'
  <2>1. data[p] \in StoredRow /\ data[p].rev + 1 \in 0..MaxRev
    BY <1>2 DEF Touch, Images, StoredRow
  <2>2. [data[p] EXCEPT !.rev = @ + 1] \in StoredRow
    BY <2>1 DEF StoredRow
  <2>3. data' = [data EXCEPT ![p] = [data[p] EXCEPT !.rev = @ + 1]]
    BY <1>2 DEF Touch
  <2>4. data' \in Images
    BY <2>2, <2>3 DEF Images
  <2>. QED  BY <1>2, <2>4 DEF Touch
<1>3. CASE Save        BY <1>3 DEF Save
<1>4. CASE SaveOpen    BY <1>4 DEF SaveOpen
<1>5. CASE SaveDump    BY <1>5 DEF SaveDump
<1>6. CASE SaveReplace
  <2>1. file' \in Images /\ tmp' = NoFile /\ step' = "idle" /\ adding' = 0 /\ data' = data
    BY <1>6 DEF SaveReplace
  <2>2. adding # 0 => data[adding].account \in Accounts
    BY DEF Images, StoredRow
  <2>3. acked' \in [PlayerIds -> Accounts \cup {NoRow}]
    BY <1>6, <2>2 DEF SaveReplace
  <2>4. crashes' = crashes
    BY <1>6 DEF SaveReplace
  <2>. QED  BY <2>1, <2>3, <2>4
<1>7. CASE StepRaises  BY <1>7 DEF StepRaises
<1>8. CASE ProcessDies BY <1>8 DEF ProcessDies
<1>9. CASE Start       BY <1>9 DEF Start, Load
<1>10. CASE UNCHANGED storeVars  BY <1>10 DEF storeVars
<1>. QED
  BY <1>1, <1>2, <1>3, <1>4, <1>5, <1>6, <1>7, <1>8, <1>9, <1>10 DEF StoreNext

LEMMA StoreInvInit == StoreInit => StoreInv
  BY StorageAssumption, EmptyIsImage DEF StoreInit, StoreInv, SaveInv, StoreTypeOK

LEMMA StoreInvAlways == StoreSpec => []StoreInv
  BY StoreInvInit, StoreInvNext, PTL DEF StoreSpec

\* The variables of storage.py and its two files always have their types.
THEOREM StoreTypeCorrect == StoreSpec => []StoreTypeOK
<1>1. StoreInv => StoreTypeOK  BY DEF StoreInv
<1>. QED  BY <1>1, StoreInvAlways, PTL

\* accounts.json is never seen half written, whatever step of save() fails or
\* is cut short by the death of the process.
THEOREM FileNeverTorn == StoreSpec => []NeverTorn
<1>1. StoreInv => NeverTorn  BY DEF StoreInv, SaveInv, NeverTorn
<1>. QED  BY <1>1, StoreInvAlways, PTL
-----------------------------------------------------------------------------
\* One step keeps every acknowledged character, if an intact file can be read.
LEMMA AckedNext ==
  ASSUME ~ReadMayFail
  PROVE  StoreInv /\ AckedKept /\ [StoreNext]_storeVars => AckedKept'
<1> SUFFICES ASSUME StoreInv, AckedKept, [StoreNext]_storeVars, NEW p \in PlayerIds, acked'[p] # NoRow
             PROVE  /\ saved'[p] # NoRow /\ saved'[p].account = acked'[p]
                    /\ step' # "down" => data'[p] # NoRow /\ data'[p].account = acked'[p]
  BY DEF AckedKept
<1> USE StorageAssumption DEF StoreInv, SaveInv, StoreTypeOK
<1>1. ASSUME NEW a \in Accounts, NEW q \in PlayerIds, AddCharacter(a, q)
      PROVE  /\ saved'[p] # NoRow /\ saved'[p].account = acked'[p]
             /\ step' # "down" => data'[p] # NoRow /\ data'[p].account = acked'[p]
  <2>1. data[q] = NoRow
    BY <1>1, NextIdFresh DEF AddCharacter
  <2>2. p # q /\ data'[p] = data[p]
    BY <1>1, <2>1 DEF AddCharacter, AckedKept, Images
  <2>. QED  BY <1>1, <2>2 DEF AddCharacter, AckedKept, saved
<1>2. ASSUME NEW q \in PlayerIds, Touch(q)
      PROVE  /\ saved'[p] # NoRow /\ saved'[p].account = acked'[p]
             /\ step' # "down" => data'[p] # NoRow /\ data'[p].account = acked'[p]
  <2>1. data[q] \in StoredRow /\ data'[p] \in StoredRow \cup {NoRow}
    BY <1>2, StoreInvNext DEF Touch, Images, StoreNext
  <2>2. data' = [data EXCEPT ![q] = [data[q] EXCEPT !.rev = @ + 1]]
    BY <1>2 DEF Touch
  <2>3. data'[p] # NoRow /\ data'[p].account = data[p].account
    BY <1>2, <2>1, <2>2 DEF Touch, AckedKept, Images, StoredRow
  <2>. QED  BY <1>2, <2>3 DEF Touch, AckedKept, saved
<1>3. CASE Save        BY <1>3 DEF Save, AckedKept, saved
<1>4. CASE SaveOpen    BY <1>4 DEF SaveOpen, AckedKept, saved
<1>5. CASE SaveDump    BY <1>5 DEF SaveDump, AckedKept, saved
<1>6. CASE SaveReplace
  <2>1. saved' = data /\ data' = data
    BY <1>6 DEF SaveReplace, saved, Images
  <2>2. CASE p = adding /\ adding # 0
    BY <1>6, <2>1, <2>2 DEF SaveReplace
  <2>3. CASE ~(p = adding /\ adding # 0)
    <3>1. acked'[p] = acked[p]
      BY <1>6, <2>3 DEF SaveReplace
    <3>. QED  BY <1>6, <2>1, <3>1 DEF SaveReplace, AckedKept
  <2>. QED  BY <2>2, <2>3
<1>7. CASE StepRaises  BY <1>7 DEF StepRaises, AckedKept, saved
<1>8. CASE ProcessDies BY <1>8 DEF ProcessDies, AckedKept, saved
<1>9. CASE Start
  <2>1. data' = saved /\ saved' = saved /\ acked' = acked
    BY <1>9 DEF Start, Load, saved
  <2>. QED  BY <2>1 DEF AckedKept
<1>10. CASE UNCHANGED storeVars  BY <1>10 DEF storeVars, AckedKept, saved
<1>. QED
  BY <1>1, <1>2, <1>3, <1>4, <1>5, <1>6, <1>7, <1>8, <1>9, <1>10 DEF StoreNext

\* A character whose creation was answered survives every crash, failed save,
\* restart and later creation, as long as _load can read an intact file.
THEOREM AckedSurvives ==
  ASSUME ~ReadMayFail
  PROVE  StoreSpec => []AckedKept
<1>1. StoreInit => AckedKept
  BY DEF StoreInit, AckedKept
<1>2. StoreInv /\ AckedKept /\ [StoreNext]_storeVars => AckedKept'
  BY AckedNext
<1>. QED  BY <1>1, <1>2, StoreInvAlways, PTL DEF StoreSpec
-----------------------------------------------------------------------------
\* Every step of the files is a step, or a stutter, of the abstract store.
LEMMA StepRefines ==
  ASSUME ~ReadMayFail
  PROVE  StoreInv /\ [StoreNext]_storeVars => [Abstract!Next]_(Abstract!vars)
<1> SUFFICES ASSUME StoreInv, [StoreNext]_storeVars PROVE [Abstract!Next]_(Abstract!vars)
  OBVIOUS
<1> USE StorageAssumption, StoreInvNext
    DEF StoreInv, SaveInv, StoreTypeOK, saved, Abstract!Next, Abstract!vars
<1>1. ASSUME NEW a \in Accounts, NEW p \in PlayerIds, AddCharacter(a, p)
      PROVE  Abstract!Change
  BY <1>1 DEF AddCharacter, Abstract!Change, StoreNext
<1>2. ASSUME NEW p \in PlayerIds, Touch(p) PROVE Abstract!Change
  BY <1>2 DEF Touch, Abstract!Change, StoreNext
<1>3. CASE Save        BY <1>3 DEF Save
<1>4. CASE SaveOpen    BY <1>4 DEF SaveOpen
<1>5. CASE SaveDump    BY <1>5 DEF SaveDump
<1>6. CASE SaveReplace BY <1>6 DEF SaveReplace, Abstract!Persist
<1>7. CASE StepRaises  BY <1>7 DEF StepRaises
<1>8. CASE ProcessDies BY <1>8 DEF ProcessDies, Abstract!Crash
<1>9. CASE Start       BY <1>9 DEF Start, Load, Abstract!Restart
<1>10. CASE UNCHANGED storeVars  BY <1>10 DEF storeVars
<1>. QED
  BY <1>1, <1>2, <1>3, <1>4, <1>5, <1>6, <1>7, <1>8, <1>9, <1>10 DEF StoreNext

\* storage.py implements the abstract store: a save that returns is the one
\* instant at which the whole image becomes durable.
THEOREM Refinement ==
  ASSUME ~ReadMayFail
  PROVE  StoreSpec => AbstractSpec
<1>1. StoreInit => Abstract!Init
  BY DEF StoreInit, Abstract!Init, saved
<1>2. StoreInv /\ [StoreNext]_storeVars => [Abstract!Next]_(Abstract!vars)
  BY StepRefines
<1>. QED  BY <1>1, <1>2, StoreInvAlways, PTL DEF StoreSpec, AbstractSpec, Abstract!Spec
=============================================================================
