-------------------------------- MODULE Shop --------------------------------
(***************************************************************************)
(* A purchase, step by step (gateway.py, on_shop_buy).  The handler saves  *)
(* the store three times: when the money is taken, when the item is given  *)
(* and when the purchase is counted.  No other handler runs in between,    *)
(* but the process may die, or a save may raise: the handler is left there *)
(* and handle_conn closes the connection.                                  *)
(*                                                                         *)
(* One character with a row, on one connection at a time (Sessions has the *)
(* other cases).  A refused order changes nothing and is no action.        *)
(*                                                                         *)
(* Abstracted: what an order adds to the inventory is a number per good    *)
(* (give_item itself is in Sessions); a save is one step (Storage).        *)
(*                                                                         *)
(* The session keeps diamond and gold.  An order in any other currency is  *)
(* carried out and nothing is charged for it; a good whose item tb_item    *)
(* does not list is charged and counted, and give_item gives nothing.      *)
(***************************************************************************)
EXTENDS Integers

CONSTANTS
    Goods,          \* the entries (shop, index) of tb_shop
    Listed,         \* those whose item has a row in tb_item
    Money,          \* the currencies a session keeps: diamond and gold
    Unkept,         \* other values of m_nMType
    Price,          \* discount, or price, of each entry
    Limit,          \* count of each entry, 0 for no purchase limit
    Funds,          \* what the character starts with
    MaxCount,       \* bound on m_nCount
    MaxHeld,        \* bound on what is bought of one entry
    MaxFaults       \* bound on the failures

ASSUME ShopAssumption ==
    /\ Listed \subseteq Goods /\ Money \cap Unkept = {}
    /\ Price \in [Goods -> Nat] /\ Limit \in [Goods -> Nat]
    /\ Funds \in [Money -> Nat]
    /\ MaxCount \in Nat /\ MaxHeld \in Nat /\ MaxFaults \in Nat

VARIABLES
    online,     \* the character is in the world on a connection
    purse,      \* the session's s.diamond and s.gold
    row,        \* the character's row in storage._data
    disk,       \* the row as accounts.json has it
    pc,         \* the save the handler is about to do: "pay", "give", "count"; or "idle"
    order,      \* the order under way
    faults      \* bound: failures so far

vars == <<online, purse, row, disk, pc, order, faults>>

Currencies == Money \cup Unkept
Orders == [good : Goods, count : 1..MaxCount, mtype : Currencies]

\* worth is a ghost: what the orders so far cost that came as far as give_item, in
\* the currency each named.
Row == [money : [Money -> Nat], worth : [Currencies -> Nat],
        held : [Goods -> Nat], bought : [Goods -> Nat]]

Init ==
    /\ online = FALSE
    /\ purse = Funds
    /\ row = [money |-> Funds, worth |-> [m \in Currencies |-> 0],
              held |-> [g \in Goods |-> 0], bought |-> [g \in Goods |-> 0]]
    /\ disk = row
    /\ pc = "idle" /\ order \in Orders
    /\ faults = 0

\* on_login_gateway.
Enter ==
    /\ ~online
    /\ online' = TRUE /\ purse' = row.money
    /\ UNCHANGED <<row, disk, pc, order, faults>>

Cost(o) == Price[o.good] * o.count

-----------------------------------------------------------------------------
\* give_item: goods with a row in tb_item are in the character's row, not yet saved.
Given(r, o) == [r EXCEPT !.held[o.good] = @ + (IF o.good \in Listed THEN o.count ELSE 0),
                         !.worth[o.mtype] = @ + Cost(o)]

\* bought[str(index)] = already + count.
Counted(r, o) == [r EXCEPT !.bought[o.good] = @ + o.count]

\* From give_item to the next save: its own, or where it returns early that of the count.
Deliver(r, o) ==
    IF o.good \in Listed THEN row' = Given(r, o) /\ pc' = "give"
    ELSE row' = Counted(Given(r, o), o) /\ pc' = "count"

\* Bugs a change of this code could bring in stand before the definition they
\* would replace; they only show that a property below notices them.
Unpaid(r, p)         == r            \* the purse is not written back
CountUnsaved ==                      \* no storage.save at the end
    /\ pc = "count" /\ pc' = "idle"
    /\ UNCHANGED <<online, purse, row, disk, order, faults>>

\* The order keeps to the purchase limit; diamond and gold it asks for are there.
Accepted(o) ==
    /\ Limit[o.good] > 0 => row.bought[o.good] + o.count <= Limit[o.good]
    /\ o.mtype \in Money => purse[o.mtype] >= Cost(o)

\* The session is charged.
Charges(o) == o.mtype \in Money /\ Cost(o) > 0

\* save_session's c.update, as far as the money goes.
Paid(r, p) == [r EXCEPT !.money = p]

\* on_shop_buy up to its first save.
Buy(o) ==
    /\ online /\ pc = "idle"
    /\ Accepted(o)
    /\ row.bought[o.good] + o.count <= MaxHeld /\ row.held[o.good] + o.count <= MaxHeld
    /\ order' = o
    /\ IF Charges(o)
       THEN /\ purse' = [purse EXCEPT ![o.mtype] = @ - Cost(o)]
            /\ row' = Paid(row, purse')
            /\ pc' = "pay"
       ELSE Deliver(row, o) /\ UNCHANGED purse
    /\ UNCHANGED <<online, disk, faults>>

\* The payment is saved; give_item changes the row.
PaySaved ==
    /\ pc = "pay" /\ disk' = row
    /\ Deliver(row, order)
    /\ UNCHANGED <<online, purse, order, faults>>

\* The goods are saved; the purchase is counted.
GiveSaved ==
    /\ pc = "give" /\ disk' = row
    /\ row' = Counted(row, order)
    /\ pc' = "count"
    /\ UNCHANGED <<online, purse, order, faults>>

\* The last save; the order is answered.
CountSaved ==
    /\ pc = "count" /\ disk' = row
    /\ pc' = "idle"
    /\ UNCHANGED <<online, purse, row, order, faults>>
-----------------------------------------------------------------------------
\* A save raises.  The exception ends the connection, and the finally block of
\* handle_conn saves once more, which may fail too.
SaveRaises ==
    /\ pc # "idle" /\ faults < MaxFaults
    /\ online' = FALSE /\ pc' = "idle"
    /\ disk' \in {disk, row}
    /\ faults' = faults + 1
    /\ UNCHANGED <<purse, row, order>>

\* The process dies and starts again.
Die ==
    /\ faults < MaxFaults
    /\ online' = FALSE /\ pc' = "idle"
    /\ row' = disk
    /\ faults' = faults + 1
    /\ UNCHANGED <<purse, disk, order>>

\* The finally block of handle_conn after an orderly disconnect.
Disconnect ==
    /\ online /\ pc = "idle"
    /\ online' = FALSE
    /\ row' = Paid(row, purse) /\ disk' = row'
    /\ UNCHANGED <<purse, pc, order, faults>>

\* Another character's handler saves the store.
OtherSave ==
    /\ pc = "idle" /\ disk' = row
    /\ UNCHANGED <<online, purse, row, pc, order, faults>>

Next ==
    \/ Enter \/ Disconnect \/ OtherSave \/ SaveRaises \/ Die
    \/ \E o \in Orders : Buy(o)
    \/ PaySaved \/ GiveSaved \/ CountSaved

Spec == Init /\ [][Next]_vars
-----------------------------------------------------------------------------
\* Type invariant; among others, no purse is ever negative.
TypeOK ==
    /\ online \in BOOLEAN
    /\ purse \in [Money -> Nat]
    /\ row \in Row /\ disk \in Row
    /\ pc \in {"idle", "pay", "give", "count"}
    /\ order \in Orders
    /\ faults \in 0..MaxFaults

\* Whatever fails and when: no goods ordered in diamond or gold are in the row, or would
\* be after a restart, that were not paid for (the order of the saves in on_shop_buy).
NeverUnpaid == \A r \in {row, disk}, m \in Money : r.money[m] + r.worth[m] <= Funds[m]

\* Nor does a purchase count that brought no goods, where tb_item lists the item.
CountedIsHeld == \A r \in {row, disk}, g \in Listed : r.bought[g] <= r.held[g]

\* The bought count stays within the item's purchase limit.
CountWithinLimit == \A g \in Goods : Limit[g] > 0 => row.bought[g] <= Limit[g]

\* Wherever on_shop_buy is cut off, no goods are had in diamond or gold that were not
\* paid for, no listed good counts that was not had, and no count exceeds its limit.
FairTrade == NeverUnpaid /\ CountedIsHeld /\ CountWithinLimit

\* As long as nothing fails, an answered order is counted and saved, paid if it was in
\* diamond or gold, and given if tb_item lists the item.
BooksBalance == faults = 0 /\ pc = "idle" =>
    /\ disk = row /\ \A g \in Listed : row.bought[g] = row.held[g]
    /\ \A m \in Money : row.money[m] + row.worth[m] = Funds[m]

\* "Charge the chosen currency": what orders cost has been taken from the purse of the
\* currency they name, whichever that is (on_shop_buy's docstring).
Spent(r, m) == IF m \in Money THEN Funds[m] - r.money[m] ELSE 0
ChosenCurrencyCharged == \A r \in {row, disk}, m \in Currencies : r.worth[m] <= Spent(r, m)
=============================================================================
