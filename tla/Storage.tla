------------------------------ MODULE Storage -------------------------------
(***************************************************************************)
(* storage.py at the level of its files.  The account data lives in memory *)
(* (data); save() writes a temporary file and renames it over accounts.json*)
(* (file); _load() reads accounts.json when the process starts.  A save is *)
(* three steps here, open / dump / replace, and the process may die before *)
(* or after any of them, or a step may raise (disk full, file in use).     *)
(* on_create_player is the handler that creates rows; every other handler  *)
(* updates a row in place (Touch) and calls save().                        *)
(*                                                                         *)
(* Abstracted: a row is its account and a revision number, which stands    *)
(* for every other field; the first id 100000000000001 is 1.  The gateway  *)
(* is one asyncio thread, so nothing runs while a save is under way and    *)
(* _lock is never contended.                                               *)
(***************************************************************************)
EXTENDS Integers

CONSTANTS
    Accounts,       \* session ids that characters are filed under
    PlayerIds,      \* the ids the model may hand out
    MaxRev,         \* bound on the revision of a row
    MaxCrash,       \* bound on the number of times the process dies
    ReadMayFail,    \* TRUE: opening or parsing accounts.json may raise in _load
    NoRow, NoFile, Torn

StoredRow == [account : Accounts, rev : 0..MaxRev]
Images    == [PlayerIds -> StoredRow \cup {NoRow}]

ASSUME StorageAssumption ==
    /\ PlayerIds \subseteq Nat \ {0}
    /\ MaxRev \in Nat /\ MaxCrash \in Nat
    /\ ReadMayFail \in BOOLEAN
    /\ NoRow \notin Accounts /\ NoRow \notin StoredRow
    /\ NoFile # Torn /\ NoFile \notin Images /\ Torn \notin Images

VARIABLES
    data,       \* storage._data, the image in memory
    file,       \* accounts.json
    tmp,        \* accounts.json.tmp
    step,       \* where save() is: "idle", "open", "dump", "replace"; "down" = no process
    adding,     \* the id add_character will have stored when the running save returns, 0 if none
    acked,      \* ghost: the account each acknowledged character was created for
    crashes     \* bound: deaths of the process so far

storeVars == <<data, file, tmp, step, adding, acked, crashes>>

EmptyData == [p \in PlayerIds |-> NoRow]

Stored(d) == {p \in PlayerIds : d[p] # NoRow}

\* The image a reader of accounts.json gets; an absent file is an empty store.
saved == IF file = NoFile THEN EmptyData ELSE file

StoreInit ==
    /\ data = EmptyData
    /\ file = NoFile /\ tmp = NoFile
    /\ step = "idle" /\ adding = 0
    /\ acked = [p \in PlayerIds |-> NoRow]
    /\ crashes = 0
-----------------------------------------------------------------------------
\* Plausible bugs, used only to show that the properties below notice them.
DumpInPlace      == /\ step = "open"
                    /\ file' = Torn
                    /\ step' = "dump" /\ UNCHANGED <<data, tmp, adding, acked, crashes>>
CreateUnsaved(a, p) ==
    /\ step = "idle" /\ data[p] = NoRow
    /\ data' = [data EXCEPT ![p] = [account |-> a, rev |-> 0]]
    /\ acked' = [acked EXCEPT ![p] = a]
    /\ UNCHANGED <<file, tmp, step, adding, crashes>>
-----------------------------------------------------------------------------
\* next_playerid(): one more than the largest id in use, whatever its account.
NextId(p) == \E mx \in Stored(data) \cup {0} :
                 /\ \A q \in Stored(data) : q <= mx
                 /\ p = mx + 1

\* add_character(account, char), with the id on_create_player got from
\* next_playerid(): the row is in memory at once, save() is still to come.
AddCharacter(a, p) ==
    /\ step = "idle"
    /\ NextId(p)
    /\ data' = [data EXCEPT ![p] = [account |-> a, rev |-> 0]]
    /\ adding' = p
    /\ step' = "open"
    /\ UNCHANGED <<file, tmp, acked, crashes>>

\* A handler changes a row it got from find_by_pid, in place and unsaved.
Touch(p) ==
    /\ step = "idle"
    /\ data[p] # NoRow /\ data[p].rev < MaxRev
    /\ data' = [data EXCEPT ![p].rev = @ + 1]
    /\ UNCHANGED <<file, tmp, step, adding, acked, crashes>>

\* Any handler calls save().
Save ==
    /\ step = "idle"
    /\ step' = "open"
    /\ UNCHANGED <<data, file, tmp, adding, acked, crashes>>

\* open(tmp, "w") creates or truncates the temporary file.
SaveOpen ==
    /\ step = "open"
    /\ tmp' = Torn
    /\ step' = "dump"
    /\ UNCHANGED <<data, file, adding, acked, crashes>>

\* json.dump has written the whole image and the with block has closed it.
SaveDump ==
    /\ step = "dump"
    /\ tmp' = data
    /\ step' = "replace"
    /\ UNCHANGED <<data, file, adding, acked, crashes>>

\* os.replace(tmp, PATH); save() returns and on_create_player answers.
SaveReplace ==
    /\ step = "replace"
    /\ file' = tmp /\ tmp' = NoFile
    /\ step' = "idle" /\ adding' = 0
    /\ acked' = IF adding = 0 THEN acked
                ELSE [acked EXCEPT ![adding] = data[adding].account]
    /\ UNCHANGED <<data, crashes>>

\* open, dump or replace raises: the exception leaves save() and the handler,
\* and nothing is answered.  What was changed in memory stays changed.
StepRaises ==
    /\ step \in {"open", "dump", "replace"}
    /\ step' = "idle" /\ adding' = 0
    /\ UNCHANGED <<data, file, tmp, acked, crashes>>

\* The process dies, between two handlers or inside save().
ProcessDies ==
    /\ step # "down" /\ crashes < MaxCrash
    /\ step' = "down" /\ adding' = 0
    /\ data' = EmptyData
    /\ crashes' = crashes + 1
    /\ UNCHANGED <<file, tmp, acked>>

\* _load(): an absent file, or one that cannot be read, is an empty store.
Load == IF file \in {NoFile, Torn} THEN EmptyData ELSE file

Start ==
    /\ step = "down"
    /\ step' = "idle"
    /\ \/ data' = Load
       \/ ReadMayFail /\ data' = EmptyData
    /\ UNCHANGED <<file, tmp, adding, acked, crashes>>

StoreNext ==
    \/ \E a \in Accounts, p \in PlayerIds : AddCharacter(a, p)
    \/ \E p \in PlayerIds : Touch(p)
    \/ Save \/ SaveOpen \/ SaveDump \/ SaveReplace \/ StepRaises
    \/ ProcessDies \/ Start

StoreSpec == StoreInit /\ [][StoreNext]_storeVars
-----------------------------------------------------------------------------
\* Type invariant.
StoreTypeOK ==
    /\ data \in Images
    /\ file \in Images \cup {NoFile, Torn}
    /\ tmp \in Images \cup {NoFile, Torn}
    /\ step \in {"idle", "open", "dump", "replace", "down"}
    /\ adding \in PlayerIds \cup {0}
    /\ acked \in [PlayerIds -> Accounts \cup {NoRow}]
    /\ crashes \in 0..MaxCrash

\* accounts.json always holds one whole image: whenever the process dies, the
\* except branch of _load, which starts an empty store, is not taken.
NeverTorn == file # Torn

\* Every character whose creation was answered is on disk, under the account
\* that created it, and in memory while the process runs: no crash, failed
\* save, restart or later creation loses it or gives its id away.
AckedKept == \A p \in PlayerIds : acked[p] # NoRow =>
    /\ saved[p] # NoRow /\ saved[p].account = acked[p]
    /\ step # "down" => data[p] # NoRow /\ data[p].account = acked[p]

\* The store as its callers may think of it: a save makes the whole image in
\* memory durable at one instant, nothing else changes what is durable, and a
\* restart brings exactly that back.
Abstract == INSTANCE DurableStore
    WITH Fresh   <- EmptyData,
         up      <- step # "down",
         live    <- data,
         durable <- saved
AbstractSpec == Abstract!Spec
=============================================================================
