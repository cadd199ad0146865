------------------------------- MODULE Attire -------------------------------
(***************************************************************************)
(* The attire panel (gateway.py): on_show_opt blesses a slot until its     *)
(* tier advances, or raises its quality; on_show_figure_opt activates a    *)
(* figure, raises its star, or displays it and tells the client the packed *)
(* FIGURE1 that dresses the avatar.  Each handler changes the row of       *)
(* storage._data and saves it at its end.                                  *)
(*                                                                         *)
(* One character, online on one connection at a time; the client names one *)
(* of the ATTIRE_TYPES and a figure of its own tables (it has no other     *)
(* button), and genre 1: the server keeps nothing of genre 2.              *)
(* Abstracted: a USHORT holds 0..Word, a byte 0..Byte; a save is one step  *)
(* that may raise (Storage has its steps).                                 *)
(***************************************************************************)
EXTENDS Integers

CONSTANTS
    SlotCount,          \* ATTIRE_TYPES is 1..SlotCount, 4 in the code
    Figures,            \* figure ids of tb_show; 0 displays none
    Threshold,          \* tb_show's bless of each tier; 100 where it has none
    ATTIRE_MAX_TIER,
    ATTIRE_STAR_MAX,
    Byte, Word,         \* the greatest byte and the greatest USHORT
    MaxOps,             \* bound on the operations
    MaxFaults           \* bound on the saves that raise

ATTIRE_TYPES == 1..SlotCount

ASSUME AttireAssumption ==
    /\ SlotCount \in 0..4 /\ Byte \in Nat /\ Word \in Nat
    /\ ATTIRE_MAX_TIER \in Nat \ {0} /\ ATTIRE_STAR_MAX \in Nat
    /\ Threshold \in [ATTIRE_TYPES -> [1..ATTIRE_MAX_TIER -> Nat \ {0}]]
    /\ Figures \subseteq 1..Byte
    /\ MaxOps \in Nat /\ MaxFaults \in Nat

VARIABLES
    online,     \* the character is in the world on a connection
    row,        \* its exterior, attire and figures in storage._data
    disk,       \* the same as accounts.json has it
    panel,      \* what the client was last told of each slot
    look,       \* FIGURE1, as the client was last told
    answered,   \* ghost: the row as the last operation that was answered left it
    ops, faults \* bounds: operations, saves that raised

vars == <<online, row, disk, panel, look, answered, ops, faults>>

\* A slot of c["exterior"], with the defaults of attire_state; the owned figures
\* of c["attire"] with their stars; the displayed figure of c["figures"].
NewSlot == [level |-> 1, bless |-> 0, quality |-> 0]
NoFigures == [f \in {} |-> 0]

Init ==
    /\ online = FALSE
    /\ row = [exterior |-> [i \in ATTIRE_TYPES |-> NewSlot],
              attire |-> [i \in ATTIRE_TYPES |-> NoFigures],
              figures |-> [i \in ATTIRE_TYPES |-> 0]]
    /\ disk = row /\ answered = row
    /\ panel = [i \in ATTIRE_TYPES |-> NewSlot] /\ look = 0
    /\ ops = 0 /\ faults = 0

Smaller(a, b) == IF a < b THEN a ELSE b
Clamp(n) == Smaller(n, Word)        \* min(0xFFFF, n)

\* char_figure1: one byte for each of four slots, the first the lowest.
char_figure1(r) ==
    LET size == Byte + 1
        byte(i) == IF i \in ATTIRE_TYPES THEN r.figures[i] % size ELSE 0
    IN  byte(1) + size * (byte(2) + size * (byte(3) + size * byte(4)))

\* The byte of slot i, as the client unpacks it.
Unpacked(f, i) ==
    LET size == Byte + 1
        rest(n) == n \div size
    IN  (CASE i = 1 -> f [] i = 2 -> rest(f) [] i = 3 -> rest(rest(f))
           [] OTHER -> rest(rest(rest(f)))) % size

\* Bugs a change of this code could bring in stand before the definition they
\* would replace; they only show that a property below notices them.
ToldWrapped(slot) ==                \* no min
    [slot EXCEPT !.bless = @ % (Word + 1), !.quality = @ % (Word + 1)]

\* attire_state, as it is sent.
Told(slot) == [slot EXCEPT !.bless = Clamp(@), !.quality = Clamp(@)]

\* on_login_gateway sends FIGURE1 with the attributes.
LoginGateway ==
    /\ ~online
    /\ online' = TRUE
    /\ look' = char_figure1(row)
    /\ UNCHANGED <<row, disk, panel, answered, ops, faults>>

\* on_show_query: the whole page.
ShowQuery ==
    /\ online
    /\ panel' = [i \in ATTIRE_TYPES |-> Told(row.exterior[i])]
    /\ UNCHANGED <<online, row, disk, look, answered, ops, faults>>
-----------------------------------------------------------------------------
\* The end of a handler that changed the row: the save, and the answer; if the
\* save raises, the connection ends, and the finally block saves or fails too.
Saved == disk' = row' /\ answered' = row' /\ UNCHANGED <<online, faults>>
SaveRaised ==
    /\ faults < MaxFaults /\ faults' = faults + 1
    /\ online' = FALSE /\ UNCHANGED answered
    /\ disk' \in {disk, row'}

BlessedPast(slot, i) ==             \* > for >=
    LET b == slot.bless
             + (IF Threshold[i][slot.level] < 4 THEN 1 ELSE Threshold[i][slot.level] \div 4)
    IN  IF b > Threshold[i][slot.level] /\ slot.level < ATTIRE_MAX_TIER
        THEN [slot EXCEPT !.level = @ + 1, !.bless = 0]
        ELSE [slot EXCEPT !.bless = b]

\* opt 1: a quarter of the threshold at a time.
Blessed(slot, i) ==
    LET need == Threshold[i][slot.level]
        b == slot.bless + (IF need < 4 THEN 1 ELSE need \div 4)
    IN  IF b >= need /\ slot.level < ATTIRE_MAX_TIER
        THEN [slot EXCEPT !.level = @ + 1, !.bless = 0]
        ELSE [slot EXCEPT !.bless = b]

Improved(slot, i, opt) ==
    IF opt = 1 THEN Blessed(slot, i) ELSE [slot EXCEPT !.quality = @ + 1]

\* on_show_opt.
ShowOpt(i, opt) ==
    /\ online /\ ops < MaxOps /\ ops' = ops + 1
    /\ row' = [row EXCEPT !.exterior[i] = Improved(@, i, opt)]
    /\ \/ Saved /\ panel' = [panel EXCEPT ![i] = Told(row'.exterior[i])]
       \/ SaveRaised /\ UNCHANGED panel
    /\ UNCHANGED look
-----------------------------------------------------------------------------
\* opt 1, or 3: slot.setdefault(fig, 0).
Own(owned, f) ==
    [g \in DOMAIN owned \cup {f} |-> IF g \in DOMAIN owned THEN owned[g] ELSE 0]

\* opt 2: a figure that is not owned yet is, with its first star.
Star(owned, f) == [Own(owned, f) EXCEPT ![f] = Smaller(ATTIRE_STAR_MAX, @ + 1)]

\* on_show_figure_opt, opt 1 and 2.
ActivateFigure(i, f) ==
    /\ online /\ ops < MaxOps /\ ops' = ops + 1
    /\ row' = [row EXCEPT !.attire[i] = Own(@, f)]
    /\ Saved \/ SaveRaised
    /\ UNCHANGED <<panel, look>>

UpgradeStar(i, f) ==
    /\ online /\ ops < MaxOps /\ ops' = ops + 1
    /\ row' = [row EXCEPT !.attire[i] = Star(@, f)]
    /\ Saved \/ SaveRaised
    /\ UNCHANGED <<panel, look>>

DisplayUnowned(i, f) ==             \* no setdefault
    /\ online /\ ops < MaxOps /\ ops' = ops + 1
    /\ row' = [row EXCEPT !.figures[i] = f]
    /\ look' = char_figure1(row')
    /\ Saved \/ SaveRaised
    /\ UNCHANGED panel
DisplayUnsaved(i, f) ==             \* no storage.save
    /\ online /\ ops < MaxOps /\ ops' = ops + 1
    /\ row' = [row EXCEPT !.attire[i] = Own(@, f), !.figures[i] = f]
    /\ look' = char_figure1(row') /\ answered' = row'
    /\ UNCHANGED <<online, disk, panel, faults>>

\* opt 3: displaying implies owning; 0, which takes the display off, is then owned too.
\* FIGURE1 goes out before the save.
DisplayFigure(i, f) ==
    /\ online /\ ops < MaxOps /\ ops' = ops + 1
    /\ row' = [row EXCEPT !.attire[i] = Own(@, f), !.figures[i] = f]
    /\ look' = char_figure1(row')
    /\ Saved \/ SaveRaised
    /\ UNCHANGED panel
-----------------------------------------------------------------------------
\* The process dies and starts again.
Die ==
    /\ online' = FALSE /\ row' = disk
    /\ UNCHANGED <<disk, panel, look, answered, ops, faults>>

\* The finally block of handle_conn saves the store.
Disconnect ==
    /\ online
    /\ online' = FALSE /\ disk' = row
    /\ UNCHANGED <<row, panel, look, answered, ops, faults>>

Next ==
    \/ LoginGateway \/ ShowQuery \/ Die \/ Disconnect
    \/ \E i \in ATTIRE_TYPES :
          \/ \E opt \in {1, 2} : ShowOpt(i, opt)
          \/ \E f \in Figures : ActivateFigure(i, f) \/ UpgradeStar(i, f)
          \/ \E f \in Figures \cup {0} : DisplayFigure(i, f)

Spec == Init /\ [][Next]_vars
-----------------------------------------------------------------------------
\* No click is wasted, and none goes too far: a slot whose bless has reached the
\* threshold is at the last tier (on_show_opt: "on reaching it the tier advances"),
\* and no star is above the last.
TierAdvances == \A r \in {row, disk}, i \in ATTIRE_TYPES : LET slot == r.exterior[i] IN
    /\ slot.level <= ATTIRE_MAX_TIER
    /\ slot.bless >= Threshold[i][slot.level] => slot.level = ATTIRE_MAX_TIER
    /\ \A f \in DOMAIN r.attire[i] : r.attire[i][f] <= ATTIRE_STAR_MAX

\* What a player shows, it owns, also after a crash.
ShownIsOwned == \A r \in {row, disk}, i \in ATTIRE_TYPES :
    r.figures[i] # 0 => r.figures[i] \in DOMAIN r.attire[i]

\* The avatar a client sees wears, slot for slot, what the row says, as long as the
\* client is there to be told (on_show_figure_opt, char_figure1).
AvatarTrue == online => \A i \in ATTIRE_TYPES : Unpacked(look, i) = row.figures[i]

\* The client is told, of a slot, nothing but what the row says, up to what
\* its field can hold: nothing wraps around.
PanelTrue == faults = 0 => \A i \in ATTIRE_TYPES :
    /\ panel[i].level = row.exterior[i].level
    /\ \A n \in 0..Word : panel[i].bless >= n <=> row.exterior[i].bless >= n
    /\ \A n \in 0..Word : panel[i].quality >= n <=> row.exterior[i].quality >= n

\* What the client shows of a character's looks is what the row says.
ClientTrue == AvatarTrue /\ PanelTrue

\* What an operation was answered with is never taken back, by no later operation, no
\* save that raises and no restart: tier, bless within a tier, quality, stars and figures
\* only grow from there, in memory and on disk (every handler saves before it answers).
\* An operation whose save raised is not answered, and may be lost.
OnlyGrows(r, s) == \A i \in ATTIRE_TYPES :
    /\ s.exterior[i].level >= r.exterior[i].level
    /\ s.exterior[i].level = r.exterior[i].level =>
          s.exterior[i].bless >= r.exterior[i].bless
    /\ s.exterior[i].quality >= r.exterior[i].quality
    /\ \A f \in DOMAIN r.attire[i] :
          f \in DOMAIN s.attire[i] /\ s.attire[i][f] >= r.attire[i][f]
NothingTakenBack == [][OnlyGrows(answered, row') /\ OnlyGrows(answered, disk')]_vars
=============================================================================
