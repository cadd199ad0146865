---------------------------- MODULE AttireProofs ----------------------------
(***************************************************************************)
(* The theorems of Attire, for any slots, figures, thresholds and field    *)
(* widths, any number of operations and any failures.  The inductive       *)
(* invariant says of the row and of the one on disk the same: figures only *)
(* where they belong, tiers and stars within their limits, what is shown   *)
(* is owned, nothing less than what was last answered; and, as long as no  *)
(* save has raised, that the disk has the row and the client's panel is    *)
(* that of the row.                                                        *)
(***************************************************************************)
EXTENDS Attire, TLAPS

Slot == [level : 1..ATTIRE_MAX_TIER, bless : Nat, quality : Nat]

\* Owned figures and their stars.
Stars == UNION {[F -> Nat] : F \in SUBSET (Figures \cup {0})}
Owned(a) == DOMAIN a \subseteq Figures \cup {0} /\ \A f \in DOMAIN a : a[f] \in 0..ATTIRE_STAR_MAX

Typed(r) ==
    /\ r \in [exterior : [ATTIRE_TYPES -> Slot],
              attire : [ATTIRE_TYPES -> Stars],
              figures : [ATTIRE_TYPES -> Figures \cup {0}]]
    /\ \A i \in ATTIRE_TYPES : Owned(r.attire[i])

\* TierAdvances of one slot, ShownIsOwned of one row.
Advanced(slot, i) == slot.bless >= Threshold[i][slot.level] => slot.level = ATTIRE_MAX_TIER
Dressed(r) == \A i \in ATTIRE_TYPES : /\ Advanced(r.exterior[i], i)
                                      /\ r.figures[i] # 0 => r.figures[i] \in DOMAIN r.attire[i]

TypeOK ==
    /\ online \in BOOLEAN
    /\ Typed(row) /\ Typed(disk) /\ Typed(answered)
    /\ panel \in [ATTIRE_TYPES -> Slot]
    /\ look \in Nat
    /\ ops \in 0..MaxOps /\ faults \in 0..MaxFaults

\* What holds as long as no save has raised.
Faultless == faults = 0 =>
    /\ disk = row
    /\ \A i \in ATTIRE_TYPES : panel[i] = Told(row.exterior[i])

Looks == online => look = char_figure1(row)

Kept == OnlyGrows(answered, row) /\ OnlyGrows(answered, disk)

IInv == TypeOK /\ Dressed(row) /\ Dressed(disk) /\ Faultless /\ Looks /\ Kept
-----------------------------------------------------------------------------
\* What the operations do to a slot and to the owned figures.

LEMMA SlotFields ==
    ASSUME NEW slot \in Slot
    PROVE  slot = [level |-> slot.level, bless |-> slot.bless, quality |-> slot.quality]
BY DEF Slot

LEMMA ToldTyped ==
    ASSUME NEW slot \in Slot
    PROVE  /\ Told(slot) \in Slot /\ Told(slot).level = slot.level
           /\ Told(slot).bless = Clamp(slot.bless) /\ Told(slot).quality = Clamp(slot.quality)
<1>1. Clamp(slot.bless) \in Nat /\ Clamp(slot.quality) \in Nat
    BY AttireAssumption DEF Slot, Clamp, Smaller
<1> QED BY <1>1 DEF Slot, Told

LEMMA BlessedSlot ==
    ASSUME NEW slot \in Slot, NEW i \in ATTIRE_TYPES, NEW opt \in {1, 2}, Advanced(slot, i),
           NEW new, new = Improved(slot, i, opt)
    PROVE  /\ new \in Slot /\ Advanced(new, i)
           /\ new.level >= slot.level
           /\ new.level = slot.level => new.bless >= slot.bless
           /\ new.quality >= slot.quality
<1> DEFINE need == Threshold[i][slot.level]
           part == IF need < 4 THEN 1 ELSE need \div 4
           b    == slot.bless + part
<1>1. /\ slot.level \in 1..ATTIRE_MAX_TIER /\ slot.bless \in Nat /\ slot.quality \in Nat
      /\ ATTIRE_MAX_TIER \in Nat
      /\ \A l \in 1..ATTIRE_MAX_TIER : Threshold[i][l] \in Nat \ {0}
    BY AttireAssumption DEF Slot
<1>2. part \in Nat
    BY <1>1
<1>3. b \in Nat /\ b >= slot.bless
    BY <1>1, <1>2
<1>4. CASE opt = 2
    BY <1>1, <1>4 DEF Improved, Slot, Advanced
<1>5. CASE opt = 1 /\ b >= need /\ slot.level < ATTIRE_MAX_TIER
    <2>1. Improved(slot, i, opt) = [slot EXCEPT !.level = slot.level + 1, !.bless = 0]
        BY <1>5 DEF Improved, Blessed
    <2> HIDE DEF need, b
    <2>2. slot.level + 1 \in 1..ATTIRE_MAX_TIER
        BY <1>1, <1>5
    <2>3. Threshold[i][slot.level + 1] \in Nat \ {0}
        BY <1>1, <2>2
    <2>4. slot = [level |-> slot.level, bless |-> slot.bless, quality |-> slot.quality]
        BY SlotFields
    <2>5. new = [level |-> slot.level + 1, bless |-> 0, quality |-> slot.quality]
        BY <2>1, <2>4
    <2>6. /\ new.level = slot.level + 1 /\ new.bless = 0 /\ new.quality = slot.quality
          /\ new \in Slot
        BY <2>5, <2>2, <1>1 DEF Slot
    <2>7. Advanced(new, i)
        BY <2>3, <2>6 DEF Advanced
    <2> QED BY <2>6, <2>7, <1>1
<1>6. CASE opt = 1 /\ ~(b >= need /\ slot.level < ATTIRE_MAX_TIER)
    <2>1. Improved(slot, i, opt) = [slot EXCEPT !.bless = b]
        BY <1>6 DEF Improved, Blessed
    <2>2. b >= need => slot.level = ATTIRE_MAX_TIER
        BY <1>1, <1>6
    <2>3. need = Threshold[i][slot.level]
        OBVIOUS
    <2> HIDE DEF need, b
    <2> QED BY <2>1, <2>2, <2>3, <1>1, <1>3 DEF Slot, Advanced
<1> QED BY <1>4, <1>5, <1>6

\* opt 1 and 3 own a figure, opt 2 raises its star; nothing is lost.
LEMMA OwnStar ==
    ASSUME NEW a \in Stars, Owned(a), NEW f \in Figures \cup {0}, NEW b \in {Own(a, f), Star(a, f)}
    PROVE  /\ b \in Stars /\ Owned(b) /\ f \in DOMAIN b
           /\ \A g \in DOMAIN a : g \in DOMAIN b /\ b[g] >= a[g]
<1> DEFINE o == Own(a, f)
<1>1. /\ DOMAIN o = DOMAIN a \cup {f} /\ DOMAIN a \cup {f} \in SUBSET (Figures \cup {0})
      /\ \A g \in DOMAIN o : o[g] = IF g \in DOMAIN a THEN a[g] ELSE 0
      /\ o = [g \in DOMAIN o |-> o[g]]
    BY DEF Own, Owned
<1>2. ATTIRE_STAR_MAX \in Nat /\ \A g \in DOMAIN a : a[g] \in 0..ATTIRE_STAR_MAX
    BY AttireAssumption DEF Owned
<1>3. \A g \in DOMAIN o : o[g] \in 0..ATTIRE_STAR_MAX /\ (g \in DOMAIN a => o[g] >= a[g])
    BY <1>1, <1>2
<1>4. o \in [DOMAIN o -> Nat]
    BY <1>1, <1>3
<1> DEFINE s == Smaller(ATTIRE_STAR_MAX, o[f] + 1)
<1>5. s \in 0..ATTIRE_STAR_MAX /\ s >= o[f] /\ f \in DOMAIN o
    BY <1>1, <1>2, <1>3 DEF Smaller
<1>6. Star(a, f) = [o EXCEPT ![f] = s]
    BY DEF Star
<1> HIDE DEF o, s
<1>7. /\ DOMAIN b = DOMAIN o /\ b \in [DOMAIN o -> Nat]
      /\ \A g \in DOMAIN b : b[g] = o[g] \/ (g = f /\ b[g] = s)
    <2>1. CASE b = Own(a, f)
        BY <2>1, <1>4 DEF o
    <2>2. CASE b = Star(a, f)
        BY <2>2, <1>4, <1>5, <1>6
    <2> QED BY <2>1, <2>2
<1>8. b \in Stars
    BY <1>1, <1>7 DEF Stars
<1>9. \A g \in DOMAIN b : b[g] \in 0..ATTIRE_STAR_MAX /\ b[g] >= o[g]
    BY <1>1, <1>2, <1>3, <1>5, <1>7
<1> QED BY <1>1, <1>2, <1>3, <1>7, <1>8, <1>9 DEF Owned

\* What a player's operation makes of a row: nothing of slot i is lost, and no other
\* slot is touched.
Keeps(r, q) == Typed(q) /\ Dressed(q) /\ OnlyGrows(r, q)

LEMMA SameGrows == ASSUME NEW r, Typed(r) PROVE OnlyGrows(r, r)
BY AttireAssumption DEF Typed, Slot, Owned, OnlyGrows

LEMMA GrowsOn ==
    ASSUME NEW r, NEW q, NEW s, Typed(r), Typed(q), Typed(s), OnlyGrows(r, q), OnlyGrows(q, s)
    PROVE  OnlyGrows(r, s)
<1> SUFFICES ASSUME NEW i \in ATTIRE_TYPES
             PROVE  /\ s.exterior[i].level >= r.exterior[i].level
                    /\ s.exterior[i].level = r.exterior[i].level =>
                          s.exterior[i].bless >= r.exterior[i].bless
                    /\ s.exterior[i].quality >= r.exterior[i].quality
                    /\ \A f \in DOMAIN r.attire[i] :
                          f \in DOMAIN s.attire[i] /\ s.attire[i][f] >= r.attire[i][f]
    BY DEF OnlyGrows
<1>1. PICK a, b, c : a = r.exterior[i] /\ b = q.exterior[i] /\ c = s.exterior[i]
    OBVIOUS
<1>2. a \in Slot /\ b \in Slot /\ c \in Slot
    BY <1>1 DEF Typed
<1>3. /\ a.level \in Nat /\ a.bless \in Nat /\ a.quality \in Nat
      /\ b.level \in Nat /\ b.bless \in Nat /\ b.quality \in Nat
      /\ c.level \in Nat /\ c.bless \in Nat /\ c.quality \in Nat
    BY <1>2, AttireAssumption DEF Slot
<1>4. /\ b.level >= a.level /\ (b.level = a.level => b.bless >= a.bless) /\ b.quality >= a.quality
      /\ c.level >= b.level /\ (c.level = b.level => c.bless >= b.bless) /\ c.quality >= b.quality
    BY <1>1 DEF OnlyGrows
<1>5. c.level >= a.level /\ (c.level = a.level => c.bless >= a.bless) /\ c.quality >= a.quality
    BY <1>3, <1>4
<1>6. ASSUME NEW f \in DOMAIN r.attire[i]
      PROVE  f \in DOMAIN s.attire[i] /\ s.attire[i][f] >= r.attire[i][f]
    <2>1. f \in DOMAIN q.attire[i] /\ q.attire[i][f] >= r.attire[i][f]
        BY DEF OnlyGrows
    <2>2. f \in DOMAIN s.attire[i] /\ s.attire[i][f] >= q.attire[i][f]
        BY <2>1 DEF OnlyGrows
    <2>3. r.attire[i][f] \in Nat /\ q.attire[i][f] \in Nat /\ s.attire[i][f] \in Nat
        BY <2>1, <2>2, AttireAssumption DEF Typed, Owned
    <2> QED BY <2>1, <2>2, <2>3
<1> QED BY <1>1, <1>5, <1>6

LEMMA ImprovedKeeps ==
    ASSUME NEW r, Typed(r), Dressed(r), NEW i \in ATTIRE_TYPES, NEW opt \in {1, 2}
    PROVE  Keeps(r, [r EXCEPT !.exterior[i] = Improved(@, i, opt)])
<1> DEFINE new == Improved(r.exterior[i], i, opt)
           q   == [r EXCEPT !.exterior[i] = new]
<1>1. r.exterior[i] \in Slot /\ Advanced(r.exterior[i], i)
    BY DEF Typed, Dressed
<1>2. /\ new \in Slot /\ Advanced(new, i)
      /\ new.level >= r.exterior[i].level
      /\ new.level = r.exterior[i].level => new.bless >= r.exterior[i].bless
      /\ new.quality >= r.exterior[i].quality
    BY <1>1, BlessedSlot
<1> HIDE DEF new
<1>3. /\ q \in [exterior : [ATTIRE_TYPES -> Slot], attire : [ATTIRE_TYPES -> Stars],
                figures : [ATTIRE_TYPES -> Figures \cup {0}]]
      /\ q.attire = r.attire /\ q.figures = r.figures
      /\ q.exterior = [r.exterior EXCEPT ![i] = new]
    BY <1>2 DEF Typed
<1>4. q.exterior[i] = new /\ \A j \in ATTIRE_TYPES : j # i => q.exterior[j] = r.exterior[j]
    BY <1>3 DEF Typed
<1> HIDE DEF q
<1>5. Typed(q) /\ Dressed(q)
    BY <1>2, <1>3, <1>4 DEF Typed, Dressed
<1>6. OnlyGrows(r, q)
    BY <1>2, <1>3, <1>4, SameGrows DEF OnlyGrows
<1> QED BY <1>5, <1>6 DEF Keeps, q, new

\* The same for the owned figures of slot i, and the figure it displays afterwards.
LEMMA WornKeeps ==
    ASSUME NEW r, Typed(r), Dressed(r), NEW i \in ATTIRE_TYPES, NEW f \in Figures \cup {0},
           NEW b \in {Own(r.attire[i], f), Star(r.attire[i], f)},
           NEW g \in {f, r.figures[i]}
    PROVE  Keeps(r, [r EXCEPT !.attire[i] = b, !.figures[i] = g])
<1> DEFINE q == [r EXCEPT !.attire[i] = b, !.figures[i] = g]
<1>1. /\ b \in Stars /\ Owned(b) /\ f \in DOMAIN b
      /\ \A h \in DOMAIN r.attire[i] : h \in DOMAIN b /\ b[h] >= r.attire[i][h]
    BY OwnStar DEF Typed
<1>2. g \in Figures \cup {0} /\ (g # 0 => g \in DOMAIN b)
    BY <1>1 DEF Typed, Dressed
<1>3. /\ q \in [exterior : [ATTIRE_TYPES -> Slot], attire : [ATTIRE_TYPES -> Stars],
                figures : [ATTIRE_TYPES -> Figures \cup {0}]]
      /\ q.exterior = r.exterior
      /\ q.attire = [r.attire EXCEPT ![i] = b] /\ q.figures = [r.figures EXCEPT ![i] = g]
    BY <1>1, <1>2 DEF Typed
<1>4. /\ q.attire[i] = b /\ q.figures[i] = g
      /\ \A j \in ATTIRE_TYPES : j # i => q.attire[j] = r.attire[j] /\ q.figures[j] = r.figures[j]
    BY <1>3 DEF Typed
<1> HIDE DEF q
<1>5. Typed(q) /\ Dressed(q)
    BY <1>1, <1>2, <1>3, <1>4 DEF Typed, Dressed
<1>6. OnlyGrows(r, q)
    BY <1>1, <1>3, <1>4, SameGrows DEF OnlyGrows
<1> QED BY <1>5, <1>6 DEF Keeps, q
-----------------------------------------------------------------------------
\* FIGURE1: packing and unpacking.

\* Digits in a base.
LEMMA Digit ==
    ASSUME NEW size \in Nat \ {0}, NEW x \in 0..(size - 1), NEW y \in Nat
    PROVE  /\ x + size * y \in Nat
           /\ (x + size * y) % size = x
           /\ (x + size * y) \div size = y
<1> DEFINE n == x + size * y
           q == n \div size
           m == n % size
<1>1. size * y \in Nat
    OBVIOUS
<1>2. n \in Nat
    BY <1>1
<1>3. q \in Nat /\ m \in 0..(size - 1) /\ n = size * q + m
    BY <1>2
<1> HIDE DEF q, m
<1>4. size * (y - q) = m - x
    BY <1>3
<1>5. ~(y - q >= 1)
    <2> SUFFICES ASSUME y - q >= 1 PROVE FALSE
        OBVIOUS
    <2>1. size * (y - q) >= size
        BY <1>3
    <2> QED BY <2>1, <1>3, <1>4
<1>6. ~(y - q <= -1)
    <2> SUFFICES ASSUME y - q <= -1 PROVE FALSE
        OBVIOUS
    <2>1. size * (y - q) <= -size
        BY <1>3
    <2> QED BY <2>1, <1>3, <1>4
<1>7. y = q
    BY <1>3, <1>5, <1>6
<1> QED BY <1>2, <1>3, <1>4, <1>7 DEF q, m

\* What the client unpacks of a slot is the figure the row displays there.
LEMMA UnpackedPacked ==
    ASSUME NEW r, Typed(r)
    PROVE  /\ char_figure1(r) \in Nat
           /\ \A i \in ATTIRE_TYPES : Unpacked(char_figure1(r), i) = r.figures[i]
<1> DEFINE size == Byte + 1
           byte(j) == IF j \in ATTIRE_TYPES THEN r.figures[j] % size ELSE 0
           d3 == byte(3) + size * byte(4)
           d2 == byte(2) + size * d3
           d1 == byte(1) + size * d2
<1>1. size \in Nat \ {0} /\ ATTIRE_TYPES \subseteq 1..4
    BY AttireAssumption DEF ATTIRE_TYPES
<1>2. ASSUME NEW j \in ATTIRE_TYPES PROVE r.figures[j] \in 0..Byte
    <2>1. r.figures[j] \in Figures \cup {0}
        BY DEF Typed
    <2>2. \A f \in Figures \cup {0} : f \in 0..Byte
        BY AttireAssumption
    <2> QED BY <2>1, <2>2
<1>3. ASSUME NEW n \in 0..Byte PROVE n % size = n
    <2>1. n \in 0..(size - 1) /\ n + size * 0 = n
        BY AttireAssumption
    <2> HIDE DEF size
    <2>2. (n + size * 0) % size = n
        BY <1>1, <2>1, Digit
    <2> QED BY <2>1, <2>2
<1>4. ASSUME NEW j \in 1..4 PROVE byte(j) \in 0..(size - 1)
    <2>1. CASE j \in ATTIRE_TYPES
        <3>1. byte(j) = r.figures[j] /\ r.figures[j] \in 0..Byte
            BY <1>2, <1>3, <2>1
        <3>2. Byte = size - 1
            BY AttireAssumption
        <3> QED BY <3>1, <3>2
    <2>2. CASE j \notin ATTIRE_TYPES
        BY <2>2, AttireAssumption
    <2> QED BY <2>1, <2>2
<1>5. \A i \in ATTIRE_TYPES : byte(i) = r.figures[i]
    BY <1>2, <1>3
<1> HIDE DEF size, byte
<1>6. /\ byte(1) \in 0..(size - 1) /\ byte(2) \in 0..(size - 1)
      /\ byte(3) \in 0..(size - 1) /\ byte(4) \in 0..(size - 1)
    BY <1>4
<1>7. d3 \in Nat /\ d3 % size = byte(3) /\ d3 \div size = byte(4)
    <2>1. byte(4) \in Nat
        BY <1>6, <1>1
    <2> QED BY <1>1, <1>6, <2>1, Digit
<1> HIDE DEF d3
<1>8. d2 \in Nat /\ d2 % size = byte(2) /\ d2 \div size = d3
    <2>1. d3 \in Nat /\ byte(2) \in 0..(size - 1) /\ size \in Nat \ {0}
        BY <1>1, <1>6, <1>7
    <2> QED BY <2>1, Digit
<1> HIDE DEF d2
<1>9. d1 \in Nat /\ d1 % size = byte(1) /\ d1 \div size = d2
    <2>1. d2 \in Nat /\ byte(1) \in 0..(size - 1) /\ size \in Nat \ {0}
        BY <1>1, <1>6, <1>8
    <2> QED BY <2>1, Digit
<1>10. byte(4) % size = byte(4)
    BY <1>1, <1>3, <1>6, AttireAssumption DEF size
<1>11. char_figure1(r) = d1
    BY DEF char_figure1, d3, d2, byte, size
<1> HIDE DEF d1
<1>12. \A i \in ATTIRE_TYPES : Unpacked(d1, i) = byte(i)
    BY <1>1, <1>7, <1>8, <1>9, <1>10 DEF Unpacked, size
<1> QED BY <1>5, <1>9, <1>11, <1>12
-----------------------------------------------------------------------------
LEMMA IInvInit == Init => IInv
<1> SUFFICES ASSUME Init PROVE IInv
    OBVIOUS
<1>1. NewSlot \in Slot /\ NoFigures \in Stars /\ Owned(NoFigures) /\ Told(NewSlot) = NewSlot
    <2>1. NoFigures \in [{} -> Nat] /\ DOMAIN NoFigures = {}
        BY DEF NoFigures
    <2>2. NewSlot \in Slot
        BY AttireAssumption DEF NewSlot, Slot
    <2>3. Clamp(0) = 0
        BY AttireAssumption DEF Clamp, Smaller
    <2>4. Told(NewSlot) = NewSlot
        <3>1. /\ Told(NewSlot) \in Slot /\ Told(NewSlot).level = 1
              /\ Told(NewSlot).bless = 0 /\ Told(NewSlot).quality = 0
            BY <2>2, <2>3, ToldTyped DEF NewSlot
        <3> QED BY <3>1, SlotFields DEF NewSlot
    <2> QED BY <2>1, <2>2, <2>4 DEF Owned, Stars
<1>2. Typed(row)
    BY <1>1 DEF Init, Typed
<1>3. \A i \in ATTIRE_TYPES : Threshold[i][1] \in Nat \ {0}
    BY AttireAssumption
<1>4. Dressed(row)
    BY <1>3 DEF Init, Dressed, Advanced, NewSlot
<1>5. TypeOK
    <2>1. 0 \in 0..MaxOps /\ 0 \in 0..MaxFaults
        BY AttireAssumption
    <2> QED BY <1>1, <1>2, <2>1 DEF Init, TypeOK
<1>6. Faultless /\ Looks
    BY <1>1 DEF Init, Faultless, Looks
<1>7. Kept
    BY <1>2, SameGrows DEF Init, Kept
<1> QED BY <1>4, <1>5, <1>6, <1>7 DEF Init, IInv

\* A handler that has changed the row and ends with a save that succeeds or raises.
LEMMA HandlerKeeps ==
    ASSUME IInv, Keeps(row, row'), ops < MaxOps, ops' = ops + 1, Saved \/ SaveRaised,
           panel' \in [ATTIRE_TYPES -> Slot], look' \in Nat,
           faults' = 0 => \A i \in ATTIRE_TYPES : panel'[i] = Told(row'.exterior[i]),
           online => look' = char_figure1(row')
    PROVE  IInv'
<1>1. Typed(row') /\ Dressed(row')
    BY DEF Keeps
<1>2. /\ disk' \in {disk, row'} /\ faults' \in 0..MaxFaults
      /\ online' \in BOOLEAN /\ (online' => online)
      /\ faults' = 0 => disk' = row'
    <2>1. online \in BOOLEAN /\ faults \in 0..MaxFaults /\ MaxFaults \in Nat
        BY AttireAssumption DEF IInv, TypeOK
    <2>2. CASE Saved
        BY <2>1, <2>2 DEF Saved
    <2>3. CASE SaveRaised
        <3>1. faults < MaxFaults /\ faults' = faults + 1 /\ online' = FALSE /\ disk' \in {disk, row'}
            BY <2>3 DEF SaveRaised
        <3>2. faults' \in 0..MaxFaults /\ faults' # 0
            BY <2>1, <3>1
        <3>3. online' \in BOOLEAN /\ (online' => online)
            BY <3>1
        <3> QED BY <3>1, <3>2, <3>3
    <2> QED BY <2>2, <2>3
<1>3. Typed(disk)' /\ Dressed(disk)'
    BY <1>1, <1>2 DEF IInv, TypeOK
<1>4. Typed(answered)' /\ Kept'
    <2>1. OnlyGrows(row', row') /\ OnlyGrows(answered, row')
        <3>1. Typed(answered) /\ Typed(row) /\ OnlyGrows(answered, row) /\ OnlyGrows(row, row')
            BY DEF IInv, TypeOK, Kept, Keeps
        <3> QED BY <1>1, <3>1, SameGrows, GrowsOn
    <2>2. CASE Saved
        <3>1. disk' = row' /\ answered' = row'
            BY <2>2 DEF Saved
        <3> QED BY <1>1, <2>1, <3>1 DEF Kept
    <2>3. CASE SaveRaised
        <3>1. answered' = answered
            BY <2>3 DEF SaveRaised
        <3> QED BY <1>2, <2>1, <3>1 DEF Kept, IInv, TypeOK
    <2> QED BY <2>2, <2>3
<1>5. TypeOK'
    <2>1. ops' \in 0..MaxOps
        BY AttireAssumption DEF IInv, TypeOK
    <2>2. online' \in BOOLEAN
        BY <1>2 DEF IInv, TypeOK
    <2> QED BY <1>1, <1>2, <1>3, <1>4, <2>1, <2>2 DEF TypeOK
<1>6. Faultless' /\ Looks'
    BY <1>2 DEF Faultless, Looks
<1> QED BY <1>1, <1>3, <1>5, <1>6, <1>4 DEF IInv

\* opt 1 and 2 of on_show_opt.
LEMMA ShowOptKeeps ==
    ASSUME IInv, NEW i \in ATTIRE_TYPES, NEW opt \in {1, 2}, ShowOpt(i, opt)
    PROVE  IInv' /\ Keeps(row, row')
<1>1. Typed(row) /\ Dressed(row) /\ panel \in [ATTIRE_TYPES -> Slot]
    BY DEF IInv, TypeOK
<1>2. Keeps(row, row')
    BY <1>1, ImprovedKeeps DEF ShowOpt
<1>3. /\ row'.figures = row.figures
      /\ row'.exterior = [row.exterior EXCEPT ![i] = Improved(row.exterior[i], i, opt)]
    BY <1>1 DEF ShowOpt, Typed
<1>4. /\ Told(row'.exterior[i]) \in Slot
      /\ \A j \in ATTIRE_TYPES : j # i => row'.exterior[j] = row.exterior[j]
    <2>1. row'.exterior[i] \in Slot
        BY <1>2 DEF Keeps, Typed
    <2> QED BY <2>1, <1>1, <1>3, ToldTyped DEF Typed
<1>5. char_figure1(row') = char_figure1(row)
    BY <1>3 DEF char_figure1
<1>6. CASE Saved /\ panel' = [panel EXCEPT ![i] = Told(row'.exterior[i])]
    <2>1. /\ panel' \in [ATTIRE_TYPES -> Slot] /\ panel'[i] = Told(row'.exterior[i])
          /\ \A j \in ATTIRE_TYPES : j # i => panel'[j] = panel[j]
        BY <1>1, <1>4, <1>6
    <2>2. faults' = 0 => \A j \in ATTIRE_TYPES : panel'[j] = Told(row'.exterior[j])
        BY <1>4, <1>6, <2>1 DEF Saved, IInv, Faultless
    <2> QED BY <1>2, <1>5, <1>6, <2>1, <2>2, HandlerKeeps
            DEF ShowOpt, IInv, TypeOK, Looks, Keeps
<1>7. CASE SaveRaised /\ UNCHANGED panel
    <2>1. faults' # 0
        BY <1>7 DEF SaveRaised, IInv, TypeOK
    <2> QED BY <1>1, <1>2, <1>5, <1>7, <2>1, HandlerKeeps
            DEF ShowOpt, IInv, TypeOK, Looks, Keeps
<1> QED BY <1>6, <1>7 DEF ShowOpt

\* on_show_figure_opt.
LEMMA FigureOptKeeps ==
    ASSUME IInv, NEW i \in ATTIRE_TYPES, NEW f \in Figures \cup {0},
           ActivateFigure(i, f) \/ UpgradeStar(i, f) \/ DisplayFigure(i, f)
    PROVE  IInv' /\ Keeps(row, row')
<1>1. Typed(row) /\ Dressed(row) /\ panel \in [ATTIRE_TYPES -> Slot]
    BY DEF IInv, TypeOK
<1>2. PICK b \in {Own(row.attire[i], f), Star(row.attire[i], f)}, g \in {f, row.figures[i]} :
          /\ row' = [row EXCEPT !.attire[i] = b, !.figures[i] = g]
          /\ g = row.figures[i] \/ DisplayFigure(i, f)
    <2>1. row = [row EXCEPT !.figures[i] = row.figures[i]]
        BY <1>1 DEF Typed
    <2>2. CASE ActivateFigure(i, f)
        BY <2>2, <1>1 DEF ActivateFigure, Typed
    <2>3. CASE UpgradeStar(i, f)
        BY <2>3, <1>1 DEF UpgradeStar, Typed
    <2>4. CASE DisplayFigure(i, f)
        BY <2>4 DEF DisplayFigure
    <2> QED BY <2>2, <2>3, <2>4
<1>3. Keeps(row, row')
    BY <1>1, <1>2, WornKeeps
<1>4. row'.exterior = row.exterior /\ row'.figures = [row.figures EXCEPT ![i] = g]
    BY <1>1, <1>2 DEF Typed
<1>5. /\ (Saved \/ SaveRaised) /\ panel' = panel /\ ops < MaxOps /\ ops' = ops + 1
      /\ online /\ (look' = look \/ look' = char_figure1(row'))
    BY DEF ActivateFigure, UpgradeStar, DisplayFigure
<1>6. look' = char_figure1(row')
    <2>1. CASE DisplayFigure(i, f)
        BY <2>1 DEF DisplayFigure
    <2>2. CASE g = row.figures[i] /\ ~DisplayFigure(i, f)
        <3>1. row'.figures = row.figures
            BY <1>1, <1>4, <2>2 DEF Typed
        <3>2. char_figure1(row') = char_figure1(row)
            BY <3>1 DEF char_figure1
        <3> QED BY <3>2, <1>5, <2>2 DEF ActivateFigure, UpgradeStar, IInv, Looks
    <2> QED BY <1>2, <2>1, <2>2
<1>7. look' \in Nat
    <2>1. CASE look' = look
        BY <2>1 DEF IInv, TypeOK
    <2>2. CASE DisplayFigure(i, f)
        BY <2>2, <1>3, <1>6, UnpackedPacked DEF Keeps
    <2> QED BY <2>1, <2>2 DEF ActivateFigure, UpgradeStar
<1>8. faults' = 0 => \A j \in ATTIRE_TYPES : panel'[j] = Told(row'.exterior[j])
    <2>1. SaveRaised => faults' # 0
        BY DEF SaveRaised, IInv, TypeOK
    <2>2. Saved => faults' = faults
        BY DEF Saved
    <2> QED BY <1>4, <1>5, <2>1, <2>2 DEF IInv, Faultless
<1>9. IInv'
    BY <1>1, <1>3, <1>5, <1>6, <1>7, <1>8, HandlerKeeps
<1> QED BY <1>3, <1>9 DEF Keeps

LEMMA IInvNext == ASSUME IInv, [Next]_vars PROVE IInv'
<1>1. Typed(row) /\ Typed(disk) /\ Typed(answered)
    BY DEF IInv, TypeOK
<1>2. CASE LoginGateway
    <2>1. char_figure1(row) \in Nat
        BY <1>1, UnpackedPacked DEF IInv
    <2> QED BY <1>2, <2>1 DEF LoginGateway, IInv, TypeOK, Faultless, Looks, Kept
<1>3. CASE ShowQuery
    <2>1. \A i \in ATTIRE_TYPES : Told(row.exterior[i]) \in Slot
        BY <1>1, ToldTyped DEF Typed
    <2> QED BY <1>3, <2>1 DEF ShowQuery, IInv, TypeOK, Faultless, Looks, Kept
<1>4. CASE Die
    BY <1>4 DEF Die, IInv, TypeOK, Faultless, Looks, Kept
<1>5. CASE Disconnect
    BY <1>5 DEF Disconnect, IInv, TypeOK, Faultless, Looks, Kept
<1>6. ASSUME NEW i \in ATTIRE_TYPES, NEW opt \in {1, 2}, ShowOpt(i, opt)
      PROVE  IInv'
    BY <1>6, ShowOptKeeps
<1>7. ASSUME NEW i \in ATTIRE_TYPES, NEW f \in Figures \cup {0},
             ActivateFigure(i, f) \/ UpgradeStar(i, f) \/ DisplayFigure(i, f)
      PROVE  IInv'
    BY <1>7, FigureOptKeeps
<1>8. CASE UNCHANGED vars
    BY <1>8 DEF vars, IInv, TypeOK, Faultless, Looks, Kept
<1> QED BY <1>2, <1>3, <1>4, <1>5, <1>6, <1>7, <1>8 DEF Next

\* What was answered before a step, the row and the disk have after it.
LEMMA KeptNext == ASSUME IInv, [Next]_vars PROVE OnlyGrows(answered, row') /\ OnlyGrows(answered, disk')
<1>1. IInv'
    BY IInvNext
<1>2. /\ Typed(answered) /\ Typed(answered') /\ Typed(row') /\ Typed(disk')
      /\ OnlyGrows(answered', row') /\ OnlyGrows(answered', disk')
    BY <1>1 DEF IInv, TypeOK, Kept
<1>3. OnlyGrows(answered, answered')
    <2>1. CASE answered' = answered
        BY <1>2, <2>1, SameGrows
    <2>2. ASSUME Keeps(row, row'), answered' = row' PROVE OnlyGrows(answered, answered')
        BY <1>2, <2>2, GrowsOn DEF Keeps, IInv, TypeOK, Kept
    <2>3. ASSUME NEW i \in ATTIRE_TYPES, NEW opt \in {1, 2}, ShowOpt(i, opt)
          PROVE  OnlyGrows(answered, answered')
        <3>1. answered' = row' \/ answered' = answered
            BY <2>3 DEF ShowOpt, Saved, SaveRaised
        <3> QED BY <2>1, <2>2, <2>3, <3>1, ShowOptKeeps
    <2>4. ASSUME NEW i \in ATTIRE_TYPES, NEW f \in Figures \cup {0},
                 ActivateFigure(i, f) \/ UpgradeStar(i, f) \/ DisplayFigure(i, f)
          PROVE  OnlyGrows(answered, answered')
        <3>1. answered' = row' \/ answered' = answered
            BY <2>4 DEF ActivateFigure, UpgradeStar, DisplayFigure, Saved, SaveRaised
        <3> QED BY <2>1, <2>2, <2>4, <3>1, FigureOptKeeps
    <2>5. CASE LoginGateway \/ ShowQuery \/ Die \/ Disconnect \/ UNCHANGED vars
        BY <2>1, <2>5 DEF LoginGateway, ShowQuery, Die, Disconnect, vars
    <2> QED BY <2>3, <2>4, <2>5 DEF Next
<1> QED BY <1>2, <1>3, GrowsOn
-----------------------------------------------------------------------------
\* Every variable keeps its type.
THEOREM TypeCorrect == Spec => []TypeOK
<1>1. IInv => TypeOK
    BY DEF IInv
<1>2. IInv /\ [Next]_vars => IInv'
    BY IInvNext
<1> QED BY <1>1, <1>2, IInvInit, PTL DEF Spec

\* A tier advances on the very click that reaches its threshold, whatever the
\* thresholds, and neither tiers nor stars pass their last (on_show_opt,
\* on_show_figure_opt).
THEOREM TiersAdvance == Spec => []TierAdvances
<1>1. IInv => TierAdvances
    <2> SUFFICES ASSUME IInv, NEW r \in {row, disk}, NEW i \in ATTIRE_TYPES
                 PROVE  /\ r.exterior[i].level <= ATTIRE_MAX_TIER
                        /\ Advanced(r.exterior[i], i)
                        /\ \A f \in DOMAIN r.attire[i] : r.attire[i][f] <= ATTIRE_STAR_MAX
        BY DEF TierAdvances, Advanced
    <2>1. Typed(r) /\ Dressed(r)
        BY DEF IInv, TypeOK
    <2> QED BY <2>1, AttireAssumption DEF Typed, Dressed, Slot, Owned
<1>2. IInv /\ [Next]_vars => IInv'
    BY IInvNext
<1> QED BY <1>1, <1>2, IInvInit, PTL DEF Spec

\* What a player shows it owns, in memory and on disk, whatever fails.
THEOREM ShownOwned == Spec => []ShownIsOwned
<1>1. IInv => ShownIsOwned
    BY DEF IInv, Dressed, ShownIsOwned
<1>2. IInv /\ [Next]_vars => IInv'
    BY IInvNext
<1> QED BY <1>1, <1>2, IInvInit, PTL DEF Spec

\* The avatar of a client wears what the row says, byte for byte of FIGURE1, and
\* its panel shows the row's slots as far as two bytes can say it.
THEOREM ClientSeesItsLooks == Spec => []ClientTrue
<1>1. IInv => AvatarTrue
    BY UnpackedPacked DEF IInv, TypeOK, Looks, AvatarTrue
<1>2. ASSUME NEW b \in Nat, NEW n \in 0..Word PROVE Clamp(b) >= n <=> b >= n
    BY AttireAssumption DEF Clamp, Smaller
<1>3. IInv => PanelTrue
    <2> SUFFICES ASSUME IInv, faults = 0, NEW i \in ATTIRE_TYPES
                 PROVE  /\ panel[i].level = row.exterior[i].level
                        /\ \A n \in 0..Word : panel[i].bless >= n <=> row.exterior[i].bless >= n
                        /\ \A n \in 0..Word : panel[i].quality >= n <=> row.exterior[i].quality >= n
        BY DEF PanelTrue
    <2>1. panel[i] = Told(row.exterior[i]) /\ row.exterior[i] \in Slot
        BY DEF IInv, TypeOK, Typed, Faultless
    <2>2. /\ panel[i].level = row.exterior[i].level
          /\ panel[i].bless = Clamp(row.exterior[i].bless) /\ row.exterior[i].bless \in Nat
          /\ panel[i].quality = Clamp(row.exterior[i].quality) /\ row.exterior[i].quality \in Nat
        BY <2>1 DEF Told, Slot
    <2> QED BY <1>2, <2>2
<1>4. IInv /\ [Next]_vars => IInv'
    BY IInvNext
<1> QED BY <1>1, <1>3, <1>4, IInvInit, PTL DEF Spec, ClientTrue

\* What an operation was answered with, no later operation, failed save or restart takes
\* back: the row, and the store on disk, have it or more, whatever the number of faults
\* (on_show_opt and on_show_figure_opt save before they answer).
THEOREM NothingIsTakenBack == Spec => NothingTakenBack
<1>1. IInv /\ [Next]_vars => IInv' /\ [OnlyGrows(answered, row') /\ OnlyGrows(answered, disk')]_vars
    BY IInvNext, KeptNext
<1> QED BY <1>1, IInvInit, PTL DEF Spec, NothingTakenBack
=============================================================================
