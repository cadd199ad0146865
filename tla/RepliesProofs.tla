---------------------------- MODULE RepliesProofs ----------------------------
(***************************************************************************)
(* Proofs about Replies, for a byte of any size, any tables, nicknames,    *)
(* factories and pages, and any number of characters and changes.          *)
(*                                                                         *)
(* ReplyRead.  A field that is written and then read, wherever it stands   *)
(* among other bytes, gives what it can tell of its value and leaves the   *)
(* reader behind it (FieldRead); pieces put one behind the other are read  *)
(* one after the other (JoinedRead), so a whole message is (MessageRead).  *)
(* What remains is that each request's message fits its layout (Fits).     *)
(*                                                                         *)
(* BlobRead.  Four digits for three bytes, and back (Base64 below), then   *)
(* the junk that encode_serinfo puts around and decode_serinfo cuts off.   *)
(*                                                                         *)
(* RankTrue.  Sorting gives each the place that those ahead leave it       *)
(* (Places); page and index are this place, divided.                       *)
(*                                                                         *)
(* NoneMissed is not inductive.  Sweeps is: whoever still waits to be seen *)
(* has so many ahead that the pages read so far are full without it, and   *)
(* is on a page that the client will still ask for.  Powers that only grow *)
(* (TotalGrows), and characters that come last among equals, keep it.      *)
(***************************************************************************)
EXTENDS Replies, SequenceTheorems, FiniteSetTheorems, WellFoundedInduction, TLAPS
-----------------------------------------------------------------------------
(* Induction over numbers and finite sets. *)

\* A non-empty family of finite sets has a member none of whose subsets is in it.
LEMMA LeastSet ==
    ASSUME NEW S, NEW F \in SUBSET FiniteSubsetsOf(S), F # {}
    PROVE  \E X \in F : \A Y \in F : Y \subseteq X => Y = X
<1> DEFINE R == StrictSubsetOrdering(S)
<1>1. IsWellFoundedOn(R, FiniteSubsetsOf(S))
    BY FS_StrictSubsetOrderingWellFounded
<1>2. \A X, Y \in F : Y \subseteq X /\ Y # X => <<Y, X>> \in R
    BY DEF StrictSubsetOrdering, FiniteSubsetsOf
<1> HIDE DEF R
<1>3. \E X \in F : \A Y \in F : ~(<<Y, X>> \in R)
    BY <1>1, WFMin
<1> QED BY <1>2, <1>3

\* Induction over the natural numbers, for a set of them.
LEMMA SetInduction ==
    ASSUME NEW T \in SUBSET Nat, 0 \in T, \A n \in T : n + 1 \in T
    PROVE  T = Nat
<1> SUFFICES ASSUME NEW k \in Nat, k \notin T PROVE FALSE
    OBVIOUS
<1> DEFINE F == {1..n : n \in Nat \ T}
<1>1. F \in SUBSET FiniteSubsetsOf(Nat) /\ F # {}
    <2>1. ASSUME NEW n \in Nat PROVE 1..n \in FiniteSubsetsOf(Nat)
        BY FS_Interval DEF FiniteSubsetsOf
    <2> QED BY <2>1
<1>2. PICK X \in F : \A Y \in F : Y \subseteq X => Y = X
    <2> HIDE DEF F
    <2> QED BY <1>1, LeastSet
<1>3. PICK m \in Nat \ T : X = 1..m
    BY <1>2
<1>4. m # 0 /\ m - 1 \in Nat
    BY <1>3
<1>5. m - 1 \notin T
    BY <1>3, <1>4
<1>6. 1..(m - 1) \in F /\ 1..(m - 1) \subseteq X /\ m \in X /\ m \notin 1..(m - 1)
    BY <1>3, <1>4, <1>5
<1> QED BY <1>2, <1>6

\* The same for the subsets of a finite set: the least that is not in F.
LEMMA LeastSubset ==
    ASSUME NEW S, IsFiniteSet(S), NEW F, \E X \in SUBSET S : X \notin F
    PROVE  \E X \in SUBSET S : X \notin F /\ \A Y \in SUBSET X : Y # X => Y \in F
<1> DEFINE G == (SUBSET S) \ F
<1>1. G \in SUBSET FiniteSubsetsOf(S) /\ G # {}
    BY FS_FiniteSubsetsOfFinite
<1>2. \A X \in G : \A Y \in SUBSET X : Y \notin F => Y \in G
    OBVIOUS
<1>3. G \subseteq SUBSET S /\ G \cap F = {}
    OBVIOUS
<1> HIDE DEF G
<1>4. PICK X \in G : \A Y \in G : Y \subseteq X => Y = X
    BY <1>1, LeastSet
<1> QED BY <1>2, <1>3, <1>4

\* A function on 1..n is a sequence of length n.
LEMMA FunctionIsSeq ==
    ASSUME NEW n \in Nat, NEW S, NEW q \in [1..n -> S]
    PROVE  q \in Seq(S) /\ Len(q) = n /\ DOMAIN q = 1..n
<1>1. q \in Seq(S)
    BY SeqDef
<1>2. Len(q) \in Nat /\ DOMAIN q = 1..Len(q)
    BY <1>1, LenProperties
<1>3. 1..n = 1..Len(q)
    BY <1>2
<1>4. Len(q) = n
    <2>1. CASE Len(q) > n
        <3>1. Len(q) \in 1..Len(q)
            BY <1>2, <2>1
        <3> QED BY <1>3, <2>1, <3>1
    <2>2. CASE n > Len(q)
        <3>1. n \in 1..n
            BY <1>2, <2>2
        <3> QED BY <1>2, <1>3, <2>2, <3>1
    <2> QED BY <1>2, <2>1, <2>2
<1> QED BY <1>1, <1>2, <1>4

-----------------------------------------------------------------------------
(* Arithmetic of the fields of a message. *)

\* Quotient and remainder.
LEMMA Divided ==
    ASSUME NEW n \in Nat, NEW a \in Nat \ {0}, NEW q, NEW r, q = n \div a, r = n % a
    PROVE  q \in Nat /\ r \in Nat /\ r < a /\ n = a * q + r
<1>1. n % a \in 0..(a - 1) /\ n \div a \in Int
    OBVIOUS
<1>2. n % a = n - a * (n \div a)
    OBVIOUS
<1>3. q \in Int /\ r \in Nat /\ r < a /\ r = n - a * q
    BY <1>1, <1>2
<1>5. q >= 0
    <2> SUFFICES ASSUME q <= -1 PROVE FALSE
        BY <1>3
    <2>1. a * q <= -a
        BY <1>3
    <2> QED BY <1>3, <2>1
<1>6. n = a * q + r
    BY <1>3
<1> QED BY <1>3, <1>5, <1>6

LEMMA ModIs ==
    ASSUME NEW n \in Nat, NEW m \in Nat \ {0}
    PROVE  \A q, r \in Nat : r < m /\ n = m * q + r => n % m = r /\ n \div m = q
<1>0. PICK k, l : k = n \div m /\ l = n % m
    OBVIOUS
<1>1. k \in Nat /\ l \in Nat /\ l < m /\ n = m * k + l
    BY <1>0, Divided
<1> SUFFICES ASSUME NEW q \in Nat, NEW r \in Nat, r < m, n = m * q + r
             PROVE  l = r /\ k = q
    BY <1>0
<1>2. m * q + r = m * k + l
    BY <1>1
<1>3. m * (q - k) = l - r /\ q - k \in Int
    BY <1>1, <1>2
<1>4. q = k
    <2>1. CASE q - k >= 1
        <3>1. m * (q - k) >= m
            BY <2>1, <1>3
        <3> QED BY <3>1, <1>1, <1>3
    <2>2. CASE q - k <= -1
        <3>1. m * (q - k) <= -m
            BY <2>2, <1>3
        <3> QED BY <3>1, <1>1, <1>3
    <2> QED BY <2>1, <2>2, <1>1
<1> QED BY <1>1, <1>2, <1>4

\* The remainder of a product: that of one factor, and of what is left the other's.
LEMMA ModProduct ==
    ASSUME NEW n \in Nat, NEW a \in Nat \ {0}, NEW b \in Nat \ {0}
    PROVE  n % (a * b) = (n % a) + (a * ((n \div a) % b))
<1>a. PICK q, r : q = n \div a /\ r = n % a
    OBVIOUS
<1>1. q \in Nat /\ r \in Nat /\ r < a /\ n = a * q + r
    BY <1>a, Divided
<1>b. PICK k, l : k = q \div b /\ l = q % b
    OBVIOUS
<1>2. k \in Nat /\ l \in Nat /\ l < b /\ q = b * k + l
    BY <1>1, <1>b, Divided
<1> DEFINE m == a * b
           s == a * l + r
<1>3. m \in Nat \ {0} /\ s \in Nat
    BY <1>1, <1>2
<1>4. a * q = m * k + a * l
    <2>1. a * (b * k + l) = m * k + a * l
        BY <1>2
    <2> QED BY <1>2, <2>1
<1>5. n = m * k + s
    BY <1>1, <1>2, <1>4
<1>6. s < m
    <2>1. l <= b - 1
        BY <1>2
    <2>2. a * l <= a * (b - 1)
        BY <1>2, <2>1
    <2>3. a * (b - 1) = a * b - a
        OBVIOUS
    <2> QED BY <1>1, <1>2, <2>2, <2>3
<1> HIDE DEF m, s
<1>7. n % m = s
    BY <1>2, <1>3, <1>5, <1>6, ModIs
<1> QED BY <1>7, <1>a, <1>b DEF m, s
-----------------------------------------------------------------------------
(* Pieces put one behind the other, and read one after the other. *)

\* h[k] is what the first k pieces make.
Joins(h, pieces, n) ==
    /\ h = [k \in 0..n |-> h[k]] /\ h[0] = <<>>
    /\ \A k \in 1..n : h[k] = h[k - 1] \o pieces[k]

\* There is such a function for any pieces.
LEMMA JoinsExist ==
    ASSUME NEW S, NEW n \in Nat, NEW pieces \in [1..n -> Seq(S)]
    PROVE  \E h : Joins(h, pieces, n)
<1> DEFINE T == {k \in Nat : k <= n => \E h : Joins(h, pieces, k)}
<1>1. 0 \in T
    <2> DEFINE h == [k \in 0..0 |-> <<>>]
    <2>1. Joins(h, pieces, 0)
        BY DEF Joins
    <2> QED BY <2>1
<1>2. ASSUME NEW k \in T PROVE k + 1 \in T
    <2> SUFFICES ASSUME k + 1 <= n PROVE \E h : Joins(h, pieces, k + 1)
        OBVIOUS
    <2>0. k \in Nat /\ k <= n
        OBVIOUS
    <2>1. PICK h : Joins(h, pieces, k)
        BY <2>0
    <2> HIDE DEF T
    <2> DEFINE g == [i \in 0..(k + 1) |-> IF i = k + 1 THEN h[k] \o pieces[k + 1] ELSE h[i]]
    <2>2. g = [i \in 0..(k + 1) |-> g[i]]
        OBVIOUS
    <2>3. g[0] = <<>>
        BY <2>0, <2>1 DEF Joins
    <2>4. ASSUME NEW i \in 1..(k + 1) PROVE g[i] = g[i - 1] \o pieces[i]
        <3>1. CASE i = k + 1
            <4>1. i - 1 = k /\ k \in 0..(k + 1) /\ k # k + 1 /\ k + 1 \in 0..(k + 1)
                BY <2>0, <3>1
            <4>2. g[k + 1] = h[k] \o pieces[k + 1]
                BY <4>1
            <4>3. g[k] = h[k]
                BY <4>1
            <4> HIDE DEF g
            <4> QED BY <4>1, <4>2, <4>3, <3>1
        <3>2. CASE i # k + 1
            <4>1. i \in 1..k /\ g[i] = h[i] /\ g[i - 1] = h[i - 1]
                BY <2>0, <3>2
            <4> QED BY <4>1, <2>1 DEF Joins
        <3> QED BY <3>1, <3>2
    <2> HIDE DEF g
    <2>5. Joins(g, pieces, k + 1)
        BY <2>2, <2>3, <2>4 DEF Joins
    <2> QED BY <2>5
<1>3. T \in SUBSET Nat
    OBVIOUS
<1> HIDE DEF T
<1>4. T = Nat
    BY <1>1, <1>2, <1>3, SetInduction
<1>5. n \in T
    BY <1>4
<1> QED BY <1>5 DEF T

\* The parts are sequences, each as much longer than the last as its piece is.
LEMMA JoinsType ==
    ASSUME NEW S, NEW n \in Nat, NEW pieces \in [1..n -> Seq(S)], NEW h, Joins(h, pieces, n)
    PROVE  /\ \A k \in 0..n : h[k] \in Seq(S) /\ Len(h[k]) \in Nat
           /\ \A k \in 1..n : /\ Len(h[k]) = Len(h[k - 1]) + Len(pieces[k])
                              /\ Len(pieces[k]) \in Nat
<1> DEFINE T == {k \in Nat : k <= n => h[k] \in Seq(S)}
<1>1. 0 \in T
    BY DEF Joins
<1>2. ASSUME NEW k \in T PROVE k + 1 \in T
    <2> SUFFICES ASSUME k + 1 <= n PROVE h[k + 1] \in Seq(S)
        OBVIOUS
    <2>1. h[k] \in Seq(S) /\ k \in Nat /\ k + 1 \in 1..n /\ (k + 1) - 1 = k
        OBVIOUS
    <2>2. h[k + 1] = h[k] \o pieces[k + 1] /\ pieces[k + 1] \in Seq(S)
        BY <2>1 DEF Joins
    <2> QED BY <2>1, <2>2, ConcatProperties
<1>3. T \in SUBSET Nat
    OBVIOUS
<1> HIDE DEF T
<1>4. T = Nat
    BY <1>1, <1>2, <1>3, SetInduction
<1>5. ASSUME NEW k \in 0..n PROVE h[k] \in Seq(S) /\ Len(h[k]) \in Nat
    <2>1. k \in T /\ k <= n
        BY <1>4
    <2>2. h[k] \in Seq(S)
        BY <2>1 DEF T
    <2> QED BY <2>2, LenProperties
<1>6. ASSUME NEW k \in 1..n
      PROVE  Len(h[k]) = Len(h[k - 1]) + Len(pieces[k]) /\ Len(pieces[k]) \in Nat
    <2>0. k - 1 \in 0..n
        OBVIOUS
    <2>1. h[k - 1] \in Seq(S) /\ pieces[k] \in Seq(S) /\ h[k] = h[k - 1] \o pieces[k]
        BY <1>5, <2>0 DEF Joins
    <2> QED BY <2>1, ConcatProperties, LenProperties
<1> QED BY <1>5, <1>6

\* What FlattenSeq computes.
LEMMA FlattenIs ==
    ASSUME NEW S, NEW n \in Nat, NEW pieces \in [1..n -> Seq(S)], NEW h, Joins(h, pieces, n)
    PROVE  FlattenSeq(pieces) = h[n]
<1>1. pieces \in Seq(Seq(S)) /\ Len(pieces) = n
    BY FunctionIsSeq
<1>2. CASE n = 0
    <2>1. pieces = <<>>
        BY <1>1, <1>2, EmptySeq
    <2> QED BY <1>1, <1>2, <2>1 DEF FlattenSeq, Joins
<1>3. CASE n # 0
    <2> DEFINE flatten == CHOOSE f : f = [i \in 1..n |->
                              IF i = 1 THEN pieces[i] ELSE f[i - 1] \o pieces[i]]
               w == [i \in 1..n |-> h[i]]
    <2>1. FlattenSeq(pieces) = flatten[n]
        BY <1>1, <1>3 DEF FlattenSeq
    <2>2. h[0] = <<>> /\ \A i \in 1..n : h[i] = h[i - 1] \o pieces[i] /\ pieces[i] \in Seq(S)
        BY DEF Joins
    <2>3. 1 \in 1..n /\ h[1] = pieces[1]
        <3>0. 1 \in 1..n /\ 1 - 1 = 0
            BY <1>3
        <3>1. h[1] = <<>> \o pieces[1]
            BY <3>0, <2>2
        <3> QED BY <3>0, <3>1, <2>2, ConcatEmptySeq
    <2>4. ASSUME NEW i \in 1..n PROVE w[i] = IF i = 1 THEN pieces[i] ELSE w[i - 1] \o pieces[i]
        <3>1. CASE i = 1
            BY <3>1, <2>3
        <3>2. CASE i # 1
            <4>1. i - 1 \in 1..n
                BY <3>2
            <4> QED BY <4>1, <3>2, <2>2
        <3> QED BY <3>1, <3>2
    <2>5. w = [i \in 1..n |-> IF i = 1 THEN pieces[i] ELSE w[i - 1] \o pieces[i]]
        BY <2>4
    <2>6. flatten = [i \in 1..n |-> IF i = 1 THEN pieces[i] ELSE flatten[i - 1] \o pieces[i]]
        <3> HIDE DEF w
        <3> QED BY <2>5
    <2> HIDE DEF flatten
    <2> DEFINE T == {k \in Nat : k \in 1..n => flatten[k] = h[k]}
    <2>7. 0 \in T
        OBVIOUS
    <2>8. ASSUME NEW k \in T PROVE k + 1 \in T
        <3> SUFFICES ASSUME k + 1 \in 1..n PROVE flatten[k + 1] = h[k + 1]
            OBVIOUS
        <3>1. CASE k = 0
            BY <3>1, <2>3, <2>6
        <3>2. CASE k # 0
            <4>1. flatten[k] = h[k] /\ k + 1 # 1 /\ (k + 1) - 1 = k
                BY <3>2
            <4>2. flatten[k + 1] = flatten[k] \o pieces[k + 1]
                BY <4>1, <2>6
            <4> QED BY <4>1, <4>2, <2>2
        <3> QED BY <3>1, <3>2
    <2>9. T \in SUBSET Nat
        OBVIOUS
    <2> HIDE DEF T
    <2>10. T = Nat
        BY <2>7, <2>8, <2>9, SetInduction
    <2> QED BY <1>3, <2>1, <2>10 DEF T
<1> QED BY <1>2, <1>3

\* What pieces make is of the type of the pieces.
LEMMA FlattenType ==
    ASSUME NEW S, NEW n \in Nat, NEW pieces \in [1..n -> Seq(S)]
    PROVE  FlattenSeq(pieces) \in Seq(S)
<1>1. PICK h : Joins(h, pieces, n)
    BY JoinsExist
<1>2. n \in 0..n
    OBVIOUS
<1>3. h[n] \in Seq(S)
    BY <1>1, <1>2, JoinsType
<1>4. FlattenSeq(pieces) = h[n]
    BY <1>1, FlattenIs
<1> QED BY <1>3, <1>4

\* Pieces that are not empty are no more than what they make is long.
LEMMA FlattenLong ==
    ASSUME NEW S, NEW n \in Nat, NEW pieces \in [1..n -> Seq(S)],
           \A k \in 1..n : Len(pieces[k]) > 0
    PROVE  n <= Len(FlattenSeq(pieces))
<1>1. PICK h : Joins(h, pieces, n)
    BY JoinsExist
<1>2. /\ \A k \in 0..n : Len(h[k]) \in Nat
      /\ \A k \in 1..n : Len(h[k]) = Len(h[k - 1]) + Len(pieces[k]) /\ Len(pieces[k]) \in Nat
    BY <1>1, JoinsType
<1> DEFINE T == {k \in Nat : k <= n => k <= Len(h[k])}
<1>3. 0 \in T
    BY <1>2
<1>4. ASSUME NEW k \in T PROVE k + 1 \in T
    <2> SUFFICES ASSUME k + 1 <= n PROVE k + 1 <= Len(h[k + 1])
        OBVIOUS
    <2>1. k \in Nat /\ k \in 0..n /\ k + 1 \in 1..n /\ (k + 1) - 1 = k /\ k <= Len(h[k])
        OBVIOUS
    <2> HIDE DEF T
    <2>2. Len(h[k + 1]) = Len(h[k]) + Len(pieces[k + 1]) /\ Len(pieces[k + 1]) > 0
        BY <1>2, <2>1
    <2>3. Len(h[k]) \in Nat /\ Len(pieces[k + 1]) \in Nat
        BY <1>2, <2>1
    <2>4. \A x, y \in Nat : k <= x /\ y > 0 => k + 1 <= x + y
        BY <2>1
    <2>5. k + 1 <= Len(h[k]) + Len(pieces[k + 1])
        BY <2>1, <2>2, <2>3, <2>4
    <2> QED BY <2>2, <2>5
<1>5. T \in SUBSET Nat
    OBVIOUS
<1> HIDE DEF T
<1>6. n \in T
    BY <1>3, <1>4, <1>5, SetInduction
<1> QED BY <1>1, <1>6, FlattenIs DEF T

-----------------------------------------------------------------------------
\* From pos on, b holds s.
Holds(b, pos, s) == \A i \in 1..Len(s) : pos + i \in DOMAIN b /\ b[pos + i] = s[i]

\* Who holds two pieces in a row holds each.
LEMMA HoldsParts ==
    ASSUME NEW S, NEW s \in Seq(S), NEW t \in Seq(S), NEW b, NEW pos \in Nat, Holds(b, pos, s \o t)
    PROVE  Holds(b, pos, s) /\ Holds(b, pos + Len(s), t)
<1>1. /\ Len(s) \in Nat /\ Len(t) \in Nat /\ Len(s \o t) = Len(s) + Len(t)
      /\ \A i \in 1..(Len(s) + Len(t)) : (s \o t)[i] = IF i <= Len(s) THEN s[i] ELSE t[i - Len(s)]
    BY ConcatProperties, LenProperties
<1>2. \A i \in 1..(Len(s) + Len(t)) : pos + i \in DOMAIN b /\ b[pos + i] = (s \o t)[i]
    BY <1>1 DEF Holds
<1>3. ASSUME NEW i \in 1..Len(s) PROVE pos + i \in DOMAIN b /\ b[pos + i] = s[i]
    <2>1. i \in 1..(Len(s) + Len(t)) /\ i <= Len(s)
        BY <1>1
    <2> QED BY <1>1, <1>2, <2>1
<1>4. ASSUME NEW i \in 1..Len(t)
      PROVE  (pos + Len(s)) + i \in DOMAIN b /\ b[(pos + Len(s)) + i] = t[i]
    <2> DEFINE j == Len(s) + i
    <2>1. j \in 1..(Len(s) + Len(t)) /\ ~(j <= Len(s)) /\ j - Len(s) = i /\ pos + j = (pos + Len(s)) + i
        BY <1>1
    <2> HIDE DEF j
    <2>2. pos + j \in DOMAIN b /\ b[pos + j] = t[i]
        BY <1>1, <1>2, <2>1
    <2> QED BY <2>1, <2>2
<1> QED BY <1>3, <1>4 DEF Holds

\* Who holds what the pieces make holds each of them behind those before it.
LEMMA HoldsJoined ==
    ASSUME NEW S, NEW n \in Nat, NEW pieces \in [1..n -> Seq(S)], NEW h, Joins(h, pieces, n),
           NEW b, NEW pos \in Nat, Holds(b, pos, h[n])
    PROVE  \A k \in 1..n : Holds(b, pos + Len(h[k - 1]), pieces[k])
<1>1. \A k \in 0..n : h[k] \in Seq(S)
    BY JoinsType
<1>2. \A k \in 1..n : h[k] = h[k - 1] \o pieces[k]
    BY DEF Joins
<1> DEFINE T == {d \in Nat : d <= n => Holds(b, pos, h[n - d])}
<1>3. 0 \in T
    OBVIOUS
<1>4. ASSUME NEW d \in T PROVE d + 1 \in T
    <2> SUFFICES ASSUME d + 1 <= n PROVE Holds(b, pos, h[n - (d + 1)])
        OBVIOUS
    <2>0. d \in Nat /\ Holds(b, pos, h[n - d])
        OBVIOUS
    <2> DEFINE k == n - d
    <2>1. k \in 1..n /\ k - 1 \in 0..n /\ k - 1 = n - (d + 1)
        BY <2>0
    <2>2. h[k] = h[k - 1] \o pieces[k] /\ h[k - 1] \in Seq(S) /\ pieces[k] \in Seq(S)
        BY <1>1, <1>2, <2>1
    <2>3. Holds(b, pos, h[k])
        BY <2>0
    <2> HIDE DEF T, k
    <2>4. Holds(b, pos, h[k - 1])
        BY <2>2, <2>3, HoldsParts
    <2> QED BY <2>1, <2>4
<1>5. T \in SUBSET Nat
    OBVIOUS
<1> HIDE DEF T
<1>6. T = Nat
    BY <1>3, <1>4, <1>5, SetInduction
<1> TAKE k \in 1..n
<1>7. n - k \in T /\ n - (n - k) = k /\ n - k <= n
    BY <1>6
<1>8. Holds(b, pos, h[k])
    BY <1>7 DEF T
<1>9. h[k] = h[k - 1] \o pieces[k] /\ h[k - 1] \in Seq(S) /\ pieces[k] \in Seq(S)
    <2>1. k - 1 \in 0..n
        OBVIOUS
    <2> QED BY <1>1, <1>2, <2>1
<1> QED BY <1>8, <1>9, HoldsParts

-----------------------------------------------------------------------------
\* No piece is longer than what all of them make.
LEMMA FlattenPiece ==
    ASSUME NEW S, NEW n \in Nat, NEW pieces \in [1..n -> Seq(S)], NEW i \in 1..n,
           Len(pieces[i]) > 0
    PROVE  Len(pieces[i]) <= Len(FlattenSeq(pieces))
<1>1. PICK h : Joins(h, pieces, n)
    BY JoinsExist
<1>2. FlattenSeq(pieces) = h[n] /\ h[n] \in Seq(S)
    BY <1>1, FlattenIs, FlattenType
<1>3. DOMAIN h[n] = 1..Len(h[n]) /\ Len(h[n]) \in Nat
    BY <1>2, LenProperties
<1>4. Holds(h[n], 0, h[n])
    <2>1. \A j \in 1..Len(h[n]) : 0 + j = j
        BY <1>3
    <2> QED BY <1>3, <2>1 DEF Holds
<1>5. Holds(h[n], 0 + Len(h[i - 1]), pieces[i])
    BY <1>1, <1>4, HoldsJoined
<1>6. Len(h[i - 1]) \in Nat /\ Len(pieces[i]) \in Nat
    <2>1. i - 1 \in 0..n
        OBVIOUS
    <2> QED BY <1>1, <2>1, JoinsType
<1>7. Len(pieces[i]) \in 1..Len(pieces[i])
    BY <1>6
<1>8. (0 + Len(h[i - 1])) + Len(pieces[i]) \in DOMAIN h[n]
    BY <1>5, <1>7 DEF Holds
<1>9. PICK x, y, z : x = Len(h[i - 1]) /\ y = Len(pieces[i]) /\ z = Len(h[n])
    OBVIOUS
<1>10. (0 + x) + y \in 1..z /\ x \in Nat /\ y \in Nat /\ z \in Nat
    BY <1>3, <1>6, <1>8, <1>9
<1>11. y <= z
    BY <1>10
<1> QED BY <1>2, <1>9, <1>11

\* The first n of a row.
Upto(f, n) == [k \in 1..n |-> f[k]]

\* Appending the next one to the first k of a row.
LEMMA AppendNext ==
    ASSUME NEW vals, NEW k \in Nat
    PROVE  Append([i \in 1..k |-> vals[i]], vals[k + 1]) = [i \in 1..(k + 1) |-> vals[i]]
<1> DEFINE S == {vals[i] : i \in 1..(k + 1)}
           s == [i \in 1..k |-> vals[i]]
           t == [i \in 1..(k + 1) |-> vals[i]]
           a == Append(s, vals[k + 1])
<1>1. s \in [1..k -> S] /\ t \in [1..(k + 1) -> S] /\ vals[k + 1] \in S
    OBVIOUS
<1>2. \A i \in 1..k : s[i] = vals[i]
    OBVIOUS
<1>3. \A i \in 1..(k + 1) : t[i] = vals[i]
    OBVIOUS
<1> HIDE DEF S, s, t
<1>4. s \in Seq(S) /\ Len(s) = k /\ t \in Seq(S) /\ Len(t) = k + 1
    BY <1>1, FunctionIsSeq
<1>5. /\ a \in Seq(S) /\ Len(a) = k + 1 /\ a[k + 1] = vals[k + 1]
      /\ \A i \in 1..k : a[i] = s[i]
    BY <1>1, <1>4, AppendProperties
<1> HIDE DEF a
<1>6. \A i \in 1..(k + 1) : a[i] = t[i]
    <2> SUFFICES ASSUME NEW i \in 1..(k + 1) PROVE a[i] = t[i]
        OBVIOUS
    <2>1. CASE i = k + 1
        BY <2>1, <1>3, <1>5
    <2>2. CASE i # k + 1
        <3>1. i \in 1..k
            BY <2>2
        <3> QED BY <3>1, <1>2, <1>3, <1>5
    <2> QED BY <2>1, <2>2
<1>7. a = t
    BY <1>4, <1>5, <1>6, SeqEqual
<1> QED BY <1>7 DEF a, s, t

\* Each reader reads its value where the one before it ends.
Chained(readers, vals, ends, n) ==
    /\ readers = Upto(readers, n)
    /\ \A k \in 1..n : readers[k][ends[k - 1]] = Got(vals[k], ends[k])

\* Reading in turn what lies one behind the other.
LEMMA InTurnIs ==
    ASSUME NEW n \in Nat, NEW readers, NEW vals, NEW ends, Chained(readers, vals, ends, n)
    PROVE  InTurn(readers, ends[0]) = Got(Upto(vals, n), ends[n])
<1> DEFINE pos == ends[0]
<1>0. /\ readers = Upto(readers, n)
      /\ \A k \in 1..n : readers[k][ends[k - 1]] = Got(vals[k], ends[k])
    BY DEF Chained
<1>1. Len(readers) = n
    <2> DEFINE S == {readers[k] : k \in 1..n}
    <2>1. readers \in [1..n -> S]
        BY <1>0 DEF Upto
    <2> HIDE DEF S
    <2> QED BY <2>1, FunctionIsSeq
<1> DEFINE Then(k, before) == LET e == readers[k][before.pos]
                              IN  Got(Append(before.v, e.v), e.pos)
           after == CHOOSE f : f = [k \in 0..n |->
                        IF k = 0 THEN Got(<<>>, pos) ELSE Then(k, f[k - 1])]
           w == [k \in 0..n |-> Got([i \in 1..k |-> vals[i]], ends[k])]
<1>2. InTurn(readers, pos) = after[n]
    BY <1>1 DEF InTurn
<1>3. [i \in 1..0 |-> vals[i]] = <<>>
    <2> DEFINE z == [i \in 1..0 |-> vals[i]]
    <2>1. z \in [1..0 -> {}]
        OBVIOUS
    <2> HIDE DEF z
    <2>2. z \in Seq({}) /\ Len(z) = 0
        BY <2>1, FunctionIsSeq
    <2>3. z = <<>>
        BY <2>2, EmptySeq
    <2> QED BY <2>3 DEF z
<1>4. ASSUME NEW k \in 0..n
      PROVE  w[k] = IF k = 0 THEN Got(<<>>, pos) ELSE Then(k, w[k - 1])
    <2>1. CASE k = 0
        BY <2>1, <1>3
    <2>2. CASE k # 0
        <3>1. k \in 1..n /\ k - 1 \in 0..n /\ k - 1 \in Nat /\ (k - 1) + 1 = k
            BY <2>2
        <3> DEFINE p == [i \in 1..(k - 1) |-> vals[i]]
        <3>2. w[k - 1] = Got(p, ends[k - 1])
            BY <3>1
        <3> HIDE DEF w, p
        <3>a. w[k - 1].v = p /\ w[k - 1].pos = ends[k - 1]
            BY <3>2 DEF Got
        <3>b. readers[k][w[k - 1].pos] = Got(vals[k], ends[k])
            BY <1>0, <3>1, <3>a
        <3>c. Got(vals[k], ends[k]).v = vals[k] /\ Got(vals[k], ends[k]).pos = ends[k]
            BY DEF Got
        <3>3. Then(k, w[k - 1]) = Got(Append(p, vals[k]), ends[k])
            BY <3>a, <3>b, <3>c
        <3>4. Append(p, vals[k]) = [i \in 1..k |-> vals[i]]
            BY <3>1, AppendNext DEF p
        <3>5. w[k] = Got([i \in 1..k |-> vals[i]], ends[k])
            BY DEF w
        <3> HIDE DEF Then
        <3> QED BY <2>2, <3>3, <3>4, <3>5
    <2> QED BY <2>1, <2>2
<1>5. after = [k \in 0..n |-> IF k = 0 THEN Got(<<>>, pos) ELSE Then(k, after[k - 1])]
    <2>1. w = [k \in 0..n |-> IF k = 0 THEN Got(<<>>, pos) ELSE Then(k, w[k - 1])]
        BY <1>4
    <2> HIDE DEF w, Then
    <2> QED BY <2>1
<1> HIDE DEF after, Then
<1> DEFINE T == {k \in Nat : k <= n => after[k] = w[k]}
<1>6. 0 \in T
    <2>1. 0 \in 0..n
        OBVIOUS
    <2> HIDE DEF w
    <2>2. after[0] = w[0]
        BY <1>4, <1>5, <2>1
    <2> QED BY <2>2
<1>7. ASSUME NEW k \in T PROVE k + 1 \in T
    <2> SUFFICES ASSUME k + 1 <= n PROVE after[k + 1] = w[k + 1]
        OBVIOUS
    <2>1. k + 1 \in 0..n /\ k + 1 # 0 /\ (k + 1) - 1 = k /\ after[k] = w[k]
        OBVIOUS
    <2> HIDE DEF w, T
    <2>2. after[k + 1] = Then(k + 1, after[k])
        BY <1>5, <2>1
    <2>3. w[k + 1] = Then(k + 1, w[k])
        BY <1>4, <2>1
    <2> QED BY <2>1, <2>2, <2>3
<1>8. T \in SUBSET Nat
    OBVIOUS
<1> HIDE DEF T
<1>9. n \in T
    BY <1>6, <1>7, <1>8, SetInduction
<1>10. after[n] = w[n]
    BY <1>9 DEF T
<1>11. w[n] = Got(Upto(vals, n), ends[n])
    BY DEF Upto, w
<1> QED BY <1>2, <1>10, <1>11

\* Wherever b holds piece, the reader reads v from it.
Reads(reader, b, piece, v) ==
    \A p \in Nat : Holds(b, p, piece) => reader[p] = Got(v, p + Len(piece))

Bytes == 0..(Byte - 1)

\* Each reader reads its value from its piece.
AllRead(readers, b, pieces, vals, n) ==
    /\ readers = Upto(readers, n) /\ pieces \in [1..n -> Seq(Bytes)]
    /\ \A k \in 1..n : Reads(readers[k], b, pieces[k], vals[k])

\* Whoever reads every piece right wherever it is reads all of them right.
LEMMA JoinedRead ==
    ASSUME NEW n \in Nat, NEW readers, NEW b, NEW pieces, NEW vals,
           AllRead(readers, b, pieces, vals, n),
           NEW pos \in Nat, Holds(b, pos, FlattenSeq(pieces))
    PROVE  InTurn(readers, pos) = Got(Upto(vals, n), pos + Len(FlattenSeq(pieces)))
<1>0. /\ readers = Upto(readers, n) /\ pieces \in [1..n -> Seq(Bytes)]
      /\ \A k \in 1..n : Reads(readers[k], b, pieces[k], vals[k])
    BY DEF AllRead
<1>1. PICK h : Joins(h, pieces, n)
    BY <1>0, JoinsExist
<1>2. FlattenSeq(pieces) = h[n] /\ h[0] = <<>> /\ Len(h[0]) = 0
    BY <1>0, <1>1, FlattenIs, EmptySeq DEF Joins
<1>3. /\ \A k \in 0..n : Len(h[k]) \in Nat
      /\ \A k \in 1..n : Len(h[k]) = Len(h[k - 1]) + Len(pieces[k]) /\ Len(pieces[k]) \in Nat
    BY <1>0, <1>1, JoinsType
<1>4. \A k \in 1..n : Holds(b, pos + Len(h[k - 1]), pieces[k])
    BY <1>0, <1>1, <1>2, HoldsJoined
<1> DEFINE ends == [k \in 0..n |-> pos + Len(h[k])]
<1>5. ends[0] = pos
    BY <1>2
<1>6. ASSUME NEW k \in 1..n PROVE readers[k][ends[k - 1]] = Got(vals[k], ends[k])
    <2>1. k - 1 \in 0..n /\ k \in 0..n
        OBVIOUS
    <2>a. ends[k - 1] = pos + Len(h[k - 1]) /\ ends[k] = pos + Len(h[k])
        BY <2>1
    <2>b. /\ Len(h[k - 1]) \in Nat /\ Len(pieces[k]) \in Nat
          /\ Len(h[k]) = Len(h[k - 1]) + Len(pieces[k])
        BY <2>1, <1>3
    <2> HIDE DEF ends
    <2>2. /\ ends[k - 1] = pos + Len(h[k - 1])
          /\ ends[k] = ends[k - 1] + Len(pieces[k]) /\ ends[k - 1] \in Nat
        <3>1. PICK x, y : x = Len(h[k - 1]) /\ y = Len(pieces[k])
            OBVIOUS
        <3>2. x \in Nat /\ y \in Nat /\ ends[k - 1] = pos + x /\ ends[k] = pos + (x + y)
            BY <2>a, <2>b, <3>1
        <3>3. ends[k] = ends[k - 1] + y /\ ends[k - 1] \in Nat
            BY <3>2
        <3> QED BY <3>1, <3>2, <3>3
    <2> QED BY <1>0, <2>2, <1>4 DEF Reads
<1>7. ends[n] = pos + Len(FlattenSeq(pieces))
    BY <1>2
<1> HIDE DEF ends
<1>a. \A k \in 1..n : readers[k][ends[k - 1]] = Got(vals[k], ends[k])
    BY <1>6
<1>8. Chained(readers, vals, ends, n)
    BY <1>0, <1>a DEF Chained
<1>9. InTurn(readers, ends[0]) = Got(Upto(vals, n), ends[n])
    BY <1>8, InTurnIs
<1> QED BY <1>5, <1>7, <1>9

-----------------------------------------------------------------------------
(* codec.py: what is written is read back. *)

\* The sizes of the fields, as numbers.
LEMMA Sizes ==
    /\ Byte \in Nat \ {0, 1} /\ Word \in Nat \ {0} /\ Word = Byte * Byte /\ Word > Byte
    /\ Power.u8 = Byte /\ Power.u16 = Word /\ Power.u32 = Word * Word
    /\ Power.u64 = Power.u32 * Power.u32 /\ Power.u32 \in Nat \ {0}
    /\ Power["u8"] = Power.u8 /\ Power["u16"] = Power.u16 /\ Power["u32"] = Power.u32
    /\ Power["u64"] = Power.u64
<1>1. Byte \in Nat \ {0, 1}
    BY CodecAssumption
<1>2. \A a \in Nat \ {0, 1} : a * a \in Nat \ {0} /\ a * a > a
    <2> SUFFICES ASSUME NEW a \in Nat \ {0, 1} PROVE a * a \in Nat \ {0} /\ a * a > a
        OBVIOUS
    <2>1. a * a >= 2 * a
        OBVIOUS
    <2> QED BY <2>1
<1>3. Word \in Nat \ {0} /\ Word = Byte * Byte /\ Word > Byte
    BY <1>1, <1>2 DEF Word
<1>4. \A a \in Nat \ {0} : a * a \in Nat \ {0}
    OBVIOUS
<1>5. Word * Word \in Nat \ {0}
    BY <1>3, <1>4
<1> QED BY <1>1, <1>3, <1>5 DEF Power

LEMMA Concat ==
    ASSUME NEW S, NEW s \in Seq(S), NEW t \in Seq(S)
    PROVE  s \o t \in Seq(S) /\ Len(s \o t) = Len(s) + Len(t)
BY ConcatProperties

LEMMA Quotient ==
    ASSUME NEW n \in Nat, NEW a \in Nat \ {0}
    PROVE  n \div a \in Nat /\ n % a \in 0..(a - 1)
<1>1. PICK q, r : q = n \div a /\ r = n % a
    OBVIOUS
<1>2. q \in Nat /\ r \in Nat /\ r < a
    BY <1>1, Divided
<1> QED BY <1>1, <1>2

\* Whoever holds what one, two, four or eight bytes keep of n reads that.
LEMMA OneRead ==
    ASSUME NEW n \in Nat
    PROVE  /\ One(n) \in Seq(Bytes) /\ Len(One(n)) = 1
           /\ \A b : \A pos \in Nat : Holds(b, pos, One(n)) => ReadOne(b, pos) = n % Byte
<1>1. n % Byte \in Bytes
    BY Sizes, Quotient DEF Bytes
<1>2. One(n) \in Seq(Bytes) /\ Len(One(n)) = 1 /\ One(n)[1] = n % Byte
    BY <1>1 DEF One
<1>3. ASSUME NEW b, NEW pos \in Nat, Holds(b, pos, One(n)) PROVE ReadOne(b, pos) = n % Byte
    <2>1. pos + 1 \in DOMAIN b /\ b[pos + 1] = n % Byte
        BY <1>2, <1>3 DEF Holds
    <2> QED BY <2>1 DEF ReadOne, At
<1> QED BY <1>2, <1>3

LEMMA TwoRead ==
    ASSUME NEW n \in Nat
    PROVE  /\ Two(n) \in Seq(Bytes) /\ Len(Two(n)) = 2
           /\ \A b : \A pos \in Nat : Holds(b, pos, Two(n)) => ReadTwo(b, pos) = n % Word
<1>1. n % Byte \in Bytes /\ n \div Byte \in Nat
    BY Sizes, Quotient DEF Bytes
<1>2. (n \div Byte) % Byte \in Bytes
    BY <1>1, Sizes, Quotient DEF Bytes
<1>3. /\ Two(n) \in Seq(Bytes) /\ Len(Two(n)) = 2
      /\ Two(n)[1] = n % Byte /\ Two(n)[2] = (n \div Byte) % Byte
    BY <1>1, <1>2 DEF Two
<1>4. n % Word = (n % Byte) + (Byte * ((n \div Byte) % Byte))
    <2>1. Byte \in Nat \ {0} /\ Word = Byte * Byte
        BY Sizes
    <2> QED BY <2>1, ModProduct
<1>5. ASSUME NEW b, NEW pos \in Nat, Holds(b, pos, Two(n)) PROVE ReadTwo(b, pos) = n % Word
    <2>1. /\ pos + 1 \in DOMAIN b /\ b[pos + 1] = n % Byte
          /\ pos + 2 \in DOMAIN b /\ b[pos + 2] = (n \div Byte) % Byte
        BY <1>3, <1>5 DEF Holds
    <2> QED BY <2>1, <1>4 DEF ReadTwo, At
<1> QED BY <1>3, <1>5

LEMMA FourRead ==
    ASSUME NEW n \in Nat
    PROVE  /\ Four(n) \in Seq(Bytes) /\ Len(Four(n)) = 4
           /\ \A b : \A pos \in Nat : Holds(b, pos, Four(n)) => ReadFour(b, pos) = n % Power.u32
<1>1. n \div Word \in Nat
    BY Sizes, Quotient
<1>2. /\ Two(n) \in Seq(Bytes) /\ Len(Two(n)) = 2
      /\ Two(n \div Word) \in Seq(Bytes) /\ Len(Two(n \div Word)) = 2
    BY <1>1, TwoRead
<1>3. Four(n) \in Seq(Bytes) /\ Len(Four(n)) = 4
    <2>1. Two(n) \o Two(n \div Word) \in Seq(Bytes) /\ Len(Two(n) \o Two(n \div Word)) = 2 + 2
        <3> HIDE DEF Two
        <3> QED BY <1>2, Concat
    <2> QED BY <2>1 DEF Four
<1>4. n % Power.u32 = (n % Word) + (Word * ((n \div Word) % Word))
    <2>1. Word \in Nat \ {0} /\ Power.u32 = Word * Word
        BY Sizes
    <2> QED BY <2>1, ModProduct
<1>5. ASSUME NEW b, NEW pos \in Nat, Holds(b, pos, Four(n)) PROVE ReadFour(b, pos) = n % Power.u32
    <2>1. Holds(b, pos, Two(n)) /\ Holds(b, pos + 2, Two(n \div Word))
        BY <1>2, <1>5, HoldsParts DEF Four
    <2>2. ReadTwo(b, pos) = n % Word /\ ReadTwo(b, pos + 2) = (n \div Word) % Word
        BY <1>1, <2>1, TwoRead
    <2> QED BY <2>2, <1>4 DEF ReadFour
<1> QED BY <1>3, <1>5

LEMMA EightRead ==
    ASSUME NEW n \in Nat
    PROVE  /\ Eight(n) \in Seq(Bytes) /\ Len(Eight(n)) = 8
           /\ \A b : \A pos \in Nat : Holds(b, pos, Eight(n)) => ReadEight(b, pos) = n % Power.u64
<1>1. n \div Power.u32 \in Nat
    BY Sizes, Quotient
<1>2. /\ Four(n) \in Seq(Bytes) /\ Len(Four(n)) = 4
      /\ Four(n \div Power.u32) \in Seq(Bytes) /\ Len(Four(n \div Power.u32)) = 4
    BY <1>1, FourRead
<1>3. Eight(n) \in Seq(Bytes) /\ Len(Eight(n)) = 8
    <2> DEFINE s == Four(n)
               t == Four(n \div Power.u32)
    <2>1. s \in Seq(Bytes) /\ t \in Seq(Bytes) /\ Len(s) = 4 /\ Len(t) = 4 /\ Eight(n) = s \o t
        BY <1>2 DEF Eight
    <2> HIDE DEF s, t
    <2>2. s \o t \in Seq(Bytes) /\ Len(s \o t) = 4 + 4
        BY <2>1, Concat
    <2> QED BY <2>1, <2>2
<1>4. n % Power.u64 = (n % Power.u32) + (Power.u32 * ((n \div Power.u32) % Power.u32))
    <2>1. Power.u32 \in Nat \ {0} /\ Power.u64 = Power.u32 * Power.u32
        BY Sizes
    <2> QED BY <2>1, ModProduct
<1>5. ASSUME NEW b, NEW pos \in Nat, Holds(b, pos, Eight(n)) PROVE ReadEight(b, pos) = n % Power.u64
    <2>1. Holds(b, pos, Four(n)) /\ Holds(b, pos + 4, Four(n \div Power.u32))
        BY <1>2, <1>5, HoldsParts DEF Eight
    <2>2. /\ ReadFour(b, pos) = n % Power.u32
          /\ ReadFour(b, pos + 4) = (n \div Power.u32) % Power.u32
        BY <1>1, <2>1, FourRead
    <2> QED BY <2>2, <1>4 DEF ReadEight
<1> QED BY <1>3, <1>5

\* A length below Word is one byte, or the mark and two.
LEMMA LengthRead ==
    ASSUME NEW n \in Nat, n < Word
    PROVE  /\ Length(n) \in Seq(Bytes) /\ Len(Length(n)) \in {1, 3}
           /\ \A b : \A pos \in Nat : Holds(b, pos, Length(n))
                => ReadLength(b, pos) = Got(n, pos + Len(Length(n)))
<1>0. Byte \in Nat /\ Byte > 1 /\ Byte - 1 \in Nat
    BY Sizes
<1>1. CASE n < Byte - 1
    <2>1. Length(n) = One(n) /\ n % Byte = n
        <3>1. \A q, r \in Nat : r < Byte /\ n = Byte * q + r => n % Byte = r
            BY <1>0, ModIs
        <3>2. n = Byte * 0 + n /\ n < Byte
            BY <1>0, <1>1
        <3>3. n % Byte = n
            BY <3>1, <3>2
        <3> QED BY <1>1, <3>3 DEF Length
    <2>2. Length(n) \in Seq(Bytes) /\ Len(Length(n)) = 1
        BY <2>1, OneRead
    <2>3. ASSUME NEW b, NEW pos \in Nat, Holds(b, pos, Length(n))
          PROVE  ReadLength(b, pos) = Got(n, pos + Len(Length(n)))
        <3>1. ReadOne(b, pos) = n /\ n # Byte - 1
            BY <1>0, <1>1, <2>1, <2>3, OneRead
        <3> QED BY <3>1, <2>2 DEF ReadLength
    <2> QED BY <2>2, <2>3
<1>2. CASE ~(n < Byte - 1)
    <2>1. Length(n) = One(Byte - 1) \o Two(n) /\ n % Word = n /\ (Byte - 1) % Byte = Byte - 1
        <3>1. \A q, r \in Nat : r < Word /\ n = Word * q + r => n % Word = r
            BY Sizes, ModIs
        <3>2. n = Word * 0 + n /\ Word \in Nat
            BY Sizes
        <3>3. \A q, r \in Nat : r < Byte /\ Byte - 1 = Byte * q + r => (Byte - 1) % Byte = r
            BY <1>0, ModIs
        <3>4. Byte - 1 = Byte * 0 + (Byte - 1)
            BY <1>0
        <3>5. n % Word = n
            BY <3>1, <3>2
        <3>6. (Byte - 1) % Byte = Byte - 1
            BY <3>3, <3>4, <1>0
        <3> QED BY <1>2, <3>5, <3>6 DEF Length
    <2>2. /\ One(Byte - 1) \in Seq(Bytes) /\ Len(One(Byte - 1)) = 1
          /\ Two(n) \in Seq(Bytes) /\ Len(Two(n)) = 2
        BY <1>0, OneRead, TwoRead
    <2>3. Length(n) \in Seq(Bytes) /\ Len(Length(n)) = 3
        <3> DEFINE s == One(Byte - 1)
                   t == Two(n)
        <3>1. /\ s \in Seq(Bytes) /\ t \in Seq(Bytes) /\ Len(s) = 1 /\ Len(t) = 2
              /\ Length(n) = s \o t
            BY <2>1, <2>2
        <3> HIDE DEF s, t
        <3>2. s \o t \in Seq(Bytes) /\ Len(s \o t) = 1 + 2
            BY <3>1, Concat
        <3> QED BY <3>1, <3>2
    <2>4. ASSUME NEW b, NEW pos \in Nat, Holds(b, pos, Length(n))
          PROVE  ReadLength(b, pos) = Got(n, pos + Len(Length(n)))
        <3>1. Holds(b, pos, One(Byte - 1)) /\ Holds(b, pos + 1, Two(n))
            BY <2>1, <2>2, <2>4, HoldsParts
        <3>2. ReadOne(b, pos) = Byte - 1 /\ ReadTwo(b, pos + 1) = n
            BY <1>0, <2>1, <3>1, OneRead, TwoRead
        <3> QED BY <3>2, <2>3 DEF ReadLength
    <2> QED BY <2>3, <2>4
<1> QED BY <1>1, <1>2
-----------------------------------------------------------------------------
(* What a field can tell. *)

\* A string is short enough for its length to be told; a number may be any.
SimpleFits(f, v) ==
    \/ f \in Simples \ {str} /\ v \in Nat
    \/ f = str /\ v \in Seq(Bytes) /\ Len(v) < Word

\* A struct has at least one field; a list has them as a sequence does.
StructFits(layout, vals) ==
    /\ layout \in Seq(Simples) /\ Len(layout) > 0
    /\ \A i \in 1..Len(layout) : SimpleFits(layout[i], vals[i])

Listed(v) == v = Upto(v, Len(v)) /\ Len(v) \in Nat

FieldFits(f, v) ==
    \/ SimpleFits(f, v)
    \/ /\ f = List(f[2]) /\ Listed(v)
       /\ \A i \in 1..Len(v) : StructFits(f[2], v[i])

Fits(layout, vals) == Listed(layout) /\ \A i \in 1..Len(layout) : FieldFits(layout[i], vals[i])

LEMMA Marks ==
    /\ u8[1] = "u8" /\ u16[1] = "u16" /\ u32[1] = "u32" /\ u64[1] = "u64" /\ str[1] = "str"
    /\ u8 # u16 /\ u8 # u32 /\ u8 # u64 /\ u8 # str /\ u16 # u32 /\ u16 # u64 /\ u16 # str
    /\ u32 # u64 /\ u32 # str /\ u64 # str
    /\ \A l : List(l)[1] = "list" /\ List(l)[2] = l
<1>1. u8[1] = "u8" /\ u16[1] = "u16" /\ u32[1] = "u32" /\ u64[1] = "u64" /\ str[1] = "str"
    BY DEF u8, u16, u32, u64, str
<1>2. \A l : List(l)[1] = "list" /\ List(l)[2] = l
    BY DEF List
<1> QED BY <1>1, <1>2

\* WriteString and ReadString.
LEMMA StringRead ==
    ASSUME NEW s \in Seq(Bytes), Len(s) < Word
    PROVE  /\ WriteString(s) \in Seq(Bytes) /\ Len(WriteString(s)) > 0
           /\ \A b : \A pos \in Nat : Holds(b, pos, WriteString(s))
                => ReadString(b, pos) = Got(s, pos + Len(WriteString(s)))
<1> DEFINE n == Len(s)
<1>1. n \in Nat /\ DOMAIN s = 1..n /\ s = [i \in 1..n |-> s[i]]
    BY LenProperties, SeqDef
<1> DEFINE m == Len(Length(n))
<1>2. Length(n) \in Seq(Bytes) /\ m \in {1, 3}
    BY <1>1, LengthRead
<1>3. WriteString(s) \in Seq(Bytes) /\ Len(WriteString(s)) = m + n
    BY <1>2, Concat DEF WriteString
<1>4. ASSUME NEW b, NEW pos \in Nat, Holds(b, pos, WriteString(s))
      PROVE  ReadString(b, pos) = Got(s, pos + Len(WriteString(s)))
    <2>1. Holds(b, pos, Length(n)) /\ Holds(b, pos + m, s)
        BY <1>2, <1>4, HoldsParts DEF WriteString
    <2>2. ReadLength(b, pos) = Got(n, pos + m)
        BY <1>1, <2>1, LengthRead
    <2> HIDE DEF n, m
    <2>3. ReadLength(b, pos).v = n /\ ReadLength(b, pos).pos = pos + m
        BY <2>2 DEF Got
    <2>4. \A i \in 1..n : At(b, (pos + m) + i) = s[i]
        BY <2>1 DEF Holds, At, n
    <2>5. [i \in 1..n |-> At(b, (pos + m) + i)] = s
        BY <1>1, <2>4
    <2>6. ReadString(b, pos) = Got([i \in 1..n |-> At(b, (pos + m) + i)], (pos + m) + n)
        BY <2>3 DEF ReadString
    <2>7. (pos + m) + n = pos + (m + n)
        BY <1>1, <1>2
    <2> QED BY <2>5, <2>6, <2>7, <1>3
<1> QED BY <1>1, <1>2, <1>3, <1>4

\* WriteSize and ReadSize, up to what the longest form can tell.
LEMMA SizeRead ==
    ASSUME NEW n \in Nat
    PROVE  /\ WriteSize(n) \in Seq(Bytes) /\ Len(WriteSize(n)) > 0
           /\ n < Power.u32 => \A b : \A pos \in Nat : Holds(b, pos, WriteSize(n))
                => ReadSize(b, pos) = Got(n, pos + Len(WriteSize(n)))
<1>0. Word \in Nat /\ Byte \in Nat /\ Word > Byte /\ Byte > 1 /\ Word - 1 \in Nat
    BY Sizes
<1>1. CASE n < Word - 1
    <2>1. WriteSize(n) = Length(n) /\ n < Word /\ n # Word - 1
        BY <1>0, <1>1 DEF WriteSize
    <2>2. Length(n) \in Seq(Bytes) /\ Len(Length(n)) \in {1, 3}
        BY <2>1, LengthRead
    <2>3. ASSUME NEW b, NEW pos \in Nat, Holds(b, pos, WriteSize(n))
          PROVE  ReadSize(b, pos) = Got(n, pos + Len(WriteSize(n)))
        <3>1. ReadLength(b, pos) = Got(n, pos + Len(Length(n)))
            BY <2>1, <2>3, LengthRead
        <3>2. ReadLength(b, pos).v = n
            BY <3>1 DEF Got
        <3> QED BY <2>1, <3>1, <3>2 DEF ReadSize
    <2>4. WriteSize(n) \in Seq(Bytes) /\ Len(WriteSize(n)) > 0
        <3>1. Len(Length(n)) > 0
            BY <2>2
        <3> QED BY <2>1, <2>2, <3>1
    <2> QED BY <2>3, <2>4
<1>2. CASE ~(n < Word - 1)
    <2> DEFINE mark == One(Byte - 1) \o Two(Word - 1)
    <2>1. mark = Length(Word - 1) /\ WriteSize(n) = mark \o Four(n)
        BY <1>0, <1>2 DEF Length, WriteSize
    <2>2. mark \in Seq(Bytes) /\ Len(mark) = 3
        <3>1. /\ One(Byte - 1) \in Seq(Bytes) /\ Len(One(Byte - 1)) = 1
              /\ Two(Word - 1) \in Seq(Bytes) /\ Len(Two(Word - 1)) = 2
            BY <1>0, OneRead, TwoRead
        <3> DEFINE s == One(Byte - 1)
                   t == Two(Word - 1)
        <3>2. s \in Seq(Bytes) /\ t \in Seq(Bytes) /\ Len(s) = 1 /\ Len(t) = 2 /\ mark = s \o t
            BY <3>1
        <3> HIDE DEF s, t, mark
        <3>3. s \o t \in Seq(Bytes) /\ Len(s \o t) = 1 + 2
            BY <3>2, Concat
        <3> QED BY <3>2, <3>3
    <2> HIDE DEF mark
    <2>3. Four(n) \in Seq(Bytes) /\ Len(Four(n)) = 4 /\ (n < Power.u32 => n % Power.u32 = n)
        <3>1. \A q, r \in Nat : r < Power.u32 /\ n = Power.u32 * q + r => n % Power.u32 = r
            BY Sizes, ModIs
        <3>2. n = Power.u32 * 0 + n
            BY Sizes
        <3> QED BY <3>1, <3>2, FourRead
    <2>4. WriteSize(n) \in Seq(Bytes) /\ Len(WriteSize(n)) = 7
        <3> DEFINE t == Four(n)
        <3>1. t \in Seq(Bytes) /\ Len(t) = 4 /\ WriteSize(n) = mark \o t
            BY <2>1, <2>3
        <3> HIDE DEF t
        <3>2. mark \o t \in Seq(Bytes) /\ Len(mark \o t) = 3 + 4
            BY <2>2, <3>1, Concat
        <3> QED BY <3>1, <3>2
    <2>5. ASSUME n < Power.u32, NEW b, NEW pos \in Nat, Holds(b, pos, WriteSize(n))
          PROVE  ReadSize(b, pos) = Got(n, pos + Len(WriteSize(n)))
        <3>1. Holds(b, pos, mark) /\ Holds(b, pos + 3, Four(n))
            BY <2>1, <2>2, <2>3, <2>5, HoldsParts
        <3>2. ReadLength(b, pos) = Got(Word - 1, pos + 3)
            <4>1. Holds(b, pos, Length(Word - 1)) /\ Len(Length(Word - 1)) = 3 /\ Word - 1 < Word
                BY <1>0, <2>1, <2>2, <3>1
            <4> QED BY <4>1, <1>0, LengthRead
        <3>3. ReadLength(b, pos).v = Word - 1 /\ ReadLength(b, pos).pos = pos + 3
            BY <3>2 DEF Got
        <3>4. ReadFour(b, pos + 3) = n
            BY <2>3, <2>5, <3>1, FourRead
        <3>5. ReadSize(b, pos) = Got(n, (pos + 3) + 4)
            BY <3>3, <3>4 DEF ReadSize
        <3>6. (pos + 3) + 4 = pos + 7
            OBVIOUS
        <3> QED BY <3>5, <3>6, <2>4
    <2> QED BY <2>4, <2>5
<1> QED BY <1>1, <1>2

\* A simple field is read as what it can tell of the value, wherever it stands.
LEMMA SimpleRead ==
    ASSUME NEW f, NEW v, SimpleFits(f, v)
    PROVE  /\ f \in Simples /\ WriteSimple(f, v) \in Seq(Bytes) /\ Len(WriteSimple(f, v)) > 0
           /\ \A b : Reads(Simple(f, b), b, WriteSimple(f, v), FittedSimple(f, v))
<1>1. CASE f = u8
    <2>1. v \in Nat /\ WriteSimple(f, v) = One(v) /\ FittedSimple(f, v) = v % Byte
        BY <1>1, Marks, Sizes DEF SimpleFits, WriteSimple, FittedSimple
    <2>2. \A b : \A p \in Nat : Simple(f, b)[p] = Got(ReadOne(b, p), p + 1)
        BY <1>1, Marks DEF Simple
    <2>3. One(v) \in Seq(Bytes) /\ Len(One(v)) = 1
        BY <2>1, OneRead
    <2>4. ASSUME NEW b, NEW p \in Nat, Holds(b, p, One(v))
          PROVE  Simple(f, b)[p] = Got(FittedSimple(f, v), p + 1)
        BY <2>1, <2>2, <2>4, OneRead
    <2>5. f \in Simples
        BY <1>1 DEF Simples
    <2> QED BY <2>1, <2>3, <2>4, <2>5 DEF Reads
<1>2. CASE f = u16
    <2>1. v \in Nat /\ WriteSimple(f, v) = Two(v) /\ FittedSimple(f, v) = v % Word
        BY <1>2, Marks, Sizes DEF SimpleFits, WriteSimple, FittedSimple
    <2>2. \A b : \A p \in Nat : Simple(f, b)[p] = Got(ReadTwo(b, p), p + 2)
        BY <1>2, Marks DEF Simple
    <2>3. Two(v) \in Seq(Bytes) /\ Len(Two(v)) = 2
        BY <2>1, TwoRead
    <2>4. ASSUME NEW b, NEW p \in Nat, Holds(b, p, Two(v))
          PROVE  Simple(f, b)[p] = Got(FittedSimple(f, v), p + 2)
        BY <2>1, <2>2, <2>4, TwoRead
    <2>5. f \in Simples
        BY <1>2 DEF Simples
    <2> QED BY <2>1, <2>3, <2>4, <2>5 DEF Reads
<1>3. CASE f = u32
    <2>1. v \in Nat /\ WriteSimple(f, v) = Four(v) /\ FittedSimple(f, v) = v % Power.u32
        BY <1>3, Marks, Sizes DEF SimpleFits, WriteSimple, FittedSimple
    <2>2. \A b : \A p \in Nat : Simple(f, b)[p] = Got(ReadFour(b, p), p + 4)
        BY <1>3, Marks DEF Simple
    <2>3. Four(v) \in Seq(Bytes) /\ Len(Four(v)) = 4
        BY <2>1, FourRead
    <2>4. ASSUME NEW b, NEW p \in Nat, Holds(b, p, Four(v))
          PROVE  Simple(f, b)[p] = Got(FittedSimple(f, v), p + 4)
        BY <2>1, <2>2, <2>4, FourRead
    <2>5. f \in Simples
        BY <1>3 DEF Simples
    <2> QED BY <2>1, <2>3, <2>4, <2>5 DEF Reads
<1>4. CASE f = u64
    <2>1. v \in Nat /\ WriteSimple(f, v) = Eight(v) /\ FittedSimple(f, v) = v % Power.u64
        BY <1>4, Marks, Sizes DEF SimpleFits, WriteSimple, FittedSimple
    <2>2. \A b : \A p \in Nat : Simple(f, b)[p] = Got(ReadEight(b, p), p + 8)
        BY <1>4, Marks DEF Simple
    <2>3. Eight(v) \in Seq(Bytes) /\ Len(Eight(v)) = 8
        BY <2>1, EightRead
    <2>4. ASSUME NEW b, NEW p \in Nat, Holds(b, p, Eight(v))
          PROVE  Simple(f, b)[p] = Got(FittedSimple(f, v), p + 8)
        BY <2>1, <2>2, <2>4, EightRead
    <2>5. f \in Simples
        BY <1>4 DEF Simples
    <2> QED BY <2>1, <2>3, <2>4, <2>5 DEF Reads
<1>5. CASE f = str
    <2>1. /\ v \in Seq(Bytes) /\ Len(v) < Word
          /\ WriteSimple(f, v) = WriteString(v) /\ FittedSimple(f, v) = v
        BY <1>5, Marks DEF SimpleFits, WriteSimple, FittedSimple
    <2>2. \A b : \A p \in Nat : Simple(f, b)[p] = ReadString(b, p)
        BY <1>5, Marks DEF Simple
    <2> QED BY <1>5, <2>1, <2>2, StringRead DEF Reads, Simples
<1> QED BY <1>1, <1>2, <1>3, <1>4, <1>5 DEF SimpleFits, Simples

\* A list's own mark is none of the simple ones.
LEMMA SimpleMark ==
    ASSUME NEW f \in Simples
    PROVE  f[1] # "list"
BY Marks DEF Simples

\* So is a struct, field after field,
LEMMA StructRead ==
    ASSUME NEW layout, NEW vals, StructFits(layout, vals)
    PROVE  /\ WriteStruct(layout, vals) \in Seq(Bytes) /\ Len(WriteStruct(layout, vals)) > 0
           /\ \A b : Reads(Struct(layout, b), b, WriteStruct(layout, vals),
                           FittedStruct(layout, vals))
<1> DEFINE n == Len(layout)
           pieces == [i \in DOMAIN layout |-> WriteSimple(layout[i], vals[i])]
           fitted == FittedStruct(layout, vals)
<1>1. n \in Nat /\ n > 0 /\ DOMAIN layout = 1..n /\ WriteStruct(layout, vals) = FlattenSeq(pieces)
    BY LenProperties DEF StructFits, WriteStruct
<1>2. ASSUME NEW i \in 1..n
      PROVE  /\ pieces[i] \in Seq(Bytes) /\ Len(pieces[i]) > 0
             /\ \A b : Reads(Simple(layout[i], b), b, pieces[i], fitted[i])
    <2>1. SimpleFits(layout[i], vals[i])
        BY DEF StructFits
    <2>2. pieces[i] = WriteSimple(layout[i], vals[i]) /\ fitted[i] = FittedSimple(layout[i], vals[i])
        BY <1>1 DEF FittedStruct
    <2> QED BY <2>1, <2>2, SimpleRead
<1>3. pieces \in [1..n -> Seq(Bytes)]
    BY <1>1, <1>2
<1>4. Upto(fitted, n) = fitted
    BY <1>1 DEF Upto, FittedStruct
<1>6. FlattenSeq(pieces) \in Seq(Bytes) /\ Len(FlattenSeq(pieces)) > 0
    <2> HIDE DEF pieces, n
    <2>1. FlattenSeq(pieces) \in Seq(Bytes)
        BY <1>1, <1>3, FlattenType
    <2>2. n <= Len(FlattenSeq(pieces)) /\ Len(FlattenSeq(pieces)) \in Nat
        BY <1>1, <1>2, <1>3, <2>1, FlattenLong, LenProperties
    <2> QED BY <1>1, <2>1, <2>2
<1>7. ASSUME NEW b PROVE Reads(Struct(layout, b), b, FlattenSeq(pieces), fitted)
    <2> DEFINE readers == [i \in DOMAIN layout |-> Simple(layout[i], b)]
    <2>1. readers = Upto(readers, n) /\ \A i \in 1..n : readers[i] = Simple(layout[i], b)
        BY <1>1 DEF Upto
    <2>2. \A pos \in Nat : Struct(layout, b)[pos] = InTurn(readers, pos)
        BY DEF Struct
    <2> HIDE DEF readers, pieces, fitted, n
    <2>3. \A i \in 1..n : Reads(readers[i], b, pieces[i], fitted[i])
        BY <1>2, <2>1
    <2>4. ASSUME NEW pos \in Nat, Holds(b, pos, FlattenSeq(pieces))
          PROVE  InTurn(readers, pos) = Got(fitted, pos + Len(FlattenSeq(pieces)))
        <3>1. AllRead(readers, b, pieces, fitted, n)
            BY <1>3, <2>1, <2>3 DEF AllRead
        <3> QED BY <1>1, <1>4, <2>4, <3>1, JoinedRead
    <2> QED BY <2>2, <2>4 DEF Reads
<1> QED BY <1>1, <1>6, <1>7

\* and a list, whose elements are no more than its bytes.
LEMMA FieldRead ==
    ASSUME NEW f, NEW v, FieldFits(f, v)
    PROVE  /\ WriteField(f, v) \in Seq(Bytes) /\ Len(WriteField(f, v)) > 0
           /\ f[1] = "list" => Len(v) <= Len(WriteField(f, v))
           /\ (f[1] = "list" => Len(v) < Power.u32)
                => \A b : Reads(Reader(f, b), b, WriteField(f, v), FittedField(f, v))
<1>1. CASE SimpleFits(f, v)
    <2>1. f[1] # "list"
        BY <1>1, SimpleRead, SimpleMark
    <2> QED BY <1>1, <2>1, SimpleRead DEF WriteField, Reader, FittedField
<1>2. CASE /\ f = List(f[2]) /\ Listed(v)
           /\ \A i \in 1..Len(v) : StructFits(f[2], v[i])
    <2> DEFINE n == Len(v)
               layout == f[2]
               pieces == [i \in DOMAIN v |-> WriteStruct(layout, v[i])]
               fitted == FittedField(f, v)
               size == WriteSize(n)
    <2>1. n \in Nat /\ DOMAIN v = 1..n /\ f[1] = "list"
        BY <1>2, Marks DEF Listed, Upto
    <2>2. WriteField(f, v) = size \o FlattenSeq(pieces) /\ fitted = [i \in 1..n |-> FittedStruct(layout, v[i])]
        BY <2>1 DEF WriteField, FittedField
    <2>3. ASSUME NEW i \in 1..n
          PROVE  /\ pieces[i] \in Seq(Bytes) /\ Len(pieces[i]) > 0
                 /\ \A b : Reads(Struct(layout, b), b, pieces[i], fitted[i])
        <3>1. StructFits(layout, v[i])
            BY <1>2
        <3>2. pieces[i] = WriteStruct(layout, v[i]) /\ fitted[i] = FittedStruct(layout, v[i])
            BY <2>1, <2>2
        <3> QED BY <3>1, <3>2, StructRead
    <2>4. pieces \in [1..n -> Seq(Bytes)]
        BY <2>1, <2>3
    <2>5. Upto(fitted, n) = fitted
        BY <2>2 DEF Upto
    <2>6. /\ size \in Seq(Bytes) /\ Len(size) > 0 /\ Len(size) \in Nat
          /\ n < Power.u32 => \A b : \A pos \in Nat : Holds(b, pos, size)
                                  => ReadSize(b, pos) = Got(n, pos + Len(size))
        BY <2>1, SizeRead, LenProperties
    <2> HIDE DEF pieces, fitted, n, size
    <2>7. /\ FlattenSeq(pieces) \in Seq(Bytes) /\ Len(FlattenSeq(pieces)) \in Nat
          /\ n <= Len(FlattenSeq(pieces))
        BY <2>1, <2>3, <2>4, FlattenType, FlattenLong, LenProperties
    <2>8. WriteField(f, v) \in Seq(Bytes) /\ Len(WriteField(f, v)) = Len(size) + Len(FlattenSeq(pieces))
        BY <2>2, <2>6, <2>7, Concat
    <2>9. Len(WriteField(f, v)) > 0 /\ n <= Len(WriteField(f, v))
        <3>1. PICK x, y, z : x = Len(size) /\ y = Len(FlattenSeq(pieces)) /\ z = Len(WriteField(f, v))
            OBVIOUS
        <3>2. x \in Nat /\ y \in Nat /\ x > 0 /\ z = x + y /\ n <= y
            BY <2>6, <2>7, <2>8, <3>1
        <3>3. z > 0 /\ n <= z
            BY <2>1, <3>2
        <3> QED BY <3>1, <3>3
    <2>10. ASSUME n < Power.u32, NEW b, NEW pos \in Nat, Holds(b, pos, WriteField(f, v))
           PROVE  Reader(f, b)[pos] = Got(fitted, pos + Len(WriteField(f, v)))
        <3> DEFINE start == pos + Len(size)
                   readers == [i \in 1..n |-> Struct(layout, b)]
        <3>1. Holds(b, pos, size) /\ Holds(b, start, FlattenSeq(pieces)) /\ start \in Nat
            BY <2>2, <2>6, <2>7, <2>10, HoldsParts
        <3>2. ReadSize(b, pos) = Got(n, start)
            BY <2>6, <2>10, <3>1
        <3>3. ReadSize(b, pos).v = n /\ ReadSize(b, pos).pos = start
            BY <3>2 DEF Got
        <3> HIDE DEF start
        <3>4. Reader(f, b)[pos] = InTurn(readers, start)
            BY <2>1, <3>3 DEF Reader
        <3>5. readers = Upto(readers, n) /\ \A i \in 1..n : readers[i] = Struct(layout, b)
            BY DEF Upto
        <3> HIDE DEF readers, layout
        <3>6. \A i \in 1..n : Reads(readers[i], b, pieces[i], fitted[i])
            BY <2>3, <3>5
        <3>7. InTurn(readers, start) = Got(fitted, start + Len(FlattenSeq(pieces)))
            <4>1. AllRead(readers, b, pieces, fitted, n)
                BY <2>4, <3>5, <3>6 DEF AllRead
            <4> QED BY <2>1, <2>5, <3>1, <4>1, JoinedRead
        <3>8. start + Len(FlattenSeq(pieces)) = pos + Len(WriteField(f, v))
            BY <2>6, <2>7, <2>8 DEF start
        <3> QED BY <3>4, <3>7, <3>8
    <2> QED BY <2>1, <2>8, <2>9, <2>10 DEF Reads, fitted, n
<1> QED BY <1>1, <1>2 DEF FieldFits

LEMMA WriteType ==
    ASSUME NEW layout, NEW vals, Fits(layout, vals)
    PROVE  Write(layout, vals) \in Seq(Bytes) /\ Len(Write(layout, vals)) \in Nat
<1> DEFINE n == Len(layout)
           pieces == [i \in DOMAIN layout |-> WriteField(layout[i], vals[i])]
<1>1. n \in Nat /\ DOMAIN layout = 1..n /\ Write(layout, vals) = FlattenSeq(pieces)
    BY DEF Fits, Listed, Upto, Write
<1>2. \A i \in 1..n : pieces[i] \in Seq(Bytes)
    BY <1>1, FieldRead DEF Fits
<1>3. pieces \in [1..n -> Seq(Bytes)]
    BY <1>1, <1>2
<1> HIDE DEF pieces, n
<1> QED BY <1>1, <1>3, FlattenType, LenProperties

\* What is written along a layout is read back along it, unless it is so long that a
\* list's length might not fit its field.
LEMMA MessageRead ==
    ASSUME NEW layout, NEW vals, Fits(layout, vals), Len(Write(layout, vals)) < Power.u32
    PROVE  /\ Write(layout, vals) \in Seq(Bytes)
           /\ Parsed(layout, Write(layout, vals)) = Fitted(layout, vals)
<1> DEFINE n == Len(layout)
           pieces == [i \in DOMAIN layout |-> WriteField(layout[i], vals[i])]
           fitted == Fitted(layout, vals)
           b == FlattenSeq(pieces)
           readers == [i \in DOMAIN layout |-> Reader(layout[i], b)]
<1>1. n \in Nat /\ DOMAIN layout = 1..n /\ Write(layout, vals) = b
    BY DEF Fits, Listed, Upto, Write
<1>2. ASSUME NEW i \in 1..n
      PROVE  /\ pieces[i] \in Seq(Bytes) /\ Len(pieces[i]) > 0
             /\ layout[i][1] = "list" => Len(vals[i]) <= Len(pieces[i])
             /\ (layout[i][1] = "list" => Len(vals[i]) < Power.u32)
                    => \A c : Reads(Reader(layout[i], c), c, pieces[i], fitted[i])
    <2>1. FieldFits(layout[i], vals[i])
        BY DEF Fits
    <2>2. pieces[i] = WriteField(layout[i], vals[i]) /\ fitted[i] = FittedField(layout[i], vals[i])
        BY <1>1 DEF Fitted
    <2> HIDE DEF pieces, fitted
    <2> QED BY <2>1, <2>2, FieldRead
<1>3. pieces \in [1..n -> Seq(Bytes)]
    BY <1>1, <1>2
<1>4. Upto(fitted, n) = fitted
    BY <1>1 DEF Upto, Fitted
<1>5. readers = Upto(readers, n) /\ \A i \in 1..n : readers[i] = Reader(layout[i], b)
    <2> HIDE DEF b
    <2> QED BY <1>1 DEF Upto
<1>6. Read(layout, b, 0) = InTurn(readers, 0)
    BY DEF Read
<1> HIDE DEF pieces, fitted, readers, n
<1>7. b \in Seq(Bytes) /\ Len(b) \in Nat
    BY <1>1, <1>3, FlattenType, LenProperties
<1>8. Holds(b, 0, b)
    <2> HIDE DEF b
    <2>1. DOMAIN b = 1..Len(b) /\ \A i \in 1..Len(b) : 0 + i = i
        BY <1>7, LenProperties
    <2> QED BY <2>1 DEF Holds
<1>9. ASSUME NEW i \in 1..n PROVE Reads(readers[i], b, pieces[i], fitted[i])
    <2>1. Len(pieces[i]) <= Len(b)
        <3> HIDE DEF b
        <3>1. b = FlattenSeq(pieces)
            BY DEF b
        <3> QED BY <1>1, <1>2, <1>3, <1>7, <3>1, FlattenPiece
    <2>2. layout[i][1] = "list" => Len(vals[i]) < Power.u32
        <3> SUFFICES ASSUME layout[i][1] = "list" PROVE Len(vals[i]) < Power.u32
            OBVIOUS
        <3>1. Len(vals[i]) <= Len(pieces[i]) /\ Len(pieces[i]) \in Nat
            BY <1>2, LenProperties
        <3>2. Len(vals[i]) \in Nat
            <4>1. FieldFits(layout[i], vals[i])
                BY DEF Fits, n
            <4>2. ~SimpleFits(layout[i], vals[i])
                BY SimpleRead, SimpleMark
            <4> QED BY <4>1, <4>2 DEF FieldFits, Listed
        <3>3. Len(b) < Power.u32 /\ Power.u32 \in Nat
            BY <1>1, Sizes
        <3> HIDE DEF b
        <3> QED BY <1>7, <2>1, <3>1, <3>2, <3>3
    <2>3. Reads(Reader(layout[i], b), b, pieces[i], fitted[i])
        <3> HIDE DEF b
        <3> QED BY <1>2, <2>2
    <2> QED BY <1>5, <2>3
<1>10. InTurn(readers, 0) = Got(fitted, 0 + Len(b))
    <2>1. AllRead(readers, b, pieces, fitted, n)
        BY <1>3, <1>5, <1>9 DEF AllRead
    <2>2. b = FlattenSeq(pieces)
        OBVIOUS
    <2> HIDE DEF b
    <2> QED BY <1>1, <1>4, <1>8, <2>1, <2>2, JoinedRead
<1> HIDE DEF b
<1>11. Read(layout, b, 0).v = fitted /\ Read(layout, b, 0).pos = Len(b)
    <2>1. 0 + Len(b) = Len(b)
        BY <1>7
    <2> QED BY <1>6, <1>10, <2>1 DEF Got
<1> QED BY <1>1, <1>7, <1>11 DEF Parsed, fitted
-----------------------------------------------------------------------------
(* The power score: sums. *)

\* How MapThenSumSet goes through a set: h has the sum of g over each subset of X.
Pick(W) == CHOOSE x \in W : TRUE
Sums(h, g, X) ==
    /\ h = [W \in SUBSET X |-> h[W]]
    /\ \A W \in SUBSET X : h[W] = IF W = {} THEN 0 ELSE g[Pick(W)] + h[W \ {Pick(W)}]

\* Two such functions agree where both are defined ...
LEMMA SumsAgree ==
    ASSUME NEW X, IsFiniteSet(X), NEW Y, NEW g, NEW h, NEW k,
           Sums(h, g, X), Sums(k, g, Y), NEW W \in SUBSET (X \cap Y)
    PROVE  h[W] = k[W]
<1> DEFINE F == {t \in SUBSET (X \cap Y) : h[t] = k[t]}
<1> SUFFICES ASSUME W \notin F PROVE FALSE
    OBVIOUS
<1>1. IsFiniteSet(X \cap Y)
    BY FS_Intersection
<1>2. \E t \in SUBSET (X \cap Y) : t \notin F
    OBVIOUS
<1>3. PICK t \in SUBSET (X \cap Y) : t \notin F /\ \A u \in SUBSET t : u # t => u \in F
    <2> DEFINE Z == X \cap Y
    <2>1. IsFiniteSet(Z) /\ \E t \in SUBSET Z : t \notin F
        BY <1>1, <1>2
    <2> HIDE DEF F, Z
    <2>2. \E t \in SUBSET Z : t \notin F /\ \A u \in SUBSET t : u # t => u \in F
        BY <2>1, LeastSubset
    <2> QED BY <2>2 DEF Z
<1>4. t # {}
    BY <1>3 DEF Sums
<1>5. Pick(t) \in t
    BY <1>4 DEF Pick
<1>6. h[t \ {Pick(t)}] = k[t \ {Pick(t)}]
    BY <1>3, <1>5
<1> QED BY <1>3, <1>4, <1>6 DEF Sums

\* ... and there is one for each finite set.
LEMMA SumsExist ==
    ASSUME NEW U, IsFiniteSet(U), NEW g
    PROVE  \E h : Sums(h, g, U)
<1> DEFINE F == {X \in SUBSET U : \E h : Sums(h, g, X)}
<1> SUFFICES ASSUME U \notin F PROVE FALSE
    OBVIOUS
<1>1. PICK X \in SUBSET U : X \notin F /\ \A Y \in SUBSET X : Y # X => Y \in F
    <2>1. \E X \in SUBSET U : X \notin F
        OBVIOUS
    <2> HIDE DEF F
    <2> QED BY <2>1, LeastSubset
<1> DEFINE of(Y) == CHOOSE h : Sums(h, g, Y)
           low(W) == of(W)[W]
           h == [W \in SUBSET X |->
                    IF W = {} THEN 0
                    ELSE IF W # X THEN low(W) ELSE g[Pick(X)] + low(X \ {Pick(X)})]
<1>2. ASSUME NEW Y \in SUBSET X, Y # X PROVE Sums(of(Y), g, Y)
    BY <1>1, <1>2
<1>3. ASSUME NEW W \in SUBSET X, W # {}, W # X
      PROVE  low(W) = g[Pick(W)] + low(W \ {Pick(W)})
    <2> DEFINE r == W \ {Pick(W)}
    <2>1. Pick(W) \in W /\ r \in SUBSET W /\ r \in SUBSET X /\ r # X
        BY <1>3 DEF Pick
    <2>2. Sums(of(W), g, W) /\ Sums(of(r), g, r)
        BY <1>2, <1>3, <2>1
    <2>3. IsFiniteSet(W)
        BY FS_Subset
    <2> HIDE DEF of, r
    <2>4. of(W)[r] = of(r)[r]
        BY <2>1, <2>2, <2>3, SumsAgree
    <2>5. of(W)[W] = g[Pick(W)] + of(W)[W \ {Pick(W)}]
        BY <1>3, <2>2 DEF Sums
    <2> QED BY <2>4, <2>5 DEF r
<1>4. low({}) = 0
    <2>1. CASE X # {}
        <3>1. Sums(of({}), g, {})
            BY <1>2, <2>1
        <3> HIDE DEF of
        <3> QED BY <3>1 DEF Sums
    <2>2. CASE X = {}
        <3>1. Sums([W \in SUBSET {} |-> 0], g, {})
            BY DEF Sums
        <3> QED BY <3>1, <1>1, <2>2
    <2> QED BY <2>1, <2>2
<1> HIDE DEF low
<1>5. \A W \in SUBSET X : h[W] = IF W = {} THEN 0 ELSE g[Pick(W)] + h[W \ {Pick(W)}]
    <2> TAKE W \in SUBSET X
    <2>1. CASE W = {}
        BY <2>1
    <2>2. CASE W # {}
        <3>1. Pick(W) \in W
            BY <2>2 DEF Pick
        <3>2. h[W \ {Pick(W)}] = low(W \ {Pick(W)})
            BY <3>1, <1>4
        <3> QED BY <2>2, <3>1, <3>2, <1>3
    <2> QED BY <2>1, <2>2
<1>6. h = [W \in SUBSET X |-> h[W]]
    OBVIOUS
<1> HIDE DEF h
<1>7. Sums(h, g, X)
    BY <1>5, <1>6 DEF Sums
<1> QED BY <1>1, <1>7

\* The terms of g over S are integers.
Ints(g, S) == \A i \in S : g[i] \in Int

\* The order in which the terms are picked does not matter.
LEMMA SumsRemove ==
    ASSUME NEW U, IsFiniteSet(U), NEW g, Ints(g, U), NEW h, Sums(h, g, U),
           NEW W \in SUBSET U, NEW x \in W
    PROVE  h[W] \in Int /\ h[W] = g[x] + h[W \ {x}]
<1> DEFINE F == {t \in SUBSET U : h[t] \in Int /\ \A y \in t : h[t] = g[y] + h[t \ {y}]}
<1> SUFFICES ASSUME W \notin F PROVE FALSE
    OBVIOUS
<1>1. PICK t \in SUBSET U : t \notin F /\ \A u \in SUBSET t : u # t => u \in F
    <2>1. \E t \in SUBSET U : t \notin F
        OBVIOUS
    <2> HIDE DEF F
    <2> QED BY <2>1, LeastSubset
<1>2. t # {} /\ h[t] = g[Pick(t)] + h[t \ {Pick(t)}]
    <2>1. t = {} => h[t] = 0
        BY DEF Sums
    <2>2. t # {}
        BY <2>1, <1>1
    <2> QED BY <2>2 DEF Sums
<1>3. Pick(t) \in t
    BY <1>2 DEF Pick
<1>4. h[t] \in Int
    <2>1. h[t \ {Pick(t)}] \in Int
        BY <1>1, <1>3
    <2>2. g[Pick(t)] \in Int
        BY <1>3 DEF Ints
    <2> QED BY <1>2, <2>1, <2>2
<1>5. ASSUME NEW y \in t PROVE h[t] = g[y] + h[t \ {y}]
    <2>1. CASE y = Pick(t)
        BY <2>1, <1>2
    <2>2. CASE y # Pick(t)
        <3> DEFINE p == Pick(t)
        <3>1. t \ {p} \in F /\ t \ {y} \in F /\ (t \ {p}) \ {y} \in F
            BY <1>1, <1>3
        <3>2. y \in t \ {p} /\ p \in t \ {y}
            BY <2>2, <1>3
        <3>3. h[t \ {p}] = g[y] + h[(t \ {p}) \ {y}] /\ h[t \ {y}] = g[p] + h[(t \ {y}) \ {p}]
            BY <3>1, <3>2
        <3>4. (t \ {p}) \ {y} = (t \ {y}) \ {p} /\ h[(t \ {p}) \ {y}] \in Int
            BY <3>1
        <3>5. g[p] \in Int /\ g[y] \in Int
            BY <1>3 DEF Ints
        <3>6. h[t] = g[p] + h[t \ {p}]
            BY <1>2
        <3> DEFINE a == h[t \ {p}]
                   b == h[t \ {y}]
                   c == h[(t \ {p}) \ {y}]
        <3>7. a = g[y] + c /\ b = g[p] + c /\ c \in Int
            BY <3>3, <3>4
        <3>8. h[t] = g[p] + a
            BY <3>6
        <3> HIDE DEF a, b, c, p
        <3>9. g[p] + a = g[y] + b
            BY <3>5, <3>7
        <3> QED BY <3>8, <3>9 DEF b
    <2> QED BY <2>1, <2>2
<1> QED BY <1>1, <1>4, <1>5

\* What MapThenSumSet's own recursion computes is that sum.
LEMMA TotalIs ==
    ASSUME NEW U, IsFiniteSet(U), NEW g, NEW h, Sums(h, g, U), NEW S \in SUBSET U
    PROVE  Total(g, S) = h[S]
<1> DEFINE k == CHOOSE iter : iter = [W \in SUBSET S |->
                    IF W = {} THEN 0 ELSE g[Pick(W)] + iter[W \ {Pick(W)}]]
<1>1. Total(g, S) = k[S]
    BY DEF Total, MapThenSumSet, MapThenFoldSet, Pick
<1>2. IsFiniteSet(S)
    BY FS_Subset
<1>3. PICK l : Sums(l, g, S)
    BY <1>2, SumsExist
<1>4. l = [W \in SUBSET S |-> IF W = {} THEN 0 ELSE g[Pick(W)] + l[W \ {Pick(W)}]]
    BY <1>3 DEF Sums
<1>5. k = [W \in SUBSET S |-> IF W = {} THEN 0 ELSE g[Pick(W)] + k[W \ {Pick(W)}]]
    BY <1>4
<1> HIDE DEF k
<1>6. Sums(k, g, S)
    <2>1. DOMAIN k = SUBSET S
        BY <1>5
    <2>2. \A W \in SUBSET S : k[W] = IF W = {} THEN 0 ELSE g[Pick(W)] + k[W \ {Pick(W)}]
        BY <1>5
    <2>3. k = [W \in SUBSET S |-> k[W]]
        BY <1>5, <2>1
    <2> QED BY <2>2, <2>3 DEF Sums
<1>7. k[S] = h[S]
    <2>1. S \in SUBSET (S \cap U)
        OBVIOUS
    <2> QED BY <2>1, <1>2, <1>6, SumsAgree
<1> QED BY <1>1, <1>7

\* A sum is one term and the sum of the others.
LEMMA TotalRemove ==
    ASSUME NEW S, IsFiniteSet(S), NEW g, Ints(g, S), NEW x \in S
    PROVE  Total(g, S) \in Int /\ Total(g, S) = g[x] + Total(g, S \ {x})
<1>1. PICK h : Sums(h, g, S)
    BY SumsExist
<1>2. S \in SUBSET S /\ S \ {x} \in SUBSET S
    OBVIOUS
<1>3. Total(g, S) = h[S] /\ Total(g, S \ {x}) = h[S \ {x}]
    BY <1>1, <1>2, TotalIs
<1>4. h[S] \in Int /\ h[S] = g[x] + h[S \ {x}]
    BY <1>1, <1>2, SumsRemove
<1> QED BY <1>3, <1>4

\* Nothing adds up to 0.
LEMMA TotalEmpty == ASSUME NEW g PROVE Total(g, {}) = 0
<1>1. IsFiniteSet({})
    BY FS_EmptySet
<1>2. PICK h : Sums(h, g, {})
    BY <1>1, SumsExist
<1>3. {} \in SUBSET {}
    OBVIOUS
<1>4. Total(g, {}) = h[{}]
    BY <1>1, <1>2, <1>3, TotalIs
<1> QED BY <1>2, <1>4 DEF Sums

\* It depends on nothing but the terms.
LEMMA TotalSame ==
    ASSUME NEW S, IsFiniteSet(S), NEW g, NEW f, \A x \in S : g[x] = f[x]
    PROVE  Total(g, S) = Total(f, S)
<1>1. PICK h : Sums(h, g, S)
    BY SumsExist
<1>2. \A W \in SUBSET S : W # {} => Pick(W) \in S
    BY DEF Pick
<1>3. Sums(h, f, S)
    BY <1>1, <1>2 DEF Sums
<1> QED BY <1>1, <1>3, TotalIs

\* Of natural terms it is natural.
LEMMA TotalNat ==
    ASSUME NEW S, IsFiniteSet(S), NEW g, \A x \in S : g[x] \in Nat
    PROVE  Total(g, S) \in Nat
<1> DEFINE F == {X \in SUBSET S : Total(g, X) \in Nat}
<1> SUFFICES ASSUME S \notin F PROVE FALSE
    OBVIOUS
<1>1. PICK X \in SUBSET S : X \notin F /\ \A Y \in SUBSET X : Y # X => Y \in F
    <2>1. \E X \in SUBSET S : X \notin F
        OBVIOUS
    <2> HIDE DEF F
    <2> QED BY <2>1, LeastSubset
<1>2. X # {}
    <2>1. Total(g, {}) = 0 /\ 0 \in Nat
        BY TotalEmpty
    <2>2. X = {} => X \in F
        BY <2>1
    <2> QED BY <2>2, <1>1
<1>3. PICK x \in X : TRUE
    BY <1>2
<1>4. IsFiniteSet(X) /\ Ints(g, X)
    BY FS_Subset DEF Ints
<1>5. Total(g, X) = g[x] + Total(g, X \ {x})
    BY <1>4, TotalRemove
<1>6. X \ {x} \in F /\ g[x] \in Nat
    BY <1>1
<1> QED BY <1>1, <1>5, <1>6

\* One more natural term makes it no smaller.
LEMMA TotalGrows ==
    ASSUME NEW S, IsFiniteSet(S), NEW x, NEW g, \A y \in S \cup {x} : g[y] \in Nat
    PROVE  Total(g, S \cup {x}) \in Nat /\ Total(g, S) \in Nat /\ Total(g, S) <= Total(g, S \cup {x})
<1>0. Total(g, S) \in Nat
    BY TotalNat
<1>1. CASE x \in S
    <2>1. S \cup {x} = S
        BY <1>1
    <2> QED BY <1>0, <2>1
<1>2. CASE x \notin S
    <2> DEFINE X == S \cup {x}
    <2>1. IsFiniteSet(X) /\ x \in X /\ X \ {x} = S
        BY <1>2, FS_AddElement
    <2>2. Ints(g, X)
        BY DEF Ints
    <2> HIDE DEF X
    <2>3. Total(g, X) = g[x] + Total(g, S)
        BY <2>1, <2>2, TotalRemove
    <2> QED BY <1>0, <2>3 DEF X
<1> QED BY <1>1, <1>2
-----------------------------------------------------------------------------
(* Powers are natural. *)

LEMMA ComputePowerNat ==
    ASSUME NEW attrs \in Attributes
    PROVE  compute_power(attrs) \in Nat
<1>1. DOMAIN attrs = 1..Len(attrs) /\ Len(attrs) \in Nat /\ \A j \in DOMAIN attrs : attrs[j] \in Nat \X Nat
    BY LenProperties, ElementOfSeq DEF Attributes
<1>2. IsFiniteSet(DOMAIN attrs)
    BY <1>1, FS_Interval
<1> DEFINE g == [j \in DOMAIN attrs |-> Weight(attrs[j][1]) * attrs[j][2]]
<1>3. ASSUME NEW j \in DOMAIN attrs PROVE g[j] \in Nat
    <2>1. attrs[j][1] \in Nat /\ attrs[j][2] \in Nat
        BY <1>1
    <2>2. Weight(attrs[j][1]) \in Nat
        BY RankingAssumption DEF Weight
    <2>3. \A x, y \in Nat : x * y \in Nat
        OBVIOUS
    <2> QED BY <2>1, <2>2, <2>3
<1>4. compute_power(attrs) = Total(g, DOMAIN attrs)
    BY DEF compute_power
<1> HIDE DEF g
<1> QED BY <1>2, <1>3, <1>4, TotalNat

\* The tiers of a slot: each adds something natural.
TierPower(sid) == [tier \in DOMAIN ShowAttr[sid] |-> compute_power(ShowAttr[sid][tier])]

LEMMA TiersNat ==
    ASSUME NEW sid \in Range(ATTIRE_TYPES)
    PROVE  /\ DOMAIN ShowAttr[sid] = 1..Len(ShowAttr[sid]) /\ Len(ShowAttr[sid]) \in Nat \ {0}
           /\ \A tier \in 1..Len(ShowAttr[sid]) : TierPower(sid)[tier] \in Nat
           /\ compute_power(QualityAttr[sid]) \in Nat
<1>1. ShowAttr[sid] \in Seq(Attributes) /\ ShowAttr[sid] # <<>> /\ QualityAttr[sid] \in Attributes
    BY RankingAssumption
<1>2. DOMAIN ShowAttr[sid] = 1..Len(ShowAttr[sid]) /\ Len(ShowAttr[sid]) \in Nat \ {0}
    BY <1>1, LenProperties, EmptySeq
<1>3. \A tier \in 1..Len(ShowAttr[sid]) : ShowAttr[sid][tier] \in Attributes
    BY <1>1, <1>2, ElementOfSeq
<1> QED BY <1>1, <1>2, <1>3, ComputePowerNat DEF TierPower

\* No power is negative.
LEMMA PowersNat ==
    ASSUME NEW c, Proper(c)
    PROVE  /\ char_power(c) \in Nat
           /\ \A sid \in Range(ATTIRE_TYPES) : attire_power(c, sid) \in Nat
           /\ \A name : PowerOn(name, c) \in Nat
<1>1. compute_power(BaseAttrs) \in Nat
    BY RankingAssumption, ComputePowerNat
<1>2. Total(Score, c.gear) \in Nat
    <2>1. c.gear \subseteq Equipment
        BY DEF Proper, Characters
    <2>2. IsFiniteSet(c.gear)
        BY <2>1, RepliesAssumption, FS_Subset
    <2>3. \A x \in c.gear : Score[x] \in Nat
        BY <2>1, RepliesAssumption
    <2> QED BY <2>2, <2>3, TotalNat
<1>3. char_power(c) \in Nat
    BY <1>1, <1>2 DEF char_power
<1>4. ASSUME NEW sid \in Range(ATTIRE_TYPES) PROVE attire_power(c, sid) \in Nat
    <2> DEFINE l == c.exterior[sid].level
               q == c.exterior[sid].quality
    <2>1. l \in 1..Len(ShowAttr[sid]) /\ q \in Nat
        BY DEF Proper, Characters
    <2> HIDE DEF l, q
    <2>2. IsFiniteSet(1..l) /\ \A tier \in 1..l : TierPower(sid)[tier] \in Nat
        <3>1. l \in Nat /\ \A tier \in 1..l : tier \in 1..Len(ShowAttr[sid])
            BY <2>1, TiersNat
        <3>2. IsFiniteSet(1..l)
            BY <3>1, FS_Interval
        <3> QED BY <3>1, <3>2, TiersNat
    <2>3. Total(TierPower(sid), 1..l) \in Nat
        BY <2>2, TotalNat
    <2>4. \A x, y, z \in Nat : x + y * z \in Nat
        OBVIOUS
    <2>5. attire_power(c, sid) = Total(TierPower(sid), 1..l) + q * compute_power(QualityAttr[sid])
        BY DEF attire_power, TierPower, l, q
    <2> QED BY <2>1, <2>3, <2>4, <2>5, TiersNat
<1>5. ASSUME NEW name PROVE PowerOn(name, c) \in Nat
    BY <1>3, <1>4, RankingAssumption DEF PowerOn
<1> QED BY <1>3, <1>4, <1>5
-----------------------------------------------------------------------------
(* Sorting: the order is a permutation in which each comes before what it is ahead of. *)

\* t is s with e in front of its place a.
HasMore(t, s, a, e) ==
    /\ Len(t) = Len(s) + 1
    /\ \A r \in 1..(Len(s) + 1) : t[r] = IF r < a THEN s[r] ELSE IF r = a THEN e ELSE s[r - 1]

\* InsertAt does that.
LEMMA Inserted ==
    ASSUME NEW S, NEW s \in Seq(S), NEW a \in 1..(Len(s) + 1), NEW e \in S
    PROVE  InsertAt(s, a, e) \in Seq(S) /\ HasMore(InsertAt(s, a, e), s, a, e)
<1>0. PICK n \in Nat : n = Len(s)
    BY LenProperties
<1>a. a \in 1..(n + 1) /\ Len(s) = n
    BY <1>0
<1> DEFINE p == SubSeq(s, 1, a - 1)
           q == SubSeq(s, a, Len(s))
           m == <<e>>
           pm == p \o m
<1>1. p \in Seq(S) /\ Len(p) = a - 1 /\ \A r \in 1..(a - 1) : p[r] = s[r]
    <2>1. /\ 1 \in 1..(n + 1) /\ a - 1 \in (1 - 1)..n
          /\ \A r \in 1..(a - 1) : 1 + r - 1 = r
        BY <1>a
    <2>2. /\ p \in Seq(S)
          /\ Len(p) = IF 1 <= a - 1 THEN (a - 1) - 1 + 1 ELSE 0
          /\ \A r \in 1..((a - 1) - 1 + 1) : p[r] = s[1 + r - 1]
        BY <1>a, SubSeqProperties
    <2>3. (IF 1 <= a - 1 THEN (a - 1) - 1 + 1 ELSE 0) = a - 1 /\ (a - 1) - 1 + 1 = a - 1
        BY <1>a
    <2> QED BY <2>1, <2>2, <2>3
<1>2. q \in Seq(S) /\ Len(q) = (n + 1) - a /\ \A r \in 1..((n + 1) - a) : q[r] = s[a + r - 1]
    <2>1. /\ q \in Seq(S)
          /\ Len(q) = IF a <= n THEN n - a + 1 ELSE 0
          /\ \A r \in 1..(n - a + 1) : q[r] = s[a + r - 1]
        BY <1>a, SubSeqProperties
    <2>2. (IF a <= n THEN n - a + 1 ELSE 0) = (n + 1) - a /\ n - a + 1 = (n + 1) - a
        BY <1>a
    <2> QED BY <2>1, <2>2
<1>3. m \in Seq(S) /\ Len(m) = 1 /\ m[1] = e
    OBVIOUS
<1>4. InsertAt(s, a, e) = pm \o q
    BY DEF InsertAt
<1> HIDE DEF p, q, m
<1>5. /\ pm \in Seq(S) /\ Len(pm) = a
      /\ \A r \in 1..a : pm[r] = IF r < a THEN s[r] ELSE e
    <2>1. /\ pm \in Seq(S) /\ Len(pm) = (a - 1) + 1
          /\ \A r \in 1..((a - 1) + 1) : pm[r] = IF r <= a - 1 THEN p[r] ELSE m[r - (a - 1)]
        <3>1. /\ pm \in Seq(S) /\ Len(pm) = Len(p) + Len(m)
              /\ \A r \in 1..(Len(p) + Len(m)) : pm[r] = IF r <= Len(p) THEN p[r] ELSE m[r - Len(p)]
            BY <1>1, <1>3, ConcatProperties
        <3> HIDE DEF pm
        <3> QED BY <3>1, <1>1, <1>3
    <2> HIDE DEF pm
    <2>2. (a - 1) + 1 = a
        BY <1>a
    <2>3. ASSUME NEW r \in 1..a PROVE pm[r] = IF r < a THEN s[r] ELSE e
        <3>1. CASE r < a
            <4>1. r \in 1..(a - 1) /\ r <= a - 1
                BY <1>a, <3>1
            <4> QED BY <4>1, <3>1, <1>1, <2>1, <2>2
        <3>2. CASE r = a
            <4>1. ~(r <= a - 1) /\ r - (a - 1) = 1
                BY <1>a, <3>2
            <4> QED BY <4>1, <3>2, <1>3, <2>1, <2>2
        <3> QED BY <1>a, <3>1, <3>2
    <2> QED BY <2>1, <2>2, <2>3
<1> HIDE DEF pm
<1>6. /\ pm \o q \in Seq(S) /\ Len(pm \o q) = a + ((n + 1) - a)
      /\ \A r \in 1..(a + ((n + 1) - a)) : (pm \o q)[r] = IF r <= a THEN pm[r] ELSE q[r - a]
    BY <1>2, <1>5, ConcatProperties
<1>7. a + ((n + 1) - a) = n + 1
    BY <1>a
<1>8. ASSUME NEW r \in 1..(n + 1)
      PROVE  (pm \o q)[r] = IF r < a THEN s[r] ELSE IF r = a THEN e ELSE s[r - 1]
    <2>1. CASE r <= a
        BY <2>1, <1>a, <1>5, <1>6, <1>7
    <2>2. CASE ~(r <= a)
        <3>1. r - a \in 1..((n + 1) - a) /\ a + (r - a) - 1 = r - 1
            BY <1>a, <2>2
        <3>2. (pm \o q)[r] = q[r - a]
            BY <2>2, <1>6, <1>7
        <3>3. q[r - a] = s[r - 1]
            BY <3>1, <1>2
        <3> QED BY <2>2, <3>2, <3>3
    <2> QED BY <2>1, <2>2
<1> QED BY <1>a, <1>4, <1>6, <1>7, <1>8 DEF HasMore

\* The least of a finite set of numbers.
LEMMA Least ==
    ASSUME NEW n \in Nat, NEW S \in SUBSET (1..n), S # {}
    PROVE  Min(S) \in S /\ \A x \in S : Min(S) <= x
<1>1. \E x \in S : \A y \in S : x <= y
    <2> DEFINE T == {k \in Nat : \A x \in S : x > k}
    <2>1. 0 \in T
        OBVIOUS
    <2>2. n \notin T
        <3>1. PICK x \in S : TRUE
            OBVIOUS
        <3>2. ~(x > n)
            OBVIOUS
        <3> QED BY <3>2
    <2>3. T \in SUBSET Nat
        OBVIOUS
    <2> HIDE DEF T
    <2>4. \E k \in T : k + 1 \notin T
        BY <2>1, <2>2, <2>3, SetInduction
    <2>5. PICK k \in T : k + 1 \notin T
        BY <2>4
    <2>6. k \in Nat /\ \A x \in S : x > k
        BY <2>3, <2>5 DEF T
    <2>7. PICK x \in S : ~(x > k + 1)
        BY <2>5, <2>6 DEF T
    <2>8. x = k + 1 /\ \A y \in S : x <= y
        BY <2>6, <2>7
    <2> QED BY <2>8
<1> QED BY <1>1 DEF Min

\* i comes before j by what their keys say, and by their own order where they are equal.
Before(key, i, j) == Above(key[i], key[j]) \/ (key[i] = key[j] /\ i < j)

\* s has the first k places of key, each before those it is ahead of.
InOrder(key, s, k) ==
    /\ s \in Seq(1..k) /\ Len(s) = k
    /\ \A q, r \in 1..k : q < r => Before(key, s[q], s[r])

\* Being above is a strict order whose incomparable keys are equal.
LEMMA AboveOrders ==
    ASSUME NEW x \in Nat \X Nat, NEW y \in Nat \X Nat, NEW z \in Nat \X Nat
    PROVE  /\ Above(x, y) \/ x = y \/ Above(y, x)
           /\ Above(x, y) /\ Above(y, z) => Above(x, z)
           /\ ~Above(x, x) /\ ~(Above(x, y) /\ Above(y, x))
<1>1. x = <<x[1], x[2]>> /\ y = <<y[1], y[2]>> /\ z = <<z[1], z[2]>>
    OBVIOUS
<1>2. {x[1], x[2], y[1], y[2], z[1], z[2]} \subseteq Nat
    OBVIOUS
<1> QED BY <1>1, <1>2 DEF Above

LEMMA BeforeOrders ==
    ASSUME NEW n \in Nat, NEW key \in [1..n -> Nat \X Nat],
           NEW i \in 1..n, NEW j \in 1..n, NEW k \in 1..n
    PROVE  /\ Before(key, i, j) \/ i = j \/ Before(key, j, i)
           /\ Before(key, i, j) /\ Before(key, j, k) => Before(key, i, k)
           /\ ~Before(key, i, i) /\ ~(Before(key, i, j) /\ Before(key, j, i))
<1>1. PICK x, y, z : x = key[i] /\ y = key[j] /\ z = key[k]
    OBVIOUS
<1>2. x \in Nat \X Nat /\ y \in Nat \X Nat /\ z \in Nat \X Nat
    BY <1>1
<1>3. /\ Above(x, y) \/ x = y \/ Above(y, x)
      /\ Above(x, y) /\ Above(y, z) => Above(x, z)
      /\ ~Above(x, x) /\ ~(Above(x, y) /\ Above(y, x))
    BY <1>2, AboveOrders
<1> QED BY <1>1, <1>3 DEF Before

\* Inserting the next keeps the order.
LEMMA InsertOrders ==
    ASSUME NEW n \in Nat, NEW key \in [1..n -> Nat \X Nat], NEW j \in Nat, j + 1 <= n,
           NEW s, InOrder(key, s, j)
    PROVE  InOrder(key, Insert(key, s, j + 1), j + 1)
<1> DEFINE k == j + 1
           lower == {r \in DOMAIN s : Above(key[k], key[s[r]])}
           a == Min(lower \cup {k})
           t == InsertAt(s, a, k)
<1>1. /\ s \in Seq(1..j) /\ Len(s) = j /\ DOMAIN s = 1..j /\ \A r \in 1..j : s[r] \in 1..j
      /\ \A q, r \in 1..j : q < r => Before(key, s[q], s[r])
    BY LenProperties, ElementOfSeq DEF InOrder
<1>2. k \in 1..n /\ k \in Nat /\ 1..j \subseteq 1..k /\ 1..j \subseteq 1..n /\ k \in 1..k
    OBVIOUS
<1>3. a \in lower \cup {k} /\ \A r \in lower \cup {k} : a <= r
    <2>1. lower \cup {k} \in SUBSET (1..k) /\ lower \cup {k} # {}
        BY <1>1, <1>2
    <2> HIDE DEF lower, k
    <2> QED BY <1>2, <2>1, Least
<1>4. a \in 1..(j + 1)
    BY <1>1, <1>3
<1>5. s \in Seq(1..k)
    <2> HIDE DEF k
    <2> QED BY <1>1, <1>2, SeqMonotonic
<1>6. ASSUME NEW r \in 1..j, r < a PROVE Before(key, s[r], k)
    <2>1. ~Above(key[k], key[s[r]])
        <3> SUFFICES ASSUME Above(key[k], key[s[r]]) PROVE FALSE
            OBVIOUS
        <3>1. r \in lower
            BY <1>1
        <3> HIDE DEF a, lower
        <3> QED BY <1>3, <1>4, <1>6, <3>1
    <2>2. s[r] \in 1..n /\ s[r] < k
        <3>1. PICK x : x = s[r]
            OBVIOUS
        <3>2. x \in 1..j
            BY <3>1, <1>1
        <3> QED BY <3>1, <3>2
    <2>3. key[k] \in Nat \X Nat /\ key[s[r]] \in Nat \X Nat
        BY <1>2, <2>2
    <2>4. Above(key[s[r]], key[k]) \/ key[s[r]] = key[k]
        BY <2>1, <2>3, AboveOrders
    <2> QED BY <2>2, <2>4 DEF Before
<1>7. ASSUME NEW r \in 1..j, a <= r PROVE Before(key, k, s[r])
    <2>1. a \in lower
        BY <1>3, <1>7
    <2>2. Before(key, k, s[a]) /\ a \in 1..j
        BY <1>1, <2>1 DEF Before
    <2>3. CASE a = r
        BY <2>2, <2>3
    <2>4. CASE a < r
        <3>1. Before(key, s[a], s[r])
            BY <1>1, <2>2, <2>4
        <3>2. s[a] \in 1..n /\ s[r] \in 1..n
            BY <1>1, <1>2, <2>2
        <3> HIDE DEF k, a, lower
        <3> QED BY <1>2, <2>2, <3>1, <3>2, BeforeOrders
    <2> QED BY <1>4, <1>7, <2>3, <2>4
<1> HIDE DEF a, lower
<1>8. /\ t \in Seq(1..k) /\ Len(t) = k
      /\ \A r \in 1..k : t[r] = IF r < a THEN s[r] ELSE IF r = a THEN k ELSE s[r - 1]
    <2>1. k = j + 1
        OBVIOUS
    <2> HIDE DEF k
    <2>2. /\ t \in Seq(1..k) /\ Len(t) = j + 1
          /\ \A r \in 1..(j + 1) : t[r] = IF r < a THEN s[r] ELSE IF r = a THEN k ELSE s[r - 1]
        <3>1. Len(s) = j /\ a \in 1..(Len(s) + 1) /\ k \in 1..k
            BY <1>1, <1>2, <1>4
        <3> HIDE DEF t
        <3>2. t = InsertAt(s, a, k)
            BY DEF t
        <3>3. t \in Seq(1..k) /\ HasMore(t, s, a, k)
            BY <3>1, <3>2, <1>5, Inserted
        <3> QED BY <3>1, <3>3 DEF HasMore
    <2> HIDE DEF t
    <2> QED BY <2>1, <2>2
<1> HIDE DEF t
<1>a. \A r \in 1..k : /\ r < a => t[r] = s[r] /\ r \in 1..j
                      /\ r = a => t[r] = k
                      /\ r > a => t[r] = s[r - 1] /\ r - 1 \in 1..j /\ a <= r - 1
    <2> TAKE r \in 1..k
    <2>1. t[r] = IF r < a THEN s[r] ELSE IF r = a THEN k ELSE s[r - 1]
        BY <1>8
    <2>2. r < a => r \in 1..j
        BY <1>4
    <2>3. r > a => r - 1 \in 1..j /\ a <= r - 1 /\ ~(r < a) /\ r # a
        BY <1>4
    <2>4. r = a => ~(r < a)
        BY <1>4
    <2> QED BY <2>1, <2>2, <2>3, <2>4
<1>9. ASSUME NEW q \in 1..k, NEW r \in 1..k, q < r PROVE Before(key, t[q], t[r])
    <2>1. CASE r < a
        <3>1. t[q] = s[q] /\ t[r] = s[r] /\ q \in 1..j /\ r \in 1..j
            <4>1. q < a
                BY <1>4, <1>9, <2>1
            <4> QED BY <1>a, <4>1, <2>1
        <3> QED BY <3>1, <1>1, <1>9
    <2>2. CASE r = a
        <3>1. t[q] = s[q] /\ t[r] = k /\ q \in 1..j /\ q < a
            <4>1. q < a
                BY <1>9, <2>2
            <4> QED BY <1>a, <4>1, <2>2
        <3> QED BY <3>1, <1>6
    <2>3. CASE r > a /\ q = a
        <3>1. t[q] = k /\ t[r] = s[r - 1] /\ r - 1 \in 1..j /\ a <= r - 1
            BY <1>a, <2>3
        <3> QED BY <3>1, <1>7
    <2>4. CASE r > a /\ q > a
        <3>1. t[q] = s[q - 1] /\ t[r] = s[r - 1] /\ q - 1 \in 1..j /\ r - 1 \in 1..j 
            BY <1>a, <2>4
        <3>2. q - 1 < r - 1
            BY <1>9
        <3> QED BY <3>1, <3>2, <1>1
    <2>5. CASE r > a /\ q < a
        <3>1. t[q] = s[q] /\ t[r] = s[r - 1] /\ q \in 1..j /\ r - 1 \in 1..j 
            BY <1>a, <2>5
        <3>2. q < r - 1
            BY <1>4, <2>5
        <3> QED BY <3>1, <3>2, <1>1
    <2> QED BY <1>4, <2>1, <2>2, <2>3, <2>4, <2>5
<1>10. Insert(key, s, j + 1) = t
    BY DEF Insert, t, a, lower
<1> QED BY <1>8, <1>9, <1>10 DEF InOrder

\* o[k] is what the first k places make.
Orders(o, key, n) ==
    /\ o = [k \in 0..n |-> o[k]] /\ o[0] = <<>>
    /\ \A k \in 1..n : o[k] = Insert(key, o[k - 1], k)

\* The prefixes of what Sorted computes.
LEMMA OrdersExist ==
    ASSUME NEW n \in Nat, NEW key
    PROVE  \E o : Orders(o, key, n)
<1> DEFINE T == {k \in Nat : \E o : Orders(o, key, k)}
<1>1. 0 \in T
    <2> DEFINE o == [k \in 0..0 |-> <<>>]
    <2>1. Orders(o, key, 0)
        BY DEF Orders
    <2> QED BY <2>1
<1>2. ASSUME NEW k \in T PROVE k + 1 \in T
    <2>0. k \in Nat
        OBVIOUS
    <2>1. PICK o : Orders(o, key, k)
        OBVIOUS
    <2> HIDE DEF T
    <2> DEFINE g == [i \in 0..(k + 1) |-> IF i = k + 1 THEN Insert(key, o[k], k + 1) ELSE o[i]]
    <2>2. g = [i \in 0..(k + 1) |-> g[i]]
        OBVIOUS
    <2>3. g[0] = <<>>
        BY <2>0, <2>1 DEF Orders
    <2>4. ASSUME NEW i \in 1..(k + 1) PROVE g[i] = Insert(key, g[i - 1], i)
        <3>1. CASE i = k + 1
            <4>1. i - 1 = k /\ k \in 0..(k + 1) /\ k # k + 1 /\ k + 1 \in 0..(k + 1)
                BY <2>0, <3>1
            <4>2. g[k + 1] = Insert(key, o[k], k + 1)
                BY <4>1
            <4>3. g[k] = o[k]
                BY <4>1
            <4> HIDE DEF g
            <4> QED BY <4>1, <4>2, <4>3, <3>1
        <3>2. CASE i # k + 1
            <4>1. i \in 1..k /\ g[i] = o[i] /\ g[i - 1] = o[i - 1]
                BY <2>0, <3>2
            <4> QED BY <4>1, <2>1 DEF Orders
        <3> QED BY <3>1, <3>2
    <2> HIDE DEF g
    <2>5. Orders(g, key, k + 1)
        BY <2>2, <2>3, <2>4 DEF Orders
    <2>6. k + 1 \in Nat
        BY <2>0
    <2> QED BY <2>5, <2>6 DEF T
<1>3. T \in SUBSET Nat
    OBVIOUS
<1> HIDE DEF T
<1>4. n \in T
    BY <1>1, <1>2, <1>3, SetInduction
<1> QED BY <1>4 DEF T

\* Sorting is right, whatever the keys.
LEMMA SortedInOrder ==
    ASSUME NEW n \in Nat, NEW key \in [1..n -> Nat \X Nat]
    PROVE  InOrder(key, Sorted(key), n)
<1>1. Len(key) = n
    BY FunctionIsSeq
<1> DEFINE order == CHOOSE f : f = [k \in 0..n |->
                        IF k = 0 THEN <<>> ELSE Insert(key, f[k - 1], k)]
<1>2. Sorted(key) = order[n]
    BY <1>1 DEF Sorted
<1>3. PICK o : Orders(o, key, n)
    BY OrdersExist
<1>4. o = [k \in 0..n |-> IF k = 0 THEN <<>> ELSE Insert(key, o[k - 1], k)]
    <2>0. o[0] = <<>> /\ \A k \in 1..n : o[k] = Insert(key, o[k - 1], k)
        BY <1>3 DEF Orders
    <2>1. ASSUME NEW k \in 0..n PROVE o[k] = IF k = 0 THEN <<>> ELSE Insert(key, o[k - 1], k)
        <3>1. k = 0 \/ k \in 1..n
            OBVIOUS
        <3> QED BY <2>0, <3>1
    <2> QED BY <1>3, <2>1 DEF Orders
<1>5. order = [k \in 0..n |-> IF k = 0 THEN <<>> ELSE Insert(key, order[k - 1], k)]
    BY <1>4
<1> HIDE DEF order
<1> DEFINE T == {k \in Nat : k <= n => InOrder(key, order[k], k)}
<1>6. 0 \in T
    <2>1. 0 \in 0..n
        OBVIOUS
    <2>2. order[0] = <<>>
        BY <1>5, <2>1
    <2>3. InOrder(key, <<>>, 0)
        BY EmptySeq DEF InOrder
    <2> QED BY <2>2, <2>3
<1>7. ASSUME NEW k \in T PROVE k + 1 \in T
    <2> SUFFICES ASSUME k + 1 <= n PROVE InOrder(key, order[k + 1], k + 1)
        OBVIOUS
    <2>1. k \in Nat /\ k + 1 \in 0..n /\ k + 1 # 0 /\ (k + 1) - 1 = k /\ InOrder(key, order[k], k)
        OBVIOUS
    <2>2. order[k + 1] = Insert(key, order[k], k + 1)
        BY <1>5, <2>1
    <2> HIDE DEF T
    <2> QED BY <2>1, <2>2, InsertOrders
<1>8. T \in SUBSET Nat
    OBVIOUS
<1> HIDE DEF T
<1>9. n \in T
    BY <1>6, <1>7, <1>8, SetInduction
<1> QED BY <1>2, <1>9 DEF T

\* In such an order everything is, once, at the place that what is ahead of it leaves it.
LEMMA Places ==
    ASSUME NEW n \in Nat, NEW key \in [1..n -> Nat \X Nat], NEW s, InOrder(key, s, n)
    PROVE  /\ \A i \in 1..n : \E r \in 1..n : s[r] = i
           /\ \A r \in 1..n : s[r] \in 1..n /\ Cardinality({j \in 1..n : Before(key, j, s[r])}) = r - 1
           /\ \A q, r \in 1..n : s[q] = s[r] => q = r
<1>1. s \in Seq(1..n) /\ Len(s) = n /\ s \in [1..n -> 1..n] /\ \A r \in 1..n : s[r] \in 1..n
    <2>1. s \in Seq(1..n) /\ Len(s) = n
        BY DEF InOrder
    <2>2. s \in [1..Len(s) -> 1..n]
        BY <2>1, LenProperties
    <2> QED BY <2>1, <2>2
<1>2. \A q, r \in 1..n : q < r => Before(key, s[q], s[r])
    BY DEF InOrder
<1>3. ASSUME NEW q \in 1..n, NEW r \in 1..n, q < r PROVE s[q] # s[r] /\ ~Before(key, s[r], s[q])
    <2>1. Before(key, s[q], s[r]) /\ s[q] \in 1..n /\ s[r] \in 1..n
        BY <1>1, <1>2, <1>3
    <2> QED BY <2>1, BeforeOrders
<1>4. ASSUME NEW q \in 1..n, NEW r \in 1..n, s[q] = s[r] PROVE q = r
    <2>1. q < r \/ q = r \/ r < q
        OBVIOUS
    <2> QED BY <2>1, <1>3, <1>4
<1>5. \A i \in 1..n : \E r \in 1..n : s[r] = i
    <2>1. s \in Injection(1..n, 1..n)
        BY <1>1, <1>4 DEF Injection, IsInjective
    <2>2. IsFiniteSet(1..n)
        BY FS_Interval
    <2>3. s \in Surjection(1..n, 1..n)
        BY <2>1, <2>2, FS_Injection
    <2> QED BY <2>3 DEF Surjection
<1>6. ASSUME NEW r \in 1..n PROVE Cardinality({j \in 1..n : Before(key, j, s[r])}) = r - 1
    <2> DEFINE A == {j \in 1..n : Before(key, j, s[r])}
               g == [q \in 1..(r - 1) |-> s[q]]
    <2>1. \A q \in 1..(r - 1) : q \in 1..n /\ q < r
        OBVIOUS
    <2>2. g \in [1..(r - 1) -> A]
        BY <1>1, <1>2, <2>1
    <2>3. \A p, q \in 1..(r - 1) : g[p] = g[q] => p = q
        BY <1>4, <2>1
    <2>4. ASSUME NEW j \in A PROVE \E q \in 1..(r - 1) : g[q] = j
        <3>1. PICK q \in 1..n : s[q] = j
            BY <1>5
        <3>2. Before(key, s[q], s[r])
            BY <3>1
        <3>3. q < r
            <4>1. q < r \/ q = r \/ r < q
                OBVIOUS
            <4>2. q # r
                BY <3>2, <1>1, BeforeOrders
            <4> QED BY <4>1, <4>2, <3>2, <1>3
        <3>4. q \in 1..(r - 1)
            BY <3>3
        <3> QED BY <3>1, <3>4
    <2> HIDE DEF A, g
    <2>5. g \in Bijection(1..(r - 1), A)
        BY <2>2, <2>3, <2>4 DEF Bijection, Injection, Surjection, IsInjective
    <2>6. IsFiniteSet(1..(r - 1)) /\ Cardinality(1..(r - 1)) = r - 1
        <3>1. r - 1 \in Int /\ 1 \in Int /\ (IF 1 > r - 1 THEN 0 ELSE (r - 1) - 1 + 1) = r - 1
            OBVIOUS
        <3> QED BY <3>1, FS_Interval
    <2>7. Cardinality(A) = r - 1
        BY <2>5, <2>6, FS_Bijection DEF ExistsBijection
    <2> QED BY <2>7 DEF A
<1> QED BY <1>1, <1>4, <1>5, <1>6

-----------------------------------------------------------------------------
(* The boards. *)

KeysOf(name, s) == [i \in DOMAIN s |-> Keys(name, s[i])]

AllProper(s) == s \in Seq(Characters) /\ \A i \in DOMAIN s : Proper(s[i])

\* Every character has two numbers to be sorted by.
LEMMA KeysType ==
    ASSUME NEW name, NEW s, AllProper(s)
    PROVE  /\ Len(s) \in Nat /\ DOMAIN s = 1..Len(s)
           /\ KeysOf(name, s) \in [1..Len(s) -> Nat \X Nat]
<1>1. Len(s) \in Nat /\ DOMAIN s = 1..Len(s)
    BY LenProperties DEF AllProper
<1>2. ASSUME NEW i \in 1..Len(s) PROVE Keys(name, s[i]) \in Nat \X Nat
    <2>1. Proper(s[i])
        BY <1>1 DEF AllProper
    <2>2. s[i].level \in Nat
        BY <2>1 DEF Proper, Characters
    <2>3. char_power(s[i]) \in Nat /\ PowerOn(name, s[i]) \in Nat
        BY <2>1, PowersNat
    <2> QED BY <2>2, <2>3 DEF Keys
<1> QED BY <1>1, <1>2 DEF KeysOf

\* The order a board is in.
OrderOf(name, s) == Sorted(KeysOf(name, s))

\* A board is such an order of all characters.
LEMMA RankedIs ==
    ASSUME NEW name, NEW s, AllProper(s)
    PROVE  /\ InOrder(KeysOf(name, s), OrderOf(name, s), Len(s))
           /\ Ranked(name, s) = [r \in 1..Len(s) |-> s[OrderOf(name, s)[r]]]
           /\ Ranked(name, s) \in Seq(Characters) /\ Len(Ranked(name, s)) = Len(s)
           /\ \A r \in 1..Len(s) : OrderOf(name, s)[r] \in 1..Len(s) /\ Proper(Ranked(name, s)[r])
<1>1. /\ Len(s) \in Nat /\ DOMAIN s = 1..Len(s)
      /\ KeysOf(name, s) \in [1..Len(s) -> Nat \X Nat]
    BY KeysType
<1>2. InOrder(KeysOf(name, s), OrderOf(name, s), Len(s))
    BY <1>1, SortedInOrder DEF OrderOf
<1>3. \A r \in 1..Len(s) : OrderOf(name, s)[r] \in 1..Len(s)
    BY <1>1, <1>2, Places
<1>4. Ranked(name, s) = [r \in 1..Len(s) |-> s[OrderOf(name, s)[r]]]
    BY <1>1 DEF Ranked, OrderOf, KeysOf
<1>5. \A r \in 1..Len(s) : Proper(s[OrderOf(name, s)[r]]) /\ s[OrderOf(name, s)[r]] \in Characters
    BY <1>1, <1>3 DEF AllProper, Proper
<1>6. Ranked(name, s) \in [1..Len(s) -> Characters]
    BY <1>4, <1>5
<1>7. Ranked(name, s) \in Seq(Characters) /\ Len(Ranked(name, s)) = Len(s)
    BY <1>1, <1>6, FunctionIsSeq
<1> QED BY <1>2, <1>3, <1>4, <1>5, <1>7
-----------------------------------------------------------------------------
(* Every message fits its layout. *)

LEMMA SeqListed == ASSUME NEW S, NEW s \in Seq(S) PROVE Listed(s)
BY LenProperties DEF Listed, Upto

LEMMA ListedSeq ==
    ASSUME NEW s, Listed(s)
    PROVE  \E S : s \in Seq(S)
<1> DEFINE S == {s[i] : i \in 1..Len(s)}
<1>1. s \in [1..Len(s) -> S] /\ Len(s) \in Nat
    BY DEF Listed, Upto
<1> HIDE DEF S
<1> QED BY <1>1, FunctionIsSeq

\* A value for every field.
Matches(layout, vals) == Fits(layout, vals) /\ Listed(vals) /\ Len(layout) = Len(vals)

LEMMA MatchesJoin ==
    ASSUME NEW l, NEW v, NEW m, NEW w, Matches(l, v), Matches(m, w)
    PROVE  Matches(l \o m, v \o w)
<1>0. Fits(l, v) /\ Fits(m, w) /\ Listed(v) /\ Listed(w) /\ Len(l) = Len(v) /\ Len(m) = Len(w)
    BY DEF Matches
<1>1. PICK S1, S2, T1, T2 : l \in Seq(S1) /\ m \in Seq(S2) /\ v \in Seq(T1) /\ w \in Seq(T2)
    <2>1. Listed(l) /\ Listed(m)
        BY <1>0 DEF Fits
    <2> QED BY <1>0, <2>1, ListedSeq
<1>2. PICK a, b, c : a = Len(l) /\ b = Len(m) /\ c = Len(w)
    OBVIOUS
<1>3. a \in Nat /\ b \in Nat /\ c \in Nat /\ Len(v) = a /\ b = c
    BY <1>0, <1>1, <1>2, LenProperties
<1>4. l \in Seq(S1 \cup S2) /\ m \in Seq(S1 \cup S2) /\ v \in Seq(T1 \cup T2) /\ w \in Seq(T1 \cup T2)
    <2>1. \A A, B : Seq(A) \subseteq Seq(A \cup B) /\ Seq(A) \subseteq Seq(B \cup A)
        BY SeqMonotonic
    <2> QED BY <1>1, <2>1
<1>5. /\ l \o m \in Seq(S1 \cup S2) /\ Len(l \o m) = a + b
      /\ \A i \in 1..(a + b) : (l \o m)[i] = IF i <= a THEN l[i] ELSE m[i - a]
    BY <1>2, <1>4, ConcatProperties
<1>6. /\ v \o w \in Seq(T1 \cup T2) /\ Len(v \o w) = a + c
      /\ \A i \in 1..(a + c) : (v \o w)[i] = IF i <= a THEN v[i] ELSE w[i - a]
    <2>1. /\ v \o w \in Seq(T1 \cup T2) /\ Len(v \o w) = Len(v) + Len(w)
          /\ \A i \in 1..(Len(v) + Len(w)) : (v \o w)[i] = IF i <= Len(v) THEN v[i] ELSE w[i - Len(v)]
        BY <1>4, ConcatProperties
    <2> QED BY <2>1, <1>2, <1>3
<1>7. Listed(l \o m) /\ Listed(v \o w)
    BY <1>5, <1>6, SeqListed
<1>8. ASSUME NEW i \in 1..(a + b) PROVE FieldFits((l \o m)[i], (v \o w)[i])
    <2>1. CASE i <= a
        <3>1. i \in 1..a /\ i \in 1..(a + c)
            BY <1>3, <2>1
        <3>2. (l \o m)[i] = l[i] /\ (v \o w)[i] = v[i]
            BY <1>5, <1>6, <2>1, <3>1
        <3> QED BY <1>0, <1>2, <3>1, <3>2 DEF Fits
    <2>2. CASE ~(i <= a)
        <3>1. i - a \in 1..b /\ i \in 1..(a + b)
            BY <1>3, <2>2
        <3>2. (l \o m)[i] = m[i - a] /\ FieldFits(m[i - a], w[i - a])
            BY <1>0, <1>2, <1>5, <2>2, <3>1 DEF Fits
        <3>3. (v \o w)[i] = w[i - a]
            BY <1>3, <1>6, <2>2, <3>1
        <3> QED BY <3>2, <3>3
    <2> QED BY <2>1, <2>2
<1> QED BY <1>3, <1>5, <1>6, <1>7, <1>8 DEF Fits, Matches

\* The same of a struct.
StructMatches(layout, vals) == StructFits(layout, vals) /\ Listed(vals) /\ Len(layout) = Len(vals)

LEMMA StructIsMessage ==
    ASSUME NEW layout, NEW vals, StructMatches(layout, vals)
    PROVE  Matches(layout, vals)
<1>1. layout \in Seq(Simples)
    BY DEF StructMatches, StructFits
<1> QED BY <1>1, SeqListed DEF StructMatches, Matches, Fits, FieldFits, StructFits

\* Texts and numbers of the kind a message has.
LEMMA SimplyFits ==
    /\ \A v \in Nat : SimpleFits(u8, v) /\ SimpleFits(u16, v) /\ SimpleFits(u32, v) /\ SimpleFits(u64, v)
    /\ \A v : Text(v) => SimpleFits(str, v)
    /\ Text(<<>>) /\ {u8, u16, u32, u64, str} \subseteq Simples
<1>1. u8 \in Simples \ {str} /\ u16 \in Simples \ {str} /\ u32 \in Simples \ {str} /\ u64 \in Simples \ {str}
    BY Marks DEF Simples
<1>2. Text(<<>>)
    BY Sizes, EmptySeq DEF Text
<1> QED BY <1>1, <1>2 DEF SimpleFits, Text, Bytes, Simples

(* Structs of a few fields. *)

LEMMA Fits1 ==
    ASSUME NEW l1,
           NEW v1,
           SimpleFits(l1, v1)
    PROVE  StructMatches(<<l1>>, <<v1>>)
<1> DEFINE l == <<l1>>
           v == <<v1>>
<1>1. {l1} \subseteq Simples
    BY SimpleRead
<1>2. l \in Seq(Simples) /\ Len(l) = 1 /\ v \in Seq({v1}) /\ Len(v) = 1
    BY <1>1
<1>3. l[1] = l1
    OBVIOUS
<1>4. v[1] = v1
    OBVIOUS
<1> HIDE DEF l, v
<1>5. \A i \in 1..1 : i = 1
    OBVIOUS
<1>6. \A i \in 1..1 : SimpleFits(l[i], v[i])
    BY <1>3, <1>4, <1>5
<1>7. Listed(v)
    BY <1>2, SeqListed
<1>8. StructMatches(l, v)
    BY <1>2, <1>6, <1>7 DEF StructMatches, StructFits
<1> QED BY <1>8 DEF l, v

LEMMA Fits2 ==
    ASSUME NEW l1, NEW l2,
           NEW v1, NEW v2,
           SimpleFits(l1, v1), SimpleFits(l2, v2)
    PROVE  StructMatches(<<l1, l2>>, <<v1, v2>>)
<1> DEFINE l == <<l1, l2>>
           v == <<v1, v2>>
<1>1. {l1, l2} \subseteq Simples
    BY SimpleRead
<1>2. l \in Seq(Simples) /\ Len(l) = 2 /\ v \in Seq({v1, v2}) /\ Len(v) = 2
    BY <1>1
<1>3. l[1] = l1 /\ l[2] = l2
    OBVIOUS
<1>4. v[1] = v1 /\ v[2] = v2
    OBVIOUS
<1> HIDE DEF l, v
<1>5. \A i \in 1..2 : i = 1 \/ i = 2
    OBVIOUS
<1>6. \A i \in 1..2 : SimpleFits(l[i], v[i])
    BY <1>3, <1>4, <1>5
<1>7. Listed(v)
    BY <1>2, SeqListed
<1>8. StructMatches(l, v)
    BY <1>2, <1>6, <1>7 DEF StructMatches, StructFits
<1> QED BY <1>8 DEF l, v

LEMMA Fits3 ==
    ASSUME NEW l1, NEW l2, NEW l3,
           NEW v1, NEW v2, NEW v3,
           SimpleFits(l1, v1), SimpleFits(l2, v2), SimpleFits(l3, v3)
    PROVE  StructMatches(<<l1, l2, l3>>, <<v1, v2, v3>>)
<1> DEFINE l == <<l1, l2, l3>>
           v == <<v1, v2, v3>>
<1>1. {l1, l2, l3} \subseteq Simples
    BY SimpleRead
<1>2. l \in Seq(Simples) /\ Len(l) = 3 /\ v \in Seq({v1, v2, v3}) /\ Len(v) = 3
    BY <1>1
<1>3. l[1] = l1 /\ l[2] = l2 /\ l[3] = l3
    OBVIOUS
<1>4. v[1] = v1 /\ v[2] = v2 /\ v[3] = v3
    OBVIOUS
<1> HIDE DEF l, v
<1>5. \A i \in 1..3 : i = 1 \/ i = 2 \/ i = 3
    OBVIOUS
<1>6. \A i \in 1..3 : SimpleFits(l[i], v[i])
    BY <1>3, <1>4, <1>5
<1>7. Listed(v)
    BY <1>2, SeqListed
<1>8. StructMatches(l, v)
    BY <1>2, <1>6, <1>7 DEF StructMatches, StructFits
<1> QED BY <1>8 DEF l, v

LEMMA Fits4 ==
    ASSUME NEW l1, NEW l2, NEW l3, NEW l4,
           NEW v1, NEW v2, NEW v3, NEW v4,
           SimpleFits(l1, v1), SimpleFits(l2, v2), SimpleFits(l3, v3),
           SimpleFits(l4, v4)
    PROVE  StructMatches(<<l1, l2, l3, l4>>, <<v1, v2, v3, v4>>)
<1> DEFINE l == <<l1, l2, l3, l4>>
           v == <<v1, v2, v3, v4>>
<1>1. {l1, l2, l3, l4} \subseteq Simples
    BY SimpleRead
<1>2. l \in Seq(Simples) /\ Len(l) = 4 /\ v \in Seq({v1, v2, v3, v4}) /\ Len(v) = 4
    BY <1>1
<1>3. l[1] = l1 /\ l[2] = l2 /\ l[3] = l3 /\ l[4] = l4
    OBVIOUS
<1>4. v[1] = v1 /\ v[2] = v2 /\ v[3] = v3 /\ v[4] = v4
    OBVIOUS
<1> HIDE DEF l, v
<1>5. \A i \in 1..4 : i = 1 \/ i = 2 \/ i = 3 \/ i = 4
    OBVIOUS
<1>6. \A i \in 1..4 : SimpleFits(l[i], v[i])
    BY <1>3, <1>4, <1>5
<1>7. Listed(v)
    BY <1>2, SeqListed
<1>8. StructMatches(l, v)
    BY <1>2, <1>6, <1>7 DEF StructMatches, StructFits
<1> QED BY <1>8 DEF l, v

LEMMA Fits5 ==
    ASSUME NEW l1, NEW l2, NEW l3, NEW l4, NEW l5,
           NEW v1, NEW v2, NEW v3, NEW v4, NEW v5,
           SimpleFits(l1, v1), SimpleFits(l2, v2), SimpleFits(l3, v3),
           SimpleFits(l4, v4), SimpleFits(l5, v5)
    PROVE  StructMatches(<<l1, l2, l3, l4, l5>>, <<v1, v2, v3, v4, v5>>)
<1> DEFINE l == <<l1, l2, l3, l4, l5>>
           v == <<v1, v2, v3, v4, v5>>
<1>1. {l1, l2, l3, l4, l5} \subseteq Simples
    BY SimpleRead
<1>2. l \in Seq(Simples) /\ Len(l) = 5 /\ v \in Seq({v1, v2, v3, v4, v5}) /\ Len(v) = 5
    BY <1>1
<1>3. l[1] = l1 /\ l[2] = l2 /\ l[3] = l3 /\ l[4] = l4 /\ l[5] = l5
    OBVIOUS
<1>4. v[1] = v1 /\ v[2] = v2 /\ v[3] = v3 /\ v[4] = v4 /\ v[5] = v5
    OBVIOUS
<1> HIDE DEF l, v
<1>5. \A i \in 1..5 : i = 1 \/ i = 2 \/ i = 3 \/ i = 4 \/ i = 5
    OBVIOUS
<1>6. \A i \in 1..5 : SimpleFits(l[i], v[i])
    BY <1>3, <1>4, <1>5
<1>7. Listed(v)
    BY <1>2, SeqListed
<1>8. StructMatches(l, v)
    BY <1>2, <1>6, <1>7 DEF StructMatches, StructFits
<1> QED BY <1>8 DEF l, v

LEMMA Fits6 ==
    ASSUME NEW l1, NEW l2, NEW l3, NEW l4, NEW l5, NEW l6,
           NEW v1, NEW v2, NEW v3, NEW v4, NEW v5, NEW v6,
           SimpleFits(l1, v1), SimpleFits(l2, v2), SimpleFits(l3, v3),
           SimpleFits(l4, v4), SimpleFits(l5, v5), SimpleFits(l6, v6)
    PROVE  StructMatches(<<l1, l2, l3, l4, l5, l6>>, <<v1, v2, v3, v4, v5, v6>>)
<1> DEFINE l == <<l1, l2, l3, l4, l5, l6>>
           v == <<v1, v2, v3, v4, v5, v6>>
<1>1. {l1, l2, l3, l4, l5, l6} \subseteq Simples
    BY SimpleRead
<1>2. l \in Seq(Simples) /\ Len(l) = 6 /\ v \in Seq({v1, v2, v3, v4, v5, v6}) /\ Len(v) = 6
    BY <1>1
<1>3. l[1] = l1 /\ l[2] = l2 /\ l[3] = l3 /\ l[4] = l4 /\ l[5] = l5 /\ l[6] = l6
    OBVIOUS
<1>4. v[1] = v1 /\ v[2] = v2 /\ v[3] = v3 /\ v[4] = v4 /\ v[5] = v5 /\ v[6] = v6
    OBVIOUS
<1> HIDE DEF l, v
<1>5. \A i \in 1..6 : i = 1 \/ i = 2 \/ i = 3 \/ i = 4 \/ i = 5 \/ i = 6
    OBVIOUS
<1>6. \A i \in 1..6 : SimpleFits(l[i], v[i])
    BY <1>3, <1>4, <1>5
<1>7. Listed(v)
    BY <1>2, SeqListed
<1>8. StructMatches(l, v)
    BY <1>2, <1>6, <1>7 DEF StructMatches, StructFits
<1> QED BY <1>8 DEF l, v

LEMMA Fits7 ==
    ASSUME NEW l1, NEW l2, NEW l3, NEW l4, NEW l5, NEW l6, NEW l7,
           NEW v1, NEW v2, NEW v3, NEW v4, NEW v5, NEW v6, NEW v7,
           SimpleFits(l1, v1), SimpleFits(l2, v2), SimpleFits(l3, v3),
           SimpleFits(l4, v4), SimpleFits(l5, v5), SimpleFits(l6, v6),
           SimpleFits(l7, v7)
    PROVE  StructMatches(<<l1, l2, l3, l4, l5, l6, l7>>, <<v1, v2, v3, v4, v5, v6, v7>>)
<1> DEFINE l == <<l1, l2, l3, l4, l5, l6, l7>>
           v == <<v1, v2, v3, v4, v5, v6, v7>>
<1>1. {l1, l2, l3, l4, l5, l6, l7} \subseteq Simples
    BY SimpleRead
<1>2. l \in Seq(Simples) /\ Len(l) = 7 /\ v \in Seq({v1, v2, v3, v4, v5, v6, v7}) /\ Len(v) = 7
    BY <1>1
<1>3. l[1] = l1 /\ l[2] = l2 /\ l[3] = l3 /\ l[4] = l4 /\ l[5] = l5 /\ l[6] = l6 /\ l[7] = l7
    OBVIOUS
<1>4. v[1] = v1 /\ v[2] = v2 /\ v[3] = v3 /\ v[4] = v4 /\ v[5] = v5 /\ v[6] = v6 /\ v[7] = v7
    OBVIOUS
<1> HIDE DEF l, v
<1>5. \A i \in 1..7 : i = 1 \/ i = 2 \/ i = 3 \/ i = 4 \/ i = 5 \/ i = 6 \/ i = 7
    OBVIOUS
<1>6. \A i \in 1..7 : SimpleFits(l[i], v[i])
    BY <1>3, <1>4, <1>5
<1>7. Listed(v)
    BY <1>2, SeqListed
<1>8. StructMatches(l, v)
    BY <1>2, <1>6, <1>7 DEF StructMatches, StructFits
<1> QED BY <1>8 DEF l, v

Kinds == {"NORMAL", "ARENA", "PET", "CHARM", "ACT", "GUILD_SCORE", "GUILD_KILL"}

LEMMA Appended ==
    ASSUME NEW S, NEW s \in Seq(S), NEW x \in S
    PROVE  /\ Append(s, x) \in Seq(S) /\ Len(Append(s, x)) = Len(s) + 1
           /\ \A i \in 1..Len(s) : Append(s, x)[i] = s[i]
           /\ Append(s, x)[Len(s) + 1] = x
BY AppendProperties

LEMMA Seven ==
    ASSUME NEW a, NEW b, NEW c, NEW d, NEW e, NEW f, NEW g
    PROVE  Append(<<a, b, c, d, e, f>>, g) = <<a, b, c, d, e, f, g>>
<1> DEFINE s == <<a, b, c, d, e, f>>
           t == <<a, b, c, d, e, f, g>>
           S == {a, b, c, d, e, f, g}
<1>1. s \in Seq(S)
    OBVIOUS
<1>2. Len(s) = 6 /\ t \in Seq(S) /\ Len(t) = 7
    OBVIOUS
<1>3. (\A i \in 1..6 : t[i] = s[i]) /\ t[7] = g
    OBVIOUS
<1>4. g \in S
    OBVIOUS
<1> HIDE DEF s, t, S
<1>5. /\ Append(s, g) \in Seq(S) /\ Len(Append(s, g)) = Len(s) + 1
      /\ \A i \in 1..Len(s) : Append(s, g)[i] = s[i]
      /\ Append(s, g)[Len(s) + 1] = g
    BY <1>1, <1>4, Appended
<1>6. Append(s, g) = t
    <2> DEFINE r == Append(s, g)
    <2>1. r \in Seq(S) /\ Len(r) = 7 /\ (\A i \in 1..6 : r[i] = s[i]) /\ r[7] = g
        BY <1>2, <1>5
    <2> HIDE DEF r
    <2>2. \A i \in 1..7 : i = 7 \/ i \in 1..6
        OBVIOUS
    <2>3. \A i \in 1..7 : r[i] = t[i]
        BY <1>3, <2>1, <2>2
    <2>4. r = t
        BY <1>2, <2>1, <2>3, SeqEqual
    <2> QED BY <2>4 DEF r
<1> QED BY <1>6 DEF s, t

LEMMA Second ==
    ASSUME NEW a, NEW b, NEW c, NEW d, NEW e, NEW f, NEW g
    PROVE  [<<a, b, c, d, e, f>> EXCEPT ![2] = g] = <<a, g, c, d, e, f>>
<1> DEFINE s == <<a, b, c, d, e, f>>
           u == <<a, g, c, d, e, f>>
           w == [s EXCEPT ![2] = g]
           S == {a, b, c, d, e, f, g}
<1>1. s \in Seq(S) /\ Len(s) = 6 /\ u \in Seq(S) /\ Len(u) = 6 /\ g \in S
    OBVIOUS
<1>2. u[2] = g /\ \A i \in 1..6 : i # 2 => u[i] = s[i]
    OBVIOUS
<1> HIDE DEF s, u, S
<1>3. DOMAIN s = 1..6 /\ s \in [1..6 -> S]
    BY <1>1, LenProperties
<1>4. w \in [1..6 -> S] /\ \A i \in 1..6 : w[i] = IF i = 2 THEN g ELSE s[i]
    BY <1>1, <1>3
<1> HIDE DEF w
<1>5. w \in [1..6 -> S]
    BY <1>4
<1>6. w \in Seq(S) /\ Len(w) = 6
    BY <1>5, FunctionIsSeq
<1>7. \A i \in 1..6 : w[i] = u[i]
    BY <1>2, <1>4
<1>8. w = u
    BY <1>1, <1>6, <1>7, SeqEqual
<1> QED BY <1>8 DEF s, u, w

\* Every kind of entry fits its struct, for a character as the game keeps it.
LEMMA InfoFits ==
    ASSUME NEW kind \in Kinds, NEW c, Proper(c), NEW power \in Nat
    PROVE  StructMatches(InfoLayout[kind], Info(kind, c, power))
<1> DEFINE l == InfoLayout[kind]
           v == Info(kind, c, power)
<1>1. c.pid \in Nat /\ c.level \in Nat /\ Text(c.name) /\ 0 \in Nat /\ 2 \in Nat
    BY DEF Proper, Characters
<1>2. CASE kind = "NORMAL"
    <2>1. l = <<u64, u32, str, u16, u8, str>>
        BY <1>2 DEF InfoLayout
    <2>2. v = <<c.pid, power, c.name, c.level, 0, <<>> >>
        BY <1>2 DEF Info
    <2> HIDE DEF l, v
    <2>3. StructMatches(<<u64, u32, str, u16, u8, str>>, <<c.pid, power, c.name, c.level, 0, <<>> >>)
        BY <1>1, SimplyFits, Fits6
    <2>4. StructMatches(l, v)
        BY <2>1, <2>2, <2>3
    <2> QED BY <2>4 DEF l, v
<1>3. CASE kind = "ARENA"
    <2>1. l = <<u64, u32, str, u8, u16, u32, u32>>
        BY <1>3 DEF InfoLayout
    <2>2. v = <<c.pid, power, c.name, 0, c.level, 0, 0>>
        BY <1>3 DEF Info
    <2> HIDE DEF l, v
    <2>3. StructMatches(<<u64, u32, str, u8, u16, u32, u32>>, <<c.pid, power, c.name, 0, c.level, 0, 0>>)
        BY <1>1, SimplyFits, Fits7
    <2>4. StructMatches(l, v)
        BY <2>1, <2>2, <2>3
    <2> QED BY <2>4 DEF l, v
<1>4. CASE kind = "PET"
    <2>1. l = <<u64, u32, str, u16, u8, str, str>>
        BY <1>4 DEF InfoLayout
    <2>2. v = <<c.pid, power, c.name, c.level, 0, <<>>, <<>> >>
        <3>1. v = Append(<<c.pid, power, c.name, c.level, 0, <<>> >>, <<>>)
            BY <1>4 DEF Info
        <3> HIDE DEF v
        <3> QED BY <3>1, Seven, Zenon
    <2> HIDE DEF l, v
    <2>3. StructMatches(<<u64, u32, str, u16, u8, str, str>>, <<c.pid, power, c.name, c.level, 0, <<>>, <<>> >>)
        BY <1>1, SimplyFits, Fits7
    <2>4. StructMatches(l, v)
        BY <2>1, <2>2, <2>3
    <2> QED BY <2>4 DEF l, v
<1>5. CASE kind = "CHARM"
    <2>1. l = <<u64, u32, str, u16, u8, str, u8>>
        BY <1>5 DEF InfoLayout
    <2>2. v = <<c.pid, power, c.name, c.level, 0, <<>>, 2>>
        <3>1. v = Append(<<c.pid, power, c.name, c.level, 0, <<>> >>, 2)
            BY <1>5 DEF Info
        <3> HIDE DEF v
        <3> QED BY <3>1, Seven, Zenon
    <2> HIDE DEF l, v
    <2>3. StructMatches(<<u64, u32, str, u16, u8, str, u8>>, <<c.pid, power, c.name, c.level, 0, <<>>, 2>>)
        BY <1>1, SimplyFits, Fits7
    <2>4. StructMatches(l, v)
        BY <2>1, <2>2, <2>3
    <2> QED BY <2>4 DEF l, v
<1>6. CASE kind = "ACT"
    <2>1. l = <<u64, u32, str, u16, u8, str, u8>>
        BY <1>6 DEF InfoLayout
    <2>2. v = <<c.pid, 0, c.name, c.level, 0, <<>>, 0>>
        BY <1>6, Seven, Second DEF Info
    <2> HIDE DEF l, v
    <2>3. StructMatches(<<u64, u32, str, u16, u8, str, u8>>, <<c.pid, 0, c.name, c.level, 0, <<>>, 0>>)
        BY <1>1, SimplyFits, Fits7
    <2>4. StructMatches(l, v)
        BY <2>1, <2>2, <2>3
    <2> QED BY <2>4 DEF l, v
<1>7. CASE kind = "GUILD_SCORE"
    <2>1. l = <<u64, u32, str, str, u16>>
        BY <1>7 DEF InfoLayout
    <2>2. v = <<0, 0, <<>>, c.name, c.level>>
        BY <1>7 DEF Info
    <2> HIDE DEF l, v
    <2>3. StructMatches(<<u64, u32, str, str, u16>>, <<0, 0, <<>>, c.name, c.level>>)
        BY <1>1, SimplyFits, Fits5
    <2>4. StructMatches(l, v)
        BY <2>1, <2>2, <2>3
    <2> QED BY <2>4 DEF l, v
<1>8. CASE kind = "GUILD_KILL"
    <2>1. l = <<u64, u32, str, u16, u8, str, u32>>
        BY <1>8 DEF InfoLayout
    <2>2. v = <<c.pid, power, c.name, c.level, 0, <<>>, 0>>
        <3>1. v = Append(<<c.pid, power, c.name, c.level, 0, <<>> >>, 0)
            BY <1>8 DEF Info
        <3> HIDE DEF v
        <3> QED BY <3>1, Seven, Zenon
    <2> HIDE DEF l, v
    <2>3. StructMatches(<<u64, u32, str, u16, u8, str, u32>>, <<c.pid, power, c.name, c.level, 0, <<>>, 0>>)
        BY <1>1, SimplyFits, Fits7
    <2>4. StructMatches(l, v)
        BY <2>1, <2>2, <2>3
    <2> QED BY <2>4 DEF l, v
<1> QED BY <1>2, <1>3, <1>4, <1>5, <1>6, <1>7, <1>8 DEF Kinds
-----------------------------------------------------------------------------
(* Whole messages. *)

LEMMA ListedFunction ==
    ASSUME NEW n \in Nat, NEW v, v = Upto(v, n)
    PROVE  Listed(v) /\ Len(v) = n
<1> DEFINE S == {v[i] : i \in 1..n}
<1>1. v \in [1..n -> S]
    BY DEF Upto
<1> HIDE DEF S
<1>2. Len(v) = n
    BY <1>1, FunctionIsSeq
<1> QED BY <1>2 DEF Listed

LEMMA ListFits ==
    ASSUME NEW l, NEW n \in Nat, NEW v, v = Upto(v, n), \A i \in 1..n : StructFits(l, v[i])
    PROVE  FieldFits(List(l), v)
<1>1. Listed(v) /\ Len(v) = n
    BY ListedFunction
<1>2. List(l)[2] = l
    BY Marks
<1> QED BY <1>1, <1>2 DEF FieldFits

LEMMA Fields1 ==
    ASSUME NEW f, NEW v, FieldFits(f, v)
    PROVE  Matches(<<f>>, <<v>>)
<1> DEFINE l == <<f>>
           r == <<v>>
<1>1. l \in Seq({f}) /\ Len(l) = 1 /\ r \in Seq({v}) /\ Len(r) = 1
    OBVIOUS
<1>2. l[1] = f
    OBVIOUS
<1>3. r[1] = v
    OBVIOUS
<1> HIDE DEF l, r
<1>4. \A i \in 1..1 : i = 1
    OBVIOUS
<1>5. \A i \in 1..1 : FieldFits(l[i], r[i])
    BY <1>2, <1>3, <1>4
<1>6. Listed(l) /\ Listed(r)
    BY <1>1, SeqListed
<1>7. Matches(l, r)
    BY <1>1, <1>5, <1>6 DEF Matches, Fits
<1> QED BY <1>7 DEF l, r

LEMMA Fields2 ==
    ASSUME NEW f, NEW g, NEW v, NEW w, FieldFits(f, v), FieldFits(g, w)
    PROVE  Matches(<<f, g>>, <<v, w>>)
<1> DEFINE l == <<f, g>>
           r == <<v, w>>
<1>1. l \in Seq({f, g}) /\ Len(l) = 2 /\ r \in Seq({v, w}) /\ Len(r) = 2
    OBVIOUS
<1>2. l[1] = f /\ l[2] = g
    OBVIOUS
<1>3. r[1] = v /\ r[2] = w
    OBVIOUS
<1> HIDE DEF l, r
<1>4. \A i \in 1..2 : i = 1 \/ i = 2
    OBVIOUS
<1>5. \A i \in 1..2 : FieldFits(l[i], r[i])
    BY <1>2, <1>3, <1>4
<1>6. Listed(l) /\ Listed(r)
    BY <1>1, SeqListed
<1>7. Matches(l, r)
    BY <1>1, <1>5, <1>6 DEF Matches, Fits
<1> QED BY <1>7 DEF l, r

LEMMA Fields3 ==
    ASSUME NEW f, NEW g, NEW h, NEW v, NEW w, NEW x, FieldFits(f, v), FieldFits(g, w), FieldFits(h, x)
    PROVE  Matches(<<f, g, h>>, <<v, w, x>>)
<1> DEFINE l == <<f, g, h>>
           r == <<v, w, x>>
<1>1. l \in Seq({f, g, h}) /\ Len(l) = 3 /\ r \in Seq({v, w, x}) /\ Len(r) = 3
    OBVIOUS
<1>2. l[1] = f /\ l[2] = g /\ l[3] = h
    OBVIOUS
<1>3. r[1] = v /\ r[2] = w /\ r[3] = x
    OBVIOUS
<1> HIDE DEF l, r
<1>4. \A i \in 1..3 : i = 1 \/ i = 2 \/ i = 3
    OBVIOUS
<1>5. \A i \in 1..3 : FieldFits(l[i], r[i])
    BY <1>2, <1>3, <1>4
<1>6. Listed(l) /\ Listed(r)
    BY <1>1, SeqListed
<1>7. Matches(l, r)
    BY <1>1, <1>5, <1>6 DEF Matches, Fits
<1> QED BY <1>7 DEF l, r

LEMMA SimplyFields ==
    /\ \A v \in Nat : FieldFits(u8, v) /\ FieldFits(u16, v) /\ FieldFits(u32, v) /\ FieldFits(u64, v)
    /\ \A v : Text(v) => FieldFits(str, v)
BY SimplyFits DEF FieldFits

\* The answer about a board.
LEMMA RankFits ==
    ASSUME NEW name \in DOMAIN Spelling, NEW page \in Nat, NEW index \in Nat, NEW mine, Proper(mine),
           NEW n \in Nat, NEW entries, DOMAIN entries = 1..n, \A r \in 1..n : Proper(entries[r]),
           NEW last \in Nat
    PROVE  Matches(RankLayout(name), RankMessage(name, page, index, mine, entries, last))
<1> DEFINE k == kind_of(name)
           info == InfoLayout[k]
           p == IF index = 0 THEN char_power(mine) ELSE PowerOn(name, mine)
           es == [i \in DOMAIN entries |-> Info(k, entries[i], PowerOn(name, entries[i]))]
<1>1. k \in Kinds
    BY DEF kind_of, Kinds
<1>2. Matches(<<u32, str, u8, u8>>, <<0, Spelling[name], page, index>>)
    <2>1. Text(Spelling[name]) /\ 0 \in Nat
        BY RankingAssumption
    <2>2. SimpleFits(u32, 0) /\ SimpleFits(str, Spelling[name]) /\ SimpleFits(u8, page) /\ SimpleFits(u8, index)
        BY <2>1, SimplyFits
    <2> QED BY <2>2, Fits4, StructIsMessage
<1>3. Matches(info, Info(k, mine, p))
    <2>1. p \in Nat
        BY PowersNat
    <2> HIDE DEF p, k
    <2> QED BY <1>1, <2>1, InfoFits, StructIsMessage
<1>4. Matches(<<List(info), u8>>, <<es, last>>)
    <2>1. es = Upto(es, n)
        BY DEF Upto
    <2>2. ASSUME NEW r \in 1..n PROVE StructFits(info, es[r])
        <3>1. PowerOn(name, entries[r]) \in Nat
            BY PowersNat
        <3>2. es[r] = Info(k, entries[r], PowerOn(name, entries[r]))
            OBVIOUS
        <3> HIDE DEF k, es
        <3> QED BY <1>1, <3>1, <3>2, InfoFits DEF StructMatches
    <2> HIDE DEF es, info
    <2>3. FieldFits(List(info), es)
        BY <2>1, <2>2, ListFits
    <2>4. FieldFits(u8, last)
        BY SimplyFields
    <2> QED BY <2>3, <2>4, Fields2
<1> HIDE DEF k, info, p, es
<1>5. Matches(<<u32, str, u8, u8>> \o info \o <<List(info), u8>>,
              <<0, Spelling[name], page, index>> \o Info(k, mine, p) \o <<es, last>>)
    <2>1. Matches(<<u32, str, u8, u8>> \o info, <<0, Spelling[name], page, index>> \o Info(k, mine, p))
        BY <1>2, <1>3, MatchesJoin
    <2> QED BY <1>4, <2>1, MatchesJoin
<1>6. RankLayout(name) = <<u32, str, u8, u8>> \o info \o <<List(info), u8>>
    BY DEF RankLayout, info, k
<1>7. RankMessage(name, page, index, mine, entries, last)
        = <<0, Spelling[name], page, index>> \o Info(k, mine, p) \o <<es, last>>
    BY DEF RankMessage, p, es, k
<1> QED BY <1>5, <1>6, <1>7

\* What a search and a page give.
FoundIn(s, p) == SelectInSeq(s, LAMBDA c : c.pid = p)

LEMMA FoundIs ==
    ASSUME NEW s, Len(s) \in Nat, NEW p, NEW i, i = FoundIn(s, p)
    PROVE  /\ i \in Nat /\ (i # 0 => i \in 1..Len(s) /\ s[i].pid = p)
           /\ i = 0 => \A r \in 1..Len(s) : s[r].pid # p
<1> DEFINE I == {r \in 1..Len(s) : s[r].pid = p}
<1>1. i = IF I # {} THEN Min(I) ELSE 0
    BY DEF SelectInSeq, FoundIn
<1>2. I # {} => Min(I) \in I
    BY Least
<1> QED BY <1>1, <1>2

IsPage(shown, entries, from) ==
    /\ DOMAIN shown = 1..Len(shown) /\ Len(shown) \in Nat /\ from \in Nat
    /\ \A r \in 1..Len(shown) : from + r \in 1..Len(entries) /\ shown[r] = entries[from + r]
    /\ \A r \in 1..Len(entries) : r - from \in 1..RANK_PAGE_SIZE <=> r - from \in 1..Len(shown)

LEMMA PageIs ==
    ASSUME NEW S, NEW entries \in Seq(S), NEW page \in Nat
    PROVE  IsPage(PageOf(entries, page), entries, page * RANK_PAGE_SIZE) /\ MaxPage(entries) \in Nat
<1> DEFINE from == page * RANK_PAGE_SIZE
           shown == PageOf(entries, page)
           to == IF from + RANK_PAGE_SIZE < Len(entries) THEN from + RANK_PAGE_SIZE ELSE Len(entries)
<1>1. RANK_PAGE_SIZE \in Nat \ {0}
    BY RankingAssumption
<1>2. Len(entries) \in Nat /\ \A r \in 1..Len(entries) : entries[r] \in S
    BY LenProperties
<1>3. PICK a : a = from
    OBVIOUS
<1>4. a \in Nat
    BY <1>1, <1>3
<1>5. (page + 1) * RANK_PAGE_SIZE = a + RANK_PAGE_SIZE
    BY <1>1, <1>3
<1>6. PICK z : z = to
    OBVIOUS
<1>7. shown = SubSeq(entries, a + 1, z)
    BY <1>3, <1>5, <1>6 DEF PageOf
<1> HIDE DEF from, shown
<1>8. z \in Nat /\ z <= Len(entries) /\ z <= a + RANK_PAGE_SIZE /\ (z = a + RANK_PAGE_SIZE \/ z = Len(entries))
    BY <1>1, <1>2, <1>3, <1>4, <1>6
<1> HIDE DEF to
<1>9. \A i \in (a + 1)..z : entries[i] \in S
    BY <1>2, <1>4, <1>8
<1>10. /\ shown \in Seq(S) /\ Len(shown) = IF a + 1 <= z THEN z - (a + 1) + 1 ELSE 0
       /\ \A i \in 1..(z - (a + 1) + 1) : shown[i] = entries[(a + 1) + i - 1]
    BY <1>4, <1>7, <1>8, <1>9, SubSeqProperties
<1>11. DOMAIN shown = 1..Len(shown) /\ Len(shown) \in Nat
    BY <1>10, LenProperties
<1>12. Len(shown) = IF a + 1 <= z THEN z - a ELSE 0
    BY <1>4, <1>8, <1>10
<1>13. ASSUME NEW r \in 1..Len(shown) PROVE a + r \in 1..Len(entries) /\ shown[r] = entries[a + r]
    <2>1. r \in 1..(z - (a + 1) + 1) /\ (a + 1) + r - 1 = a + r /\ a + r <= z
        BY <1>4, <1>8, <1>12
    <2> QED BY <1>2, <1>4, <1>8, <1>10, <2>1
<1>14. ASSUME NEW r \in 1..Len(entries)
       PROVE  r - a \in 1..RANK_PAGE_SIZE <=> r - a \in 1..Len(shown)
    BY <1>1, <1>2, <1>4, <1>8, <1>12
<1>15. MaxPage(entries) \in Nat
    <2>1. entries # <<>> => Len(entries) - 1 \in Nat
        BY <1>2, EmptySeq
    <2> QED BY <1>1, <2>1, Quotient DEF MaxPage
<1> QED BY <1>3, <1>4, <1>11, <1>13, <1>14, <1>15 DEF from, shown, IsPage
-----------------------------------------------------------------------------
(* The messages about attire, shop, inventory and gear. *)

LEMMA CappedNat == \A n \in Nat : Capped(n) \in Nat
BY Sizes DEF Capped

AttireOf(c) == [i \in DOMAIN ATTIRE_TYPES |->
    <<ATTIRE_TYPES[i], c.exterior[ATTIRE_TYPES[i]].level, Capped(c.exterior[ATTIRE_TYPES[i]].bless),
      Capped(c.exterior[ATTIRE_TYPES[i]].quality), 0>>]

\* The slots of on_show_query.
LEMMA AttireFits ==
    ASSUME NEW c, Proper(c)
    PROVE  Fits(<<str, List(<<u8, u8, u16, u16, u8>>)>>, <<c.name, AttireOf(c)>>)
<1> DEFINE v == AttireOf(c)
<1>1. Len(ATTIRE_TYPES) \in Nat /\ DOMAIN ATTIRE_TYPES = 1..Len(ATTIRE_TYPES)
    BY RankingAssumption, LenProperties
<1>2. v = Upto(v, Len(ATTIRE_TYPES))
    BY <1>1 DEF Upto, AttireOf
<1>3. ASSUME NEW i \in 1..Len(ATTIRE_TYPES) PROVE StructFits(<<u8, u8, u16, u16, u8>>, v[i])
    <2>1. PICK sid : sid = ATTIRE_TYPES[i]
        OBVIOUS
    <2>2. sid \in Range(ATTIRE_TYPES) /\ sid \in Nat
        BY <1>1, <2>1, RankingAssumption, ElementOfSeq DEF Range
    <2>3. PICK slot : slot = c.exterior[sid]
        OBVIOUS
    <2>4. slot \in [level : Nat, bless : Nat, quality : Nat]
        BY <2>2, <2>3 DEF Proper, Characters
    <2>5. slot.level \in Nat /\ Capped(slot.bless) \in Nat /\ Capped(slot.quality) \in Nat /\ 0 \in Nat
        BY <2>4, CappedNat
    <2>6. StructMatches(<<u8, u8, u16, u16, u8>>,
                        <<sid, slot.level, Capped(slot.bless), Capped(slot.quality), 0>>)
        <3>1. SimpleFits(u8, sid) /\ SimpleFits(u8, slot.level) /\ SimpleFits(u16, Capped(slot.bless))
            BY <2>2, <2>5, SimplyFits
        <3>2. SimpleFits(u16, Capped(slot.quality)) /\ SimpleFits(u8, 0)
            BY <2>5, SimplyFits
        <3> QED BY <3>1, <3>2, Fits5
    <2>7. v[i] = <<sid, slot.level, Capped(slot.bless), Capped(slot.quality), 0>>
        BY <1>1, <2>1, <2>3 DEF AttireOf
    <2> QED BY <2>6, <2>7 DEF StructMatches
<1> HIDE DEF v
<1>4. FieldFits(List(<<u8, u8, u16, u16, u8>>), v)
    BY <1>1, <1>2, <1>3, ListFits
<1>5. FieldFits(str, c.name)
    BY SimplyFields DEF Proper
<1>6. Matches(<<str, List(<<u8, u8, u16, u16, u8>>)>>, <<c.name, v>>)
    BY <1>4, <1>5, Fields2
<1> QED BY <1>6 DEF v, Matches

\* The counts of on_shop_query.
LEMMA ShopFits ==
    ASSUME NEW n \in Nat, NEW bought \in Nat
    PROVE  Fits(<<u32, List(<<u16>>)>>, <<0, [i \in 1..n |-> <<Capped(IF i % 2 = 1 THEN bought ELSE 0)>>]>>)
<1> DEFINE v == [i \in 1..n |-> <<Capped(IF i % 2 = 1 THEN bought ELSE 0)>>]
<1>1. v = Upto(v, n)
    BY DEF Upto
<1>2. ASSUME NEW i \in 1..n PROVE StructFits(<<u16>>, v[i])
    <2>1. PICK x : x = Capped(IF i % 2 = 1 THEN bought ELSE 0)
        OBVIOUS
    <2>2. x \in Nat
        BY <2>1, CappedNat
    <2>3. StructMatches(<<u16>>, <<x>>)
        BY <2>2, SimplyFits, Fits1
    <2>4. v[i] = <<x>>
        BY <2>1
    <2> QED BY <2>3, <2>4 DEF StructMatches
<1> HIDE DEF v
<1>3. FieldFits(List(<<u16>>), v)
    BY <1>1, <1>2, ListFits
<1>4. FieldFits(u32, 0)
    BY SimplyFields
<1>5. Matches(<<u32, List(<<u16>>)>>, <<0, v>>)
    BY <1>3, <1>4, Fields2
<1> QED BY <1>5 DEF v, Matches

\* A list of one struct.
LEMMA OneStruct ==
    ASSUME NEW l, NEW v, StructMatches(l, v)
    PROVE  Fits(<<List(l)>>, << <<v>> >>)
<1> DEFINE w == <<v>>
<1>1. w = Upto(w, 1)
    BY DEF Upto
<1>2. w[1] = v
    OBVIOUS
<1> HIDE DEF w
<1>3. \A i \in 1..1 : i = 1
    OBVIOUS
<1>4. \A i \in 1..1 : StructFits(l, w[i])
    BY <1>2, <1>3 DEF StructMatches
<1>5. 1 \in Nat
    OBVIOUS
<1>6. FieldFits(List(l), w)
    BY <1>1, <1>4, <1>5, ListFits
<1>7. Matches(<<List(l)>>, <<w>>)
    BY <1>6, Fields1
<1> QED BY <1>7 DEF w, Matches

LEMMA CountFits ==
    ASSUME NEW uid \in Nat, NEW type \in Nat, NEW count \in Nat
    PROVE  Fits(<<List(<<u64, u16, u32>>)>>, << << <<uid, type, count>> >> >>)
<1>1. StructMatches(<<u64, u16, u32>>, <<uid, type, count>>)
    BY SimplyFits, Fits3
<1> QED BY <1>1, OneStruct

LEMMA StructJoin ==
    ASSUME NEW l, NEW v, NEW m, NEW w, StructMatches(l, v), StructMatches(m, w)
    PROVE  StructMatches(l \o m, v \o w)
<1>1. Matches(l, v) /\ Matches(m, w)
    BY StructIsMessage
<1>2. Matches(l \o m, v \o w)
    BY <1>1, MatchesJoin
<1>3. l \in Seq(Simples) /\ m \in Seq(Simples) /\ Len(l) > 0
    BY DEF StructMatches, StructFits
<1>4. l \o m \in Seq(Simples) /\ Len(l \o m) = Len(l) + Len(m)
    BY <1>3, Concat
<1>5. Len(l) \in Nat /\ Len(m) \in Nat
    BY <1>3, LenProperties
<1>6. Len(l \o m) > 0
    BY <1>3, <1>4, <1>5
<1> HIDE DEF Simples
<1>7. ASSUME NEW i \in 1..Len(l \o m) PROVE SimpleFits((l \o m)[i], (v \o w)[i])
    <2>1. FieldFits((l \o m)[i], (v \o w)[i])
        BY <1>2 DEF Matches, Fits
    <2>2. (l \o m)[i] \in Simples
        BY <1>4, ElementOfSeq
    <2>3. (l \o m)[i][1] # "list"
        BY <2>2, SimpleMark
    <2> QED BY <2>1, <2>3, Marks DEF FieldFits
<1> QED BY <1>2, <1>4, <1>6, <1>7 DEF StructMatches, StructFits, Matches

LEMMA ConcatIs ==
    ASSUME NEW S, NEW s \in Seq(S), NEW t \in Seq(S), NEW u \in Seq(S), Len(u) = Len(s) + Len(t),
           \A i \in 1..Len(u) : u[i] = IF i <= Len(s) THEN s[i] ELSE t[i - Len(s)]
    PROVE  s \o t = u
<1>1. /\ s \o t \in Seq(S) /\ Len(s \o t) = Len(u)
      /\ \A i \in 1..Len(u) : (s \o t)[i] = u[i]
    BY ConcatProperties
<1> QED BY <1>1, SeqEqual

LEMMA SevenTwo ==
    ASSUME NEW a, NEW b, NEW c, NEW d, NEW e, NEW f, NEW g, NEW h, NEW i
    PROVE  <<a, b, c, d, e, f, g>> \o <<h, i>> = <<a, b, c, d, e, f, g, h, i>>
<1> DEFINE s == <<a, b, c, d, e, f, g>>
           t == <<h, i>>
           u == <<a, b, c, d, e, f, g, h, i>>
           S == {a, b, c, d, e, f, g, h, i}
<1>1. s \in Seq(S) /\ Len(s) = 7
    OBVIOUS
<1>2. t \in Seq(S) /\ Len(t) = 2
    OBVIOUS
<1>3. u \in Seq(S) /\ Len(u) = 9
    OBVIOUS
<1>4. u[1] = s[1] /\ u[2] = s[2] /\ u[3] = s[3] /\ u[4] = s[4] /\ u[5] = s[5] /\ u[6] = s[6]
    OBVIOUS
<1>5. u[7] = s[7] /\ u[8] = t[1] /\ u[9] = t[2]
    OBVIOUS
<1> HIDE DEF s, t, u, S
<1>6. \A k \in 1..9 : u[k] = IF k <= 7 THEN s[k] ELSE t[k - 7]
    <2> SUFFICES ASSUME NEW k \in 1..9 PROVE u[k] = IF k <= 7 THEN s[k] ELSE t[k - 7]
        OBVIOUS
    <2>1. k = 1 \/ k = 2 \/ k = 3 \/ k = 4 \/ k = 5 \/ k = 6 \/ k = 7 \/ k = 8 \/ k = 9
        OBVIOUS
    <2>2. 8 - 7 = 1 /\ 9 - 7 = 2 /\ 1 <= 7 /\ 2 <= 7 /\ 3 <= 7 /\ 4 <= 7 /\ 5 <= 7 /\ 6 <= 7
        OBVIOUS
    <2> QED BY <1>4, <1>5, <2>1, <2>2
<1>7. s \o t = u
    <2>1. Len(u) = Len(s) + Len(t) /\ \A k \in 1..Len(u) : u[k] = IF k <= Len(s) THEN s[k] ELSE t[k - Len(s)]
        BY <1>1, <1>2, <1>3, <1>6
    <2> QED BY <1>1, <1>2, <1>3, <2>1, ConcatIs
<1> QED BY <1>7 DEF s, t, u

\* An item's struct, with or without the strings of equipment.
LEMMA ItemFits ==
    ASSUME NEW uid \in Nat, NEW item \in Nat, NEW count \in Nat, NEW worn \in BOOLEAN
    PROVE  Fits(<<List(<<u64, u16>> \o ItemLayout(item))>>,
                << << <<uid, AddType, 0, uid, item, count, PosFor(item, worn), 0, 0>>
                       \o IF item \in Equipment THEN <<EmptyTable, EmptyTable, EmptyTable>> ELSE <<>> >> >>)
<1> DEFINE a == <<u64, u16>>
           b == <<u16, u64, u32, u32, u8, u8, u32>>
           c == <<str, str, str>>
           w == <<uid, AddType, 0, uid, item, count, PosFor(item, worn), 0, 0>>
           x == <<EmptyTable, EmptyTable, EmptyTable>>
<1>1. AddType \in Nat /\ PosFor(item, worn) \in Nat /\ 0 \in Nat
    BY RepliesAssumption DEF PosFor
<1>2. StructMatches(<<u64, u16, u16, u64, u32, u32, u8>>,
                    <<uid, AddType, 0, uid, item, count, PosFor(item, worn)>>)
    <2>1. SimpleFits(u64, uid) /\ SimpleFits(u16, AddType) /\ SimpleFits(u16, 0) /\ SimpleFits(u32, item)
        BY <1>1, SimplyFits
    <2>2. SimpleFits(u32, count) /\ SimpleFits(u8, PosFor(item, worn))
        BY <1>1, SimplyFits
    <2> QED BY <2>1, <2>2, Fits7
<1>3. StructMatches(<<u8, u32>>, <<0, 0>>)
    BY SimplyFits, Fits2
<1>4. StructMatches(c, x)
    <2>1. Text(EmptyTable)
        <3>1. EmptyTable \in Seq(0..(Byte - 1)) /\ Len(EmptyTable) = 2
            BY RepliesAssumption, Sizes DEF EmptyTable
        <3>2. 2 < Word
            <4>1. Byte > 2
                BY RepliesAssumption
            <4>2. Byte \in Nat /\ Word \in Nat /\ Word > Byte
                BY Sizes
            <4> QED BY <4>1, <4>2
        <3> QED BY <3>1, <3>2 DEF Text
    <2>2. SimpleFits(str, EmptyTable)
        BY <2>1, SimplyFits
    <2> QED BY <2>2, Fits3
<1>5. StructMatches(<<u64, u16, u16, u64, u32, u32, u8>> \o <<u8, u32>>,
                    <<uid, AddType, 0, uid, item, count, PosFor(item, worn)>> \o <<0, 0>>)
    BY <1>2, <1>3, StructJoin
<1>6. a \o b = <<u64, u16, u16, u64, u32, u32, u8>> \o <<u8, u32>>
    OBVIOUS
<1>7. <<uid, AddType, 0, uid, item, count, PosFor(item, worn)>> \o <<0, 0>> = w
    BY SevenTwo
<1>8. a \in Seq(Simples) /\ b \in Seq(Simples) /\ c \in Seq(Simples)
    <2>1. {u8, u16, u32, u64, str} \subseteq Simples
        BY SimplyFits
    <2> QED BY <2>1
<1> HIDE DEF a, b, c, w, x
<1>9. StructMatches(a \o b, w)
    BY <1>5, <1>6, <1>7
<1>10. CASE item \in Equipment
    <2>1. ItemLayout(item) = b \o c
        BY <1>10 DEF ItemLayout, b, c
    <2>2. a \o (b \o c) = (a \o b) \o c
        BY <1>8, ConcatAssociative
    <2>3. StructMatches(a \o ItemLayout(item), w \o x)
        BY <1>4, <1>9, <2>1, <2>2, StructJoin
    <2>4. Fits(<<List(a \o ItemLayout(item))>>, << <<w \o x>> >>)
        BY <2>3, OneStruct
    <2> QED BY <1>10, <2>4 DEF a, w, x
<1>11. CASE item \notin Equipment
    <2>1. ItemLayout(item) = b \o <<>>
        BY <1>11 DEF ItemLayout, b
    <2>2. b \o <<>> = b
        BY <1>8, ConcatEmptySeq
    <2>3. w \o <<>> = w
        <3>1. PICK S : w \in Seq(S)
            BY <1>9, ListedSeq DEF StructMatches
        <3> QED BY <3>1, ConcatEmptySeq
    <2>4. StructMatches(a \o ItemLayout(item), w \o <<>>)
        BY <1>9, <2>1, <2>2, <2>3
    <2>5. Fits(<<List(a \o ItemLayout(item))>>, << <<w \o <<>> >> >>)
        BY <2>4, OneStruct
    <2> QED BY <1>11, <2>5 DEF a, w
<1> QED BY <1>10, <1>11

Zeros(layout, n) == [part \in 1..n |-> [j \in DOMAIN layout |-> 0]]

LEMMA ZerosFit ==
    ASSUME NEW layout \in Seq(Simples \ {str}), Len(layout) > 0, NEW n \in Nat
    PROVE  FieldFits(List(layout), Zeros(layout, n))
<1> DEFINE z == Zeros(layout, n)
<1>1. DOMAIN layout = 1..Len(layout) /\ Len(layout) \in Nat
    BY LenProperties
<1>2. z = Upto(z, n)
    BY DEF Upto, Zeros
<1>3. layout \in Seq(Simples)
    <2>1. Simples \ {str} \subseteq Simples
        OBVIOUS
    <2> HIDE DEF Simples
    <2> QED BY <2>1, SeqMonotonic
<1> HIDE DEF Simples
<1>4. ASSUME NEW i \in 1..n PROVE StructFits(layout, z[i])
    <2>1. \A j \in 1..Len(layout) : z[i][j] = 0
        BY <1>1 DEF Zeros
    <2>2. \A j \in 1..Len(layout) : layout[j] \in Simples \ {str}
        BY ElementOfSeq
    <2> QED BY <1>3, <2>1, <2>2 DEF StructFits, SimpleFits
<1> HIDE DEF z
<1>5. FieldFits(List(layout), z)
    BY <1>2, <1>4, ListFits
<1> QED BY <1>5 DEF z

\* The seven arrays of encode_equip_info.
LEMMA EquipFits ==
    Fits([k \in DOMAIN EquipStructs |-> List(EquipStructs[k])],
         [k \in DOMAIN EquipStructs |-> [part \in 1..PartCount |->
             [j \in DOMAIN EquipStructs[k] |-> 0]]])
<1> DEFINE l == [k \in DOMAIN EquipStructs |-> List(EquipStructs[k])]
           v == [k \in DOMAIN EquipStructs |-> Zeros(EquipStructs[k], PartCount)]
<1>1. DOMAIN EquipStructs = 1..7 /\ 7 \in Nat /\ PartCount \in Nat
    BY RepliesAssumption DEF EquipStructs
<1>2. l = Upto(l, 7)
    BY <1>1 DEF Upto
<1>3. ASSUME NEW k \in 1..7
      PROVE  EquipStructs[k] \in Seq(Simples \ {str}) /\ Len(EquipStructs[k]) > 0
    <2>1. u8 \in Simples \ {str} /\ u16 \in Simples \ {str} /\ u32 \in Simples \ {str}
        BY Marks DEF Simples
    <2>2. PICK S : S = Simples \ {str}
        OBVIOUS
    <2>3. /\ EquipStructs[1] \in Seq(S) /\ Len(EquipStructs[1]) > 0
          /\ EquipStructs[2] \in Seq(S) /\ Len(EquipStructs[2]) > 0
        BY <2>1, <2>2 DEF EquipStructs
    <2>4. EquipStructs[3] \in Seq(S) /\ Len(EquipStructs[3]) > 0
        BY <2>1, <2>2 DEF EquipStructs
    <2>5. /\ EquipStructs[4] \in Seq(S) /\ Len(EquipStructs[4]) > 0
          /\ EquipStructs[5] \in Seq(S) /\ Len(EquipStructs[5]) > 0
        BY <2>1, <2>2 DEF EquipStructs
    <2>6. /\ EquipStructs[6] \in Seq(S) /\ Len(EquipStructs[6]) > 0
          /\ EquipStructs[7] \in Seq(S) /\ Len(EquipStructs[7]) > 0
        BY <2>1, <2>2 DEF EquipStructs
    <2>7. k = 1 \/ k = 2 \/ k = 3 \/ k = 4 \/ k = 5 \/ k = 6 \/ k = 7
        OBVIOUS
    <2> QED BY <2>2, <2>3, <2>4, <2>5, <2>6, <2>7
<1>4. ASSUME NEW k \in 1..7 PROVE FieldFits(l[k], v[k])
    <2>1. l[k] = List(EquipStructs[k]) /\ v[k] = Zeros(EquipStructs[k], PartCount)
        BY <1>1
    <2> HIDE DEF l, v
    <2> QED BY <1>1, <1>3, <2>1, ZerosFit
<1> HIDE DEF l, v
<1>5. Listed(l) /\ Len(l) = 7
    BY <1>1, <1>2, ListedFunction
<1>6. Fits(l, v)
    BY <1>4, <1>5 DEF Fits
<1> QED BY <1>6 DEF l, v, Zeros
-----------------------------------------------------------------------------
(* The list of characters. *)

\* What is kept of a sequence is in it.
LEMMA KeptType ==
    ASSUME NEW T, NEW s \in Seq(T), NEW S
    PROVE  Kept(s, S) \in Seq(T \cap S)
<1> DEFINE pieces == [i \in DOMAIN s |-> IF s[i] \in S THEN <<s[i]>> ELSE <<>>]
<1>1. DOMAIN s = 1..Len(s) /\ Len(s) \in Nat /\ \A i \in 1..Len(s) : s[i] \in T
    BY LenProperties
<1>2. ASSUME NEW i \in 1..Len(s) PROVE pieces[i] \in Seq(T \cap S)
    <2>1. CASE s[i] \in S
        <3>1. pieces[i] = <<s[i]>> /\ s[i] \in T \cap S
            BY <1>1, <2>1
        <3> HIDE DEF pieces
        <3> QED BY <3>1
    <2>2. CASE s[i] \notin S
        <3>1. pieces[i] = <<>>
            BY <1>1, <2>2
        <3> QED BY <3>1
    <2> QED BY <2>1, <2>2
<1>3. pieces = [i \in 1..Len(s) |-> pieces[i]]
    BY <1>1
<1> HIDE DEF pieces
<1>4. pieces \in [1..Len(s) -> Seq(T \cap S)]
    BY <1>2, <1>3
<1>5. FlattenSeq(pieces) \in Seq(T \cap S)
    BY <1>1, <1>4, FlattenType
<1> QED BY <1>5 DEF Kept, pieces

\* No other struct is taken for a character than the character's own.
LEMMA FactoryIs == MatchFactory(Fields(PLAYERS_INFO)) \subseteq {PLAYERS_INFO}
<1> DEFINE P == Fields(PLAYERS_INFO)
<1> SUFFICES ASSUME NEW f \in MatchFactory(P) PROVE f = PLAYERS_INFO
    OBVIOUS
<1>1. f \in Factories /\ P \subseteq Fields(f) /\ Cardinality(Fields(f)) <= Cardinality(P)
    BY RepliesAssumption DEF MatchFactory
<1>2. IsFiniteSet(Fields(f)) /\ IsFiniteSet(P)
    <2>1. ASSUME NEW g \in Factories PROVE IsFiniteSet(Fields(g))
        <3>1. g \in Seq(STRING \X Simples)
            BY RepliesAssumption
        <3>2. DOMAIN g = 1..Len(g) /\ Len(g) \in Nat
            BY <3>1, LenProperties
        <3>3. IsFiniteSet(DOMAIN g)
            BY <3>2, FS_Interval
        <3> DEFINE h == [j \in DOMAIN g |-> g[j][1]]
        <3>4. h \in Surjection(DOMAIN g, Fields(g))
            BY DEF Surjection, Fields
        <3> HIDE DEF h
        <3> QED BY <3>3, <3>4, FS_Surjection
    <2> QED BY <1>1, <2>1, RepliesAssumption
<1>3. Cardinality(P) <= Cardinality(Fields(f)) /\ (Cardinality(Fields(f)) = Cardinality(P) => Fields(f) = P)
    BY <1>1, <1>2, FS_Subset
<1>4. Cardinality(P) \in Nat /\ Cardinality(Fields(f)) \in Nat
    BY <1>2, FS_CardinalityType
<1>5. Fields(f) = P
    BY <1>1, <1>3, <1>4
<1> QED BY <1>1, <1>5, RepliesAssumption

SetOf(c, k) == IF k \in DOMAIN Player(c) THEN Player(c)[k] ELSE 0
PartOf(f, c) == [j \in DOMAIN f |-> SetOf(c, f[j][1])]
TypesOf(f) == [j \in DOMAIN f |-> f[j][2]]

\* The character list of on_login_game.
LEMMA PlayerFits ==
    ASSUME NEW c, Proper(c)
    PROVE  StructFits(TypesOf(PLAYERS_INFO), PartOf(PLAYERS_INFO, c))
<1>1. PICK f : f = PLAYERS_INFO
    OBVIOUS
<1>2. f \in Seq(STRING \X Simples) /\ f # <<>>
    BY <1>1, RepliesAssumption
<1>3. DOMAIN f = 1..Len(f) /\ Len(f) \in Nat \ {0} /\ \A j \in 1..Len(f) : f[j] \in STRING \X Simples
    BY <1>2, LenProperties, EmptySeq
<1>4. \A j \in 1..Len(f) : f[j][2] = str <=> f[j][1] = "nickname"
    <2>1. \A j \in 1..Len(f) : f[j] \in Range(f)
        BY <1>3 DEF Range
    <2> QED BY <1>1, <2>1, RepliesAssumption
<1>5. c.pid \in Nat /\ c.level \in Nat /\ Text(c.name)
    BY DEF Proper, Characters
<1> HIDE DEF Simples
<1>6. TypesOf(f) \in Seq(Simples) /\ Len(TypesOf(f)) = Len(f)
    <2>1. TypesOf(f) \in [1..Len(f) -> Simples]
        BY <1>3 DEF TypesOf
    <2> QED BY <1>3, <2>1, FunctionIsSeq
<1>7. SetOf(c, "nickname") = c.name
    BY DEF SetOf, Player
<1>8. ASSUME NEW k, k # "nickname" PROVE SetOf(c, k) \in Nat
    <2>1. DOMAIN Player(c) = {"pid", "level", "sex", "profession", "camp", "nickname", "status"}
        BY DEF Player
    <2>2. /\ Player(c)["pid"] \in Nat /\ Player(c)["level"] \in Nat /\ Player(c)["sex"] \in Nat
          /\ Player(c)["profession"] \in Nat /\ Player(c)["camp"] \in Nat /\ Player(c)["status"] \in Nat
        BY <1>5 DEF Player
    <2> QED BY <1>8, <2>1, <2>2 DEF SetOf
<1>9. ASSUME NEW j \in 1..Len(f) PROVE SimpleFits(TypesOf(f)[j], PartOf(f, c)[j])
    <2>1. TypesOf(f)[j] = f[j][2] /\ PartOf(f, c)[j] = SetOf(c, f[j][1]) /\ f[j][2] \in Simples
        BY <1>3 DEF TypesOf, PartOf
    <2>2. CASE f[j][1] = "nickname"
        <3>1. TypesOf(f)[j] = str /\ PartOf(f, c)[j] = c.name
            BY <1>4, <1>7, <2>1, <2>2
        <3> QED BY <1>5, <3>1, SimplyFits
    <2>3. CASE f[j][1] # "nickname"
        <3>1. f[j][2] # str /\ PartOf(f, c)[j] \in Nat
            BY <1>4, <1>8, <2>1, <2>3
        <3> QED BY <2>1, <3>1 DEF SimpleFits
    <2> QED BY <2>2, <2>3
<1>10. StructFits(TypesOf(f), PartOf(f, c))
    BY <1>3, <1>6, <1>9 DEF StructFits
<1> QED BY <1>1, <1>10

\* All characters, each once.
LEMMA LoginFits ==
    ASSUME NEW s, AllProper(s), NEW S
    PROVE  LET own == Kept(s, S)
               last == IF own = <<>> THEN 0 ELSE own[Len(own)].pid
           IN  Fits(<<u32, u64, List(TypesOf(PLAYERS_INFO))>>,
                    <<0, last, [i \in DOMAIN own |-> PartOf(PLAYERS_INFO, own[i])]>>)
<1> DEFINE own == Kept(s, S)
           last == IF own = <<>> THEN 0 ELSE own[Len(own)].pid
           T == {c \in Characters : Proper(c)}
           v == [i \in DOMAIN own |-> PartOf(PLAYERS_INFO, own[i])]
           l == TypesOf(PLAYERS_INFO)
<1>1. s \in Seq(T)
    <2>1. s \in [1..Len(s) -> Characters] /\ DOMAIN s = 1..Len(s) /\ Len(s) \in Nat
        BY LenProperties DEF AllProper
    <2>2. s \in [1..Len(s) -> T]
        BY <2>1 DEF AllProper
    <2> QED BY <2>1, <2>2, FunctionIsSeq
<1>2. own \in Seq(T)
    <2>1. own \in Seq(T \cap S)
        BY <1>1, KeptType
    <2>2. T \cap S \subseteq T
        OBVIOUS
    <2> HIDE DEF T, own
    <2> QED BY <2>1, <2>2, SeqMonotonic
<1> HIDE DEF own
<1>3. DOMAIN own = 1..Len(own) /\ Len(own) \in Nat /\ \A i \in 1..Len(own) : own[i] \in T
    BY <1>2, LenProperties
<1>4. last \in Nat
    <2>1. own # <<>> => Len(own) \in 1..Len(own)
        BY <1>2, <1>3, EmptySeq
    <2>2. \A c \in T : c.pid \in Nat
        BY DEF Characters
    <2> QED BY <1>3, <2>1, <2>2
<1>5. v = Upto(v, Len(own))
    BY <1>3 DEF Upto
<1>6. ASSUME NEW i \in 1..Len(own) PROVE StructFits(l, v[i])
    <2>1. v[i] = PartOf(PLAYERS_INFO, own[i]) /\ Proper(own[i])
        BY <1>3
    <2> HIDE DEF v
    <2> QED BY <2>1, PlayerFits
<1> HIDE DEF v, l, last
<1>7. FieldFits(List(l), v)
    BY <1>3, <1>5, <1>6, ListFits
<1>8. FieldFits(u32, 0) /\ FieldFits(u64, last)
    BY <1>4, SimplyFields
<1>9. Matches(<<u32, u64, List(l)>>, <<0, last, v>>)
    BY <1>7, <1>8, Fields3
<1> QED BY <1>9 DEF own, last, v, l, Matches
-----------------------------------------------------------------------------
(* Base64. *)

LEMMA DigitIs ==
    ASSUME NEW v \in 0..63
    PROVE  /\ Digit(v) \in Digits /\ Value[Digit(v)] = v
           /\ Digit(v) \in 43..122 /\ Digit(v) # Equals /\ (Digit(v) = 43 <=> v = 62)
<1>1. \A a, b \in 0..63 : Digit(a) = Digit(b) => a = b
    BY DEF Digit
<1>2. Digit(v) \in Digits
    BY DEF Digits
<1>3. Value[Digit(v)] = CHOOSE w \in 0..63 : Digit(w) = Digit(v)
    BY <1>2 DEF Value
<1>4. Value[Digit(v)] = v
    BY <1>1, <1>3
<1>5. Digit(v) \in 43..122 /\ Digit(v) # Equals /\ (Digit(v) = 43 <=> v = 62)
    BY DEF Digit, Equals
<1> QED BY <1>2, <1>4, <1>5

LEMMA NotDigit == Equals \notin Digits
<1>1. \A v \in 0..63 : Digit(v) # Equals
    BY DigitIs
<1> QED BY <1>1 DEF Digits

ByteAt(s, i) == IF i <= Len(s) THEN s[i] ELSE 0

SextetOf(s, g, k) ==
    CASE k = 0 -> ByteAt(s, 3 * g + 1) \div 4
      [] k = 1 -> (ByteAt(s, 3 * g + 1) % 4) * 16 + (ByteAt(s, 3 * g + 2) \div 16)
      [] k = 2 -> (ByteAt(s, 3 * g + 2) % 16) * 4 + (ByteAt(s, 3 * g + 3) \div 64)
      [] k = 3 -> ByteAt(s, 3 * g + 3) % 64

CharOf(s, g, k) == IF k > Len(s) - 3 * g THEN Equals ELSE Digit(SextetOf(s, g, k))

Groups(n) == (n + 2) \div 3

\* base64.b64encode, digit by digit.
LEMMA EncodedIs ==
    ASSUME NEW s
    PROVE  B64e(s) = [j \in 1..(4 * Groups(Len(s))) |-> CharOf(s, (j - 1) \div 4, (j - 1) % 4)]
BY DEF B64e, CharOf, SextetOf, ByteAt, Groups

LEMMA GroupsIs ==
    ASSUME NEW n \in Nat
    PROVE  Groups(n) \in Nat /\ 3 * Groups(n) - n \in 0..2
BY DEF Groups

LEMMA ByteIs ==
    ASSUME NEW s \in Seq(0..255), NEW i \in Nat \ {0}
    PROVE  ByteAt(s, i) \in 0..255
<1>1. i <= Len(s) => i \in 1..Len(s)
    BY LenProperties
<1> QED BY <1>1, ElementOfSeq DEF ByteAt

LEMMA SextetIs ==
    ASSUME NEW s \in Seq(0..255), NEW g \in Nat, NEW k \in 0..3
    PROVE  SextetOf(s, g, k) \in 0..63
<1>1. PICK a, b, c : a = ByteAt(s, 3 * g + 1) /\ b = ByteAt(s, 3 * g + 2) /\ c = ByteAt(s, 3 * g + 3)
    OBVIOUS
<1>2. a \in 0..255 /\ b \in 0..255 /\ c \in 0..255
    <2>1. 3 * g + 1 \in Nat \ {0} /\ 3 * g + 2 \in Nat \ {0} /\ 3 * g + 3 \in Nat \ {0}
        OBVIOUS
    <2> QED BY <1>1, <2>1, ByteIs
<1>3. /\ a \div 4 \in 0..63 /\ (a % 4) * 16 + (b \div 16) \in 0..63
      /\ (b % 16) * 4 + (c \div 64) \in 0..63 /\ c % 64 \in 0..63
    BY <1>2
<1>4. k = 0 \/ k = 1 \/ k = 2 \/ k = 3
    OBVIOUS
<1> QED BY <1>1, <1>3, <1>4 DEF SextetOf

LEMMA GroupSizes ==
    ASSUME NEW n \in Nat, NEW e \in Nat, NEW m \in 0..2, m = 3 * e - n
    PROVE  4 * e - m \in Nat /\ n = 3 * e - m
<1>1. 3 * e = n + m
    OBVIOUS
<1>2. 4 * e = n + m + e
    BY <1>1
<1> QED BY <1>1, <1>2

LEMMA GroupPlace ==
    ASSUME NEW j \in Nat \ {0}
    PROVE  (j - 1) \div 4 \in Nat /\ (j - 1) % 4 \in 0..3 /\ j - 1 = 4 * ((j - 1) \div 4) + ((j - 1) % 4)
<1>1. j - 1 \in Nat
    OBVIOUS
<1> QED BY <1>1, Divided

Placed(n, e, m, j, g, k) ==
    /\ n \in Nat /\ e \in Nat /\ m \in 0..2 /\ n = 3 * e - m
    /\ j \in 1..(4 * e) /\ g \in Nat /\ k \in 0..3 /\ j - 1 = 4 * g + k

LEMMA GroupEnd ==
    ASSUME NEW n, NEW e, NEW m, NEW j, NEW g, NEW k, Placed(n, e, m, j, g, k)
    PROVE  k > n - 3 * g <=> ~(j <= 4 * e - m)
<1>1. g < e
    BY DEF Placed
<1>2. CASE g = e - 1
    BY <1>2 DEF Placed
<1>3. CASE g < e - 1
    BY <1>3 DEF Placed
<1>4. g = e - 1 \/ g < e - 1
    BY <1>1 DEF Placed
<1> QED BY <1>2, <1>3, <1>4

\* Digits first, then as many marks as bytes are missing in the last group.
LEMMA EncodedParts ==
    ASSUME NEW s \in Seq(0..255), NEW n, n = Len(s), NEW t, t = B64e(s), NEW e, e = Groups(n), NEW m, m = 3 * e - n
    PROVE  /\ n \in Nat /\ e \in Nat /\ m \in 0..2 /\ 4 * e - m \in Nat /\ n = 3 * e - m
           /\ t = Upto(t, 4 * e)
           /\ \A j \in 1..(4 * e) : IF j <= 4 * e - m
                                    THEN t[j] = Digit(SextetOf(s, (j - 1) \div 4, (j - 1) % 4))
                                    ELSE t[j] = Equals
<1>1. n \in Nat
    BY LenProperties
<1>2. e \in Nat /\ m \in 0..2
    BY <1>1, GroupsIs
<1>3. 4 * e - m \in Nat /\ n = 3 * e - m
    BY <1>1, <1>2, GroupSizes
<1>4. t = [j \in 1..(4 * e) |-> CharOf(s, (j - 1) \div 4, (j - 1) % 4)]
    BY EncodedIs
<1>5. t = Upto(t, 4 * e)
    BY <1>4 DEF Upto
<1>6. ASSUME NEW j \in 1..(4 * e)
      PROVE  IF j <= 4 * e - m THEN t[j] = Digit(SextetOf(s, (j - 1) \div 4, (j - 1) % 4)) ELSE t[j] = Equals
    <2>1. PICK g, k : g = (j - 1) \div 4 /\ k = (j - 1) % 4
        OBVIOUS
    <2>2. g \in Nat /\ k \in 0..3 /\ j - 1 = 4 * g + k
        <3>1. j \in Nat \ {0}
            BY <1>2
        <3> QED BY <2>1, <3>1, GroupPlace
    <2>3. k > n - 3 * g <=> ~(j <= 4 * e - m)
        <3>1. Placed(n, e, m, j, g, k)
            BY <1>1, <1>2, <1>3, <2>2 DEF Placed
        <3> QED BY <3>1, GroupEnd
    <2>4. t[j] = CharOf(s, g, k)
        BY <1>4, <2>1
    <2> QED BY <2>1, <2>3, <2>4 DEF CharOf
<1> QED BY <1>1, <1>2, <1>3, <1>5, <1>6

\* Only what is kept is at the front.
LEMMA KeptFront ==
    ASSUME NEW T, NEW t \in Seq(T), NEW n, n = Len(t), NEW S, NEW l \in 0..n,
           \A j \in 1..n : t[j] \in S <=> j <= l
    PROVE  Kept(t, S) = Upto(t, l) /\ Len(Upto(t, l)) = l
<1> DEFINE pieces == [i \in DOMAIN t |-> IF t[i] \in S THEN <<t[i]>> ELSE <<>>]
           h == [k \in 0..n |-> Upto(t, IF k <= l THEN k ELSE l)]
<1>1. n \in Nat /\ DOMAIN t = 1..n /\ \A j \in 1..n : t[j] \in T
    BY LenProperties
<1>2. \A k \in 0..n : Upto(t, k) \in Seq(T) /\ Len(Upto(t, k)) = k
    <2>1. \A k \in 0..n : k \in Nat /\ Upto(t, k) \in [1..k -> T]
        BY <1>1 DEF Upto
    <2> QED BY <2>1, FunctionIsSeq
<1>3. pieces \in [1..n -> Seq(T)]
    <2>1. ASSUME NEW i \in 1..n PROVE (IF t[i] \in S THEN <<t[i]>> ELSE <<>>) \in Seq(T)
        <3>1. t[i] \in T
            BY <1>1
        <3>2. <<t[i]>> \in Seq(T) /\ <<>> \in Seq(T)
            BY <3>1
        <3> QED BY <3>2
    <2> QED BY <1>1, <2>1
<1>4. ASSUME NEW k \in 1..n PROVE h[k] = h[k - 1] \o pieces[k]
    <2>1. k - 1 \in 0..n /\ k \in 0..n
        BY <1>1
    <2>2. CASE k <= l
        <3>1. h[k] = Upto(t, k) /\ h[k - 1] = Upto(t, k - 1) /\ pieces[k] = <<t[k]>>
            BY <1>1, <2>1, <2>2
        <3>2. Upto(t, k - 1) \o <<t[k]>> = Append(Upto(t, k - 1), t[k])
            BY <1>1, <1>2, <2>1, AppendIsConcat
        <3>3. Append(Upto(t, k - 1), t[k]) = Upto(t, k)
            <4>1. PICK j \in Nat : k = j + 1
                BY <1>1
            <4>2. k - 1 = j
                BY <4>1
            <4>3. Append(Upto(t, j), t[j + 1]) = Upto(t, j + 1)
                BY AppendNext DEF Upto
            <4> QED BY <4>1, <4>2, <4>3
        <3> QED BY <3>1, <3>2, <3>3
    <2>3. CASE ~(k <= l)
        <3>1. pieces[k] = <<>>
            BY <1>1, <2>3
        <3>2. h[k] = Upto(t, l) /\ h[k - 1] = Upto(t, l)
            BY <1>1, <2>1, <2>3
        <3>3. Upto(t, l) \o <<>> = Upto(t, l)
            BY <1>2, ConcatEmptySeq
        <3> QED BY <3>1, <3>2, <3>3
    <2> QED BY <2>2, <2>3
<1>5. h[0] = <<>>
    <2>1. h[0] = Upto(t, 0)
        BY <1>1
    <2>2. Upto(t, 0) \in Seq(T) /\ Len(Upto(t, 0)) = 0
        BY <1>1, <1>2
    <2>3. Upto(t, 0) = <<>>
        BY <2>2, EmptySeq
    <2> QED BY <2>1, <2>3
<1>6. h = [k \in 0..n |-> h[k]]
    OBVIOUS
<1>7. h[n] = Upto(t, l)
    BY <1>1
<1> HIDE DEF h, pieces
<1>8. Joins(h, pieces, n)
    BY <1>4, <1>5, <1>6 DEF Joins
<1>9. FlattenSeq(pieces) = h[n]
    BY <1>1, <1>3, <1>8, FlattenIs
<1> QED BY <1>2, <1>7, <1>9 DEF Kept, pieces

LEMMA Thirds ==
    ASSUME NEW i \in Nat
    PROVE  i \div 3 \in Nat /\ i % 3 \in 0..2 /\ i = 3 * (i \div 3) + (i % 3)
OBVIOUS

\* What is written in base64 is read from it.
LEMMA Base64Read ==
    ASSUME NEW s \in Seq(0..255)
    PROVE  B64d(B64e(s)) = s
<1>1. PICK n, t, e, m : n = Len(s) /\ t = B64e(s) /\ e = Groups(n) /\ m = 3 * e - n
    OBVIOUS
<1>2. /\ n \in Nat /\ e \in Nat /\ m \in 0..2 /\ 4 * e - m \in Nat /\ n = 3 * e - m
      /\ t = Upto(t, 4 * e)
      /\ \A j \in 1..(4 * e) : IF j <= 4 * e - m
                               THEN t[j] = Digit(SextetOf(s, (j - 1) \div 4, (j - 1) % 4))
                               ELSE t[j] = Equals
    BY <1>1, EncodedParts
<1>3. PICK l : l = 4 * e - m
    OBVIOUS
<1>4. l \in 0..(4 * e) /\ 4 * e \in Nat /\ l + m = 4 * e
    BY <1>2, <1>3
<1>5. \A j \in 1..(4 * e) : t[j] \in Digits <=> j <= l
    <2>1. ASSUME NEW j \in 1..(4 * e), j <= l PROVE t[j] \in Digits
        <3>1. (j - 1) \div 4 \in Nat /\ (j - 1) % 4 \in 0..3
            BY <1>4, GroupPlace
        <3>2. SextetOf(s, (j - 1) \div 4, (j - 1) % 4) \in 0..63
            BY <3>1, SextetIs
        <3>3. PICK x : x = SextetOf(s, (j - 1) \div 4, (j - 1) % 4)
            OBVIOUS
        <3>4. t[j] = Digit(x)
            BY <1>2, <1>3, <2>1, <3>3
        <3> QED BY <3>2, <3>3, <3>4, DigitIs
    <2>2. ASSUME NEW j \in 1..(4 * e), ~(j <= l) PROVE t[j] \notin Digits /\ t[j] = Equals
        BY <1>2, <1>3, <2>2, NotDigit
    <2> QED BY <2>1, <2>2
<1>6. PICK T : t \in Seq(T)
    <2>1. Listed(t)
        BY <1>2, <1>4, ListedFunction
    <2> QED BY <2>1, ListedSeq
<1>7. Len(t) = 4 * e
    BY <1>2, <1>4, ListedFunction
<1>8. PICK d : d = Kept(t, Digits)
    OBVIOUS
<1>9. d = Upto(t, l) /\ Len(d) = l
    BY <1>4, <1>5, <1>6, <1>7, <1>8, KeptFront
<1>10. PICK missing : missing = Cardinality({i \in DOMAIN t : t[i] = Equals})
    OBVIOUS
<1>11. missing = m
    <2>1. DOMAIN t = 1..(4 * e)
        BY <1>2 DEF Upto
    <2>2. {i \in DOMAIN t : t[i] = Equals} = (l + 1)..(4 * e)
        <3>1. ASSUME NEW i \in 1..(4 * e), i <= l PROVE t[i] # Equals
            BY <1>5, <3>1, NotDigit
        <3>2. ASSUME NEW i \in 1..(4 * e), ~(i <= l) PROVE t[i] = Equals
            BY <1>2, <1>3, <3>2
        <3>3. \A i : i \in (l + 1)..(4 * e) <=> i \in 1..(4 * e) /\ ~(i <= l)
            BY <1>4
        <3> QED BY <2>1, <3>1, <3>2, <3>3
    <2>3. Cardinality((l + 1)..(4 * e)) = IF l + 1 > 4 * e THEN 0 ELSE 4 * e - (l + 1) + 1
        <3>1. l + 1 \in Int /\ 4 * e \in Int
            BY <1>4
        <3> QED BY <3>1, FS_Interval
    <2>4. (IF l + 1 > 4 * e THEN 0 ELSE 4 * e - (l + 1) + 1) = m
        BY <1>2, <1>4
    <2> QED BY <1>10, <2>2, <2>3, <2>4
<1> DEFINE v(i) == IF i <= Len(d) THEN Value[d[i]] ELSE 0
           Octet(g, k) == CASE k = 0 -> v(4 * g + 1) * 4 + (v(4 * g + 2) \div 16)
                            [] k = 1 -> (v(4 * g + 2) % 16) * 16 + (v(4 * g + 3) \div 4)
                            [] k = 2 -> (v(4 * g + 3) % 4) * 64 + v(4 * g + 4)
           size == ((Len(d) + missing) \div 4) * 3 - missing
<1>12. B64d(t) = IF (Len(d) + missing) % 4 # 0 \/ missing > 2 \/ size < 0 THEN <<>>
                 ELSE [j \in 1..size |-> Octet((j - 1) \div 3, (j - 1) % 3)]
    BY <1>8, <1>10 DEF B64d
<1>13. (Len(d) + missing) % 4 = 0 /\ (Len(d) + missing) \div 4 = e
    <2>1. Len(d) + missing = 4 * e
        BY <1>4, <1>9, <1>11
    <2> QED BY <1>2, <2>1
<1>14. size = n
    <2>1. e * 3 - m = n
        BY <1>2
    <2> QED BY <1>11, <1>13, <2>1
<1>15. ASSUME NEW g \in Nat, NEW k \in 0..3, 4 * g + k + 1 <= l
       PROVE  v(4 * g + k + 1) = SextetOf(s, g, k)
    <2>1. PICK j : j = 4 * g + k + 1
        OBVIOUS
    <2>2. j \in 1..l /\ j \in 1..(4 * e) /\ j - 1 = 4 * g + k /\ j <= l
        BY <1>4, <1>15, <2>1
    <2>3. (j - 1) \div 4 = g /\ (j - 1) % 4 = k
        BY <2>2
    <2>4. t[j] = Digit(SextetOf(s, g, k))
        BY <1>2, <1>3, <2>2, <2>3
    <2>5. d[j] = t[j]
        BY <1>9, <2>2 DEF Upto
    <2>6. Value[d[j]] = SextetOf(s, g, k)
        <3>1. PICK x : x = SextetOf(s, g, k)
            OBVIOUS
        <3>2. x \in 0..63
            BY <3>1, SextetIs
        <3>3. d[j] = Digit(x)
            BY <2>4, <2>5, <3>1
        <3> QED BY <3>1, <3>2, <3>3, DigitIs
    <2> QED BY <1>9, <2>1, <2>2, <2>6
<1> HIDE DEF v
<1>16. ASSUME NEW j \in 1..n PROVE Octet((j - 1) \div 3, (j - 1) % 3) = s[j]
    <2>1. PICK g, k : g = (j - 1) \div 3 /\ k = (j - 1) % 3
        OBVIOUS
    <2>2. g \in Nat /\ k \in 0..2 /\ j = 3 * g + k + 1
        <3>1. j - 1 \in Nat
            BY <1>2
        <3>2. g \in Nat /\ k \in 0..2 /\ j - 1 = 3 * g + k
            BY <2>1, <3>1, Thirds
        <3> QED BY <1>2, <3>2
    <2>3. 4 * g + k + 2 <= l
        BY <1>2, <1>4, <2>2
    <2>4. PICK a, b, c : a = ByteAt(s, 3 * g + 1) /\ b = ByteAt(s, 3 * g + 2) /\ c = ByteAt(s, 3 * g + 3)
        OBVIOUS
    <2>5. a \in 0..255 /\ b \in 0..255 /\ c \in 0..255
        <3>1. 3 * g + 1 \in Nat \ {0} /\ 3 * g + 2 \in Nat \ {0} /\ 3 * g + 3 \in Nat \ {0}
            BY <2>2
        <3> QED BY <2>4, <3>1, ByteIs
    <2>6. s[j] = ByteAt(s, 3 * g + k + 1)
        BY <1>1, <1>2, <2>2 DEF ByteAt
    <2>7. /\ SextetOf(s, g, 0) = a \div 4 /\ SextetOf(s, g, 1) = (a % 4) * 16 + (b \div 16)
          /\ SextetOf(s, g, 2) = (b % 16) * 4 + (c \div 64) /\ SextetOf(s, g, 3) = c % 64
        BY <2>4 DEF SextetOf
    <2>8. CASE k = 0
        <3>1. v(4 * g + 1) = SextetOf(s, g, 0) /\ v(4 * g + 2) = SextetOf(s, g, 1)
            <4>1. 4 * g + 0 + 1 <= l /\ 4 * g + 1 + 1 <= l /\ 4 * g + 0 + 1 = 4 * g + 1 /\ 4 * g + 1 + 1 = 4 * g + 2
                BY <1>4, <2>2, <2>3, <2>8
            <4> QED BY <1>15, <2>2, <4>1
        <3>2. (a \div 4) * 4 + (((a % 4) * 16 + (b \div 16)) \div 16) = a
            BY <2>5
        <3>3. s[j] = a
            BY <2>2, <2>4, <2>6, <2>8
        <3> QED BY <2>1, <2>7, <2>8, <3>1, <3>2, <3>3
    <2>9. CASE k = 1
        <3>1. v(4 * g + 2) = SextetOf(s, g, 1) /\ v(4 * g + 3) = SextetOf(s, g, 2)
            <4>1. 4 * g + 1 + 1 <= l /\ 4 * g + 2 + 1 <= l /\ 4 * g + 1 + 1 = 4 * g + 2 /\ 4 * g + 2 + 1 = 4 * g + 3
                BY <1>4, <2>2, <2>3, <2>9
            <4> QED BY <1>15, <2>2, <4>1
        <3>2. (((a % 4) * 16 + (b \div 16)) % 16) * 16 + (((b % 16) * 4 + (c \div 64)) \div 4) = b
            BY <2>5
        <3>3. s[j] = b
            BY <2>2, <2>4, <2>6, <2>9
        <3> QED BY <2>1, <2>7, <2>9, <3>1, <3>2, <3>3
    <2>10. CASE k = 2
        <3>1. v(4 * g + 3) = SextetOf(s, g, 2) /\ v(4 * g + 4) = SextetOf(s, g, 3)
            <4>1. 4 * g + 2 + 1 <= l /\ 4 * g + 3 + 1 <= l /\ 4 * g + 2 + 1 = 4 * g + 3 /\ 4 * g + 3 + 1 = 4 * g + 4
                BY <1>4, <2>2, <2>3, <2>10
            <4> QED BY <1>15, <2>2, <4>1
        <3>2. (((b % 16) * 4 + (c \div 64)) % 4) * 64 + (c % 64) = c
            BY <2>5
        <3>3. s[j] = c
            BY <2>2, <2>4, <2>6, <2>10
        <3> QED BY <2>1, <2>7, <2>10, <3>1, <3>2, <3>3
    <2>11. k = 0 \/ k = 1 \/ k = 2
        BY <2>2
    <2> QED BY <2>8, <2>9, <2>10, <2>11
<1> DEFINE r == [j \in 1..n |-> Octet((j - 1) \div 3, (j - 1) % 3)]
<1>17. B64d(t) = r
    <2>1. ~((Len(d) + missing) % 4 # 0 \/ missing > 2 \/ size < 0)
        <3>1. ~(missing > 2)
            BY <1>2, <1>11
        <3>2. ~(size < 0)
            BY <1>2, <1>14
        <3> QED BY <1>13, <3>1, <3>2
    <2>2. B64d(t) = [j \in 1..size |-> Octet((j - 1) \div 3, (j - 1) % 3)]
        BY <1>12, <2>1
    <2> QED BY <1>14, <2>2
<1>18. \A j \in 1..n : r[j] = s[j]
    BY <1>16
<1>19. r = Upto(r, n)
    BY DEF Upto
<1>20. s = Upto(s, n)
    BY <1>1, SeqListed DEF Listed
<1> HIDE DEF r
<1>21. r = s
    BY <1>18, <1>19, <1>20 DEF Upto
<1> QED BY <1>1, <1>17, <1>21

-----------------------------------------------------------------------------
(* The two layers around a text. *)

Ascii == (0..127) \ {62, 126}

\* Swapping one character for another keeps length and the rest.
LEMMA SwappedIs ==
    ASSUME NEW S, NEW s \in Seq(S), NEW c, NEW d \in S
    PROVE  /\ Swapped(s, c, d) \in Seq(S) /\ Len(Swapped(s, c, d)) = Len(s)
           /\ \A j \in 1..Len(s) : Swapped(s, c, d)[j] = IF s[j] = c THEN d ELSE s[j]
<1> DEFINE r == Swapped(s, c, d)
<1>1. Len(s) \in Nat /\ DOMAIN s = 1..Len(s) /\ \A j \in 1..Len(s) : s[j] \in S
    BY LenProperties
<1>2. r \in [1..Len(s) -> S] /\ \A j \in 1..Len(s) : r[j] = IF s[j] = c THEN d ELSE s[j]
    BY <1>1 DEF Swapped
<1>3. r \in [1..Len(s) -> S]
    BY <1>2
<1> HIDE DEF r
<1>4. r \in Seq(S) /\ Len(r) = Len(s)
    BY <1>1, <1>3, FunctionIsSeq
<1> QED BY <1>2, <1>4 DEF r

\* Nothing is lost when what was swapped is swapped back.
LEMMA SwappedBack ==
    ASSUME NEW S, NEW s \in Seq(S), NEW c \in S, NEW d, d \notin S
    PROVE  Swapped(Swapped(s, c, d), d, c) = s
<1> DEFINE r == Swapped(s, c, d)
           q == Swapped(r, d, c)
<1>1. s \in Seq(S \cup {d}) /\ Len(s) \in Nat /\ \A j \in 1..Len(s) : s[j] \in S
    <2>1. S \subseteq S \cup {d}
        OBVIOUS
    <2> QED BY <2>1, SeqMonotonic, LenProperties
<1>2. r \in Seq(S \cup {d}) /\ Len(r) = Len(s) /\ \A j \in 1..Len(s) : r[j] = IF s[j] = c THEN d ELSE s[j]
    BY <1>1, SwappedIs
<1> HIDE DEF r
<1>3. /\ q \in Seq(S \cup {d}) /\ Len(q) = Len(s)
      /\ \A j \in 1..Len(s) : q[j] = IF r[j] = d THEN c ELSE r[j]
    <2>1. c \in S \cup {d}
        OBVIOUS
    <2>2. /\ q \in Seq(S \cup {d}) /\ Len(q) = Len(r)
          /\ \A j \in 1..Len(r) : q[j] = IF r[j] = d THEN c ELSE r[j]
        BY <1>2, <2>1, SwappedIs
    <2> QED BY <1>2, <2>2
<1> HIDE DEF q
<1>4. \A j \in 1..Len(s) : q[j] = s[j]
    BY <1>1, <1>2, <1>3
<1>5. q = s
    BY <1>1, <1>3, <1>4, SeqEqual
<1> QED BY <1>5 DEF q, r

LEMMA Unused ==
    ASSUME NEW v \in 0..63
    PROVE  Digit(v) # 62
<1>1. Digit(v) \in (43..61) \cup (63..122)
    BY DEF Digit
<1> QED BY <1>1

\* What base64 writes is seven bits wide; the digit + it uses for none of the bytes
\* the inner layer consists of.
LEMMA EncodedAscii ==
    ASSUME NEW s \in Seq(0..255)
    PROVE  /\ B64e(s) \in Seq(Ascii \ {Bar})
           /\ s \in Seq(Ascii) => \A j \in 1..Len(B64e(s)) : B64e(s)[j] # 43
<1>1. PICK n, t, e, m : n = Len(s) /\ t = B64e(s) /\ e = Groups(n) /\ m = 3 * e - n
    OBVIOUS
<1>2. /\ n \in Nat /\ e \in Nat /\ m \in 0..2 /\ 4 * e - m \in Nat /\ n = 3 * e - m
      /\ t = Upto(t, 4 * e)
      /\ \A j \in 1..(4 * e) : IF j <= 4 * e - m
                               THEN t[j] = Digit(SextetOf(s, (j - 1) \div 4, (j - 1) % 4))
                               ELSE t[j] = Equals
    BY <1>1, EncodedParts
<1>3. 4 * e \in Nat
    BY <1>2
<1>4. ASSUME NEW v \in 0..63 PROVE Digit(v) \in Ascii \ {Bar} /\ (Digit(v) = 43 <=> v = 62)
    <2>1. PICK d : d = Digit(v)
        OBVIOUS
    <2>2. d \in 43..122 /\ (d = 43 <=> v = 62)
        BY <2>1, DigitIs
    <2>3. d # 62
        BY <2>1, Unused
    <2>4. d \in Ascii /\ d # Bar
        BY <2>2, <2>3 DEF Ascii, Bar
    <2> QED BY <2>1, <2>2, <2>4
<1>5. Equals \in Ascii \ {Bar} /\ Equals # 43
    BY DEF Equals, Ascii, Bar
<1>6. ASSUME NEW g \in Nat, NEW k \in 0..3, s \in Seq(Ascii) PROVE SextetOf(s, g, k) # 62
    <2>1. PICK a, b, c : a = ByteAt(s, 3 * g + 1) /\ b = ByteAt(s, 3 * g + 2) /\ c = ByteAt(s, 3 * g + 3)
        OBVIOUS
    <2>2. ASSUME NEW i \in Nat \ {0} PROVE ByteAt(s, i) \in Ascii
        <3>1. i <= Len(s) => i \in 1..Len(s)
            BY LenProperties
        <3>2. i <= Len(s) => s[i] \in Ascii
            BY <1>6, <3>1, ElementOfSeq
        <3> QED BY <3>2 DEF ByteAt, Ascii
    <2>3. 3 * g + 1 \in Nat \ {0} /\ 3 * g + 2 \in Nat \ {0} /\ 3 * g + 3 \in Nat \ {0}
        OBVIOUS
    <2>4. a \in Ascii /\ b \in Ascii /\ c \in Ascii
        BY <2>1, <2>2, <2>3
    <2>5. a \div 4 # 62 /\ (a % 4) * 16 + (b \div 16) # 62
        BY <2>4 DEF Ascii
    <2>6. (b % 16) * 4 + (c \div 64) # 62 /\ c % 64 # 62
        BY <2>4 DEF Ascii
    <2>7. k = 0 \/ k = 1 \/ k = 2 \/ k = 3
        OBVIOUS
    <2> QED BY <2>1, <2>5, <2>6, <2>7 DEF SextetOf
<1>7. ASSUME NEW j \in 1..(4 * e) PROVE t[j] \in Ascii \ {Bar} /\ (s \in Seq(Ascii) => t[j] # 43)
    <2>1. PICK g, k : g = (j - 1) \div 4 /\ k = (j - 1) % 4
        OBVIOUS
    <2>2. g \in Nat /\ k \in 0..3
        BY <1>3, <2>1, GroupPlace
    <2>3. PICK x : x = SextetOf(s, g, k)
        OBVIOUS
    <2>4. x \in 0..63 /\ (s \in Seq(Ascii) => x # 62)
        BY <1>6, <2>2, <2>3, SextetIs
    <2>5. t[j] = Digit(x) \/ t[j] = Equals
        BY <1>2, <2>1, <2>3
    <2>6. CASE t[j] = Equals
        BY <1>5, <2>6
    <2>7. CASE t[j] = Digit(x)
        <3>1. Digit(x) \in Ascii \ {Bar} /\ (Digit(x) = 43 <=> x = 62)
            BY <1>4, <2>4
        <3> QED BY <2>4, <2>7, <3>1
    <2> QED BY <2>5, <2>6, <2>7
<1>8. t \in [1..(4 * e) -> Ascii \ {Bar}]
    BY <1>2, <1>7 DEF Upto
<1>9. t \in Seq(Ascii \ {Bar}) /\ Len(t) = 4 * e
    BY <1>3, <1>8, FunctionIsSeq
<1> QED BY <1>1, <1>7, <1>9

\* One layer: the text in base64, with another mark at its end.
Layer(s) == Swapped(B64e(s), Equals, Bar)

\* One layer, with | for =, is taken off as it was put on; no + is in it.
LEMMA LayerRead ==
    ASSUME NEW s \in Seq(0..255)
    PROVE  /\ Layer(s) \in Seq(Ascii) /\ B64d(Swapped(Layer(s), Bar, Equals)) = s
           /\ s \in Seq(Ascii) => \A j \in 1..Len(Layer(s)) : Layer(s)[j] # 43
<1>1. PICK t : t = B64e(s)
    OBVIOUS
<1>2. t \in Seq(Ascii \ {Bar}) /\ (s \in Seq(Ascii) => \A j \in 1..Len(t) : t[j] # 43) /\ B64d(t) = s
    BY <1>1, EncodedAscii, Base64Read
<1>3. Equals \in Ascii \ {Bar} /\ Bar \notin Ascii \ {Bar} /\ Bar \in Ascii /\ Bar # 43
    BY DEF Equals, Bar, Ascii
<1>4. t \in Seq(Ascii)
    <2>1. Ascii \ {Bar} \subseteq Ascii
        OBVIOUS
    <2> QED BY <1>2, <2>1, SeqMonotonic
<1>5. /\ Swapped(t, Equals, Bar) \in Seq(Ascii) /\ Len(Swapped(t, Equals, Bar)) = Len(t)
      /\ \A j \in 1..Len(t) : Swapped(t, Equals, Bar)[j] = IF t[j] = Equals THEN Bar ELSE t[j]
    BY <1>3, <1>4, SwappedIs
<1>6. Swapped(Swapped(t, Equals, Bar), Bar, Equals) = t
    BY <1>2, <1>3, SwappedBack
<1>7. s \in Seq(Ascii) => \A j \in 1..Len(t) : Swapped(t, Equals, Bar)[j] # 43
    BY <1>2, <1>3, <1>5
<1> QED BY <1>1, <1>2, <1>5, <1>6, <1>7 DEF Layer

\* Junk is so many of one character.
LEMMA JunkIs ==
    ASSUME NEW S, NEW pad \in S, NEW n \in Nat
    PROVE  Junk(pad, n) \in Seq(S) /\ Len(Junk(pad, n)) = n /\ \A i \in 1..n : Junk(pad, n)[i] = pad
<1>1. Junk(pad, n) \in [1..n -> S] /\ \A i \in 1..n : Junk(pad, n)[i] = pad
    BY DEF Junk
<1> QED BY <1>1, FunctionIsSeq

LEMMA Sliced ==
    ASSUME NEW S, NEW s, NEW p \in Int, NEW q \in Int, \A i \in p..q : s[i] \in S
    PROVE  /\ SubSeq(s, p, q) \in Seq(S) /\ Len(SubSeq(s, p, q)) = IF p <= q THEN q - p + 1 ELSE 0
           /\ \A i \in 1..(q - p + 1) : SubSeq(s, p, q)[i] = s[p + i - 1]
BY SubSeqProperties

LEMMA Slice ==
    ASSUME NEW S, NEW s \in Seq(S), NEW b \in Seq(S), NEW x \in Nat, NEW y \in Nat, y = Len(b), x + y <= Len(s),
           \A i \in 1..y : s[x + i] = b[i]
    PROVE  SubSeq(s, x + 1, x + y) = b
<1>1. PICK p, q : p = x + 1 /\ q = x + y
    OBVIOUS
<1>2. p \in Int /\ q \in Int /\ q - p + 1 = y /\ (IF p <= q THEN q - p + 1 ELSE 0) = y
    BY <1>1
<1>3. \A i \in p..q : s[i] \in S
    <2>1. Len(s) \in Nat /\ \A i \in 1..Len(s) : s[i] \in S
        BY LenProperties
    <2>2. \A i \in p..q : i \in 1..Len(s)
        BY <1>1, <2>1
    <2> QED BY <2>1, <2>2
<1>4. PICK r : r = SubSeq(s, p, q)
    OBVIOUS
<1>5. r \in Seq(S) /\ Len(r) = y /\ \A i \in 1..y : r[i] = s[p + i - 1]
    <2>1. /\ r \in Seq(S) /\ Len(r) = IF p <= q THEN q - p + 1 ELSE 0
          /\ \A i \in 1..(q - p + 1) : r[i] = s[p + i - 1]
        BY <1>2, <1>3, <1>4, Sliced
    <2> QED BY <1>2, <2>1
<1>6. \A i \in 1..y : r[i] = b[i]
    <2> SUFFICES ASSUME NEW i \in 1..y PROVE r[i] = b[i]
        OBVIOUS
    <2>1. p + i - 1 = x + i
        BY <1>1
    <2> QED BY <1>5, <2>1
<1>7. r = b
    BY <1>5, <1>6, SeqEqual
<1> QED BY <1>1, <1>4, <1>7

\* What is between a sequence's ends.
Three(S, s, a, b, c) == a \in Seq(S) /\ b \in Seq(S) /\ c \in Seq(S) /\ s = a \o b \o c

LEMMA Between ==
    ASSUME NEW S, NEW a, NEW b, NEW c, NEW s, Three(S, s, a, b, c)
    PROVE  /\ s \in Seq(S) /\ Len(s) = Len(a) + Len(b) + Len(c)
           /\ SubSeq(s, Len(a) + 1, Len(a) + Len(b)) = b
           /\ \A i \in 1..Len(a) : s[i] = a[i]
           /\ \A i \in 1..Len(b) : s[Len(a) + i] = b[i]
           /\ \A i \in 1..Len(c) : s[Len(a) + Len(b) + i] = c[i]
<1>0. a \in Seq(S) /\ b \in Seq(S) /\ c \in Seq(S) /\ s = a \o b \o c
    BY DEF Three
<1>1. PICK x, y, z : x = Len(a) /\ y = Len(b) /\ z = Len(c)
    OBVIOUS
<1>2. x \in Nat /\ y \in Nat /\ z \in Nat
    BY <1>0, <1>1, LenProperties
<1>3. PICK t : t = a \o b
    OBVIOUS
<1>4. t \in Seq(S) /\ Len(t) = x + y /\ \A i \in 1..(x + y) : t[i] = IF i <= x THEN a[i] ELSE b[i - x]
    BY <1>0, <1>1, <1>3, ConcatProperties
<1>5. /\ s \in Seq(S) /\ Len(s) = (x + y) + z
      /\ \A i \in 1..((x + y) + z) : s[i] = IF i <= x + y THEN t[i] ELSE c[i - (x + y)]
    <2>1. s = t \o c
        BY <1>0, <1>3
    <2>2. /\ t \o c \in Seq(S) /\ Len(t \o c) = Len(t) + Len(c)
          /\ \A i \in 1..(Len(t) + Len(c)) : (t \o c)[i] = IF i <= Len(t) THEN t[i] ELSE c[i - Len(t)]
        BY <1>0, <1>4, ConcatProperties
    <2> QED BY <1>1, <1>4, <2>1, <2>2
<1>6. ASSUME NEW i \in 1..x PROVE s[i] = a[i]
    <2>1. i \in 1..(x + y) /\ i \in 1..((x + y) + z) /\ i <= x /\ i <= x + y
        BY <1>2
    <2> QED BY <1>4, <1>5, <2>1
<1>7. ASSUME NEW i \in 1..y PROVE s[x + i] = b[i]
    <2>1. x + i \in 1..(x + y) /\ x + i \in 1..((x + y) + z) /\ ~(x + i <= x) /\ x + i <= x + y /\ (x + i) - x = i
        BY <1>2
    <2>2. s[x + i] = t[x + i]
        BY <1>5, <2>1
    <2>3. t[x + i] = b[(x + i) - x]
        BY <1>4, <2>1
    <2> QED BY <2>1, <2>2, <2>3
<1>8. ASSUME NEW i \in 1..z PROVE s[x + y + i] = c[i]
    <2>1. x + y + i \in 1..((x + y) + z) /\ ~(x + y + i <= x + y) /\ (x + y + i) - (x + y) = i
        BY <1>2
    <2>2. s[x + y + i] = c[(x + y + i) - (x + y)]
        BY <1>5, <2>1
    <2> QED BY <2>1, <2>2
<1>9. SubSeq(s, x + 1, x + y) = b
    <2>1. x + y <= Len(s)
        BY <1>2, <1>5
    <2> QED BY <1>0, <1>1, <1>2, <1>5, <1>7, <2>1, Slice
<1> QED BY <1>1, <1>2, <1>5, <1>6, <1>7, <1>8, <1>9

\* A blob around an outer layer: how many bytes of junk follow, the layer, and the junk.
Carries(blob, o, outer) ==
    /\ blob \in Seq(0..255) /\ Len(blob) = 1 + Len(outer) + o /\ blob[1] = 48 + o
    /\ \A j \in 1..Len(outer) : blob[1 + j] = outer[j]

Inside(text, i, pad) == Junk(pad, i) \o Layer(text) \o <<48 + i>>

LEMMA AsciiByte == ASSUME NEW s \in Seq(Ascii) PROVE s \in Seq(0..255)
<1>1. Ascii \subseteq 0..255
    BY DEF Ascii
<1> QED BY <1>1, SeqMonotonic

\* Cutting the junk and the number off what is inside gives the inner layer.
LEMMA InsideIs ==
    ASSUME NEW text \in Seq(0..255), NEW i \in 0..9, NEW pad \in Ascii
    PROVE  LET x == Inside(text, i, pad)
           IN  /\ x \in Seq(Ascii) /\ x # <<>> /\ x[Len(x)] = 48 + i
               /\ SubSeq(x, i + 1, Len(x) - 1) = Layer(text)
<1>1. PICK a, b, c, x : a = Junk(pad, i) /\ b = Layer(text) /\ c = <<48 + i>> /\ x = a \o b \o c
    OBVIOUS
<1>2. a \in Seq(Ascii) /\ Len(a) = i
    <2>1. i \in Nat
        OBVIOUS
    <2> QED BY <1>1, <2>1, JunkIs
<1>3. b \in Seq(Ascii)
    BY <1>1, LayerRead
<1>4. c \in Seq(Ascii) /\ Len(c) = 1 /\ c[1] = 48 + i
    <2>1. 48 + i \in Ascii
        BY DEF Ascii
    <2> QED BY <1>1, <2>1
<1>5. /\ x \in Seq(Ascii) /\ Len(x) = Len(a) + Len(b) + Len(c)
      /\ SubSeq(x, Len(a) + 1, Len(a) + Len(b)) = b
      /\ \A k \in 1..Len(c) : x[Len(a) + Len(b) + k] = c[k]
    <2>1. Three(Ascii, x, a, b, c)
        BY <1>1, <1>2, <1>3, <1>4 DEF Three
    <2> QED BY <2>1, Between
<1>6. Len(b) \in Nat
    BY <1>3, LenProperties
<1>7. Len(x) = Len(a) + Len(b) + 1 /\ Len(a) + Len(b) = Len(x) - 1 /\ 1 \in 1..Len(c)
    BY <1>2, <1>4, <1>5, <1>6
<1>8. x[Len(x)] = 48 + i
    BY <1>4, <1>5, <1>7
<1>9. x # <<>>
    <2>1. Len(x) # 0
        BY <1>2, <1>6, <1>7
    <2> QED BY <1>5, <2>1, EmptySeq
<1>10. SubSeq(x, i + 1, Len(x) - 1) = b
    BY <1>2, <1>5, <1>7
<1> QED BY <1>1, <1>5, <1>8, <1>9, <1>10 DEF Inside

\* Whoever holds that in the middle of a blob decodes the text.
LEMMA CarriedRead ==
    ASSUME NEW text \in Seq(0..255), NEW i \in 0..9, NEW pad \in Ascii, NEW o \in Nat,
           NEW blob, Carries(blob, o, Layer(Inside(text, i, pad)))
    PROVE  decode_serinfo(blob) = text
<1>1. PICK x, outer : x = Inside(text, i, pad) /\ outer = Layer(x)
    OBVIOUS
<1>2. /\ x \in Seq(Ascii) /\ x # <<>> /\ x[Len(x)] = 48 + i
      /\ SubSeq(x, i + 1, Len(x) - 1) = Layer(text)
    BY <1>1, InsideIs
<1>3. outer \in Seq(Ascii) /\ B64d(Swapped(outer, Bar, Equals)) = x
    BY <1>1, <1>2, AsciiByte, LayerRead
<1>4. Carries(blob, o, outer)
    BY <1>1
<1>5. SubSeq(blob, 2, Len(blob) - o) = outer
    <2>1. outer \in Seq(0..255)
        BY <1>3, AsciiByte
    <2>2. PICK y : y = Len(outer)
        OBVIOUS
    <2>3. y \in Nat /\ Len(blob) = 1 + y + o /\ 1 + y <= Len(blob) /\ blob \in Seq(0..255)
        <3>1. y \in Nat
            BY <2>1, <2>2, LenProperties
        <3>2. Len(blob) = 1 + y + o /\ blob \in Seq(0..255)
            BY <1>4, <2>2 DEF Carries
        <3> QED BY <3>1, <3>2
    <2>4. \A j \in 1..y : blob[1 + j] = outer[j]
        BY <1>4, <2>2 DEF Carries
    <2>5. SubSeq(blob, 1 + 1, 1 + y) = outer
        BY <2>1, <2>2, <2>3, <2>4, Slice
    <2>6. Len(blob) - o = 1 + y /\ 1 + 1 = 2
        BY <2>3
    <2> QED BY <2>5, <2>6
<1>6. blob[1] - 48 = o
    BY <1>4 DEF Carries
<1>7. (x[Len(x)] - 48) + 1 = i + 1
    BY <1>2
<1>8. decode_serinfo(blob) = B64d(Swapped(Layer(text), Bar, Equals))
    <2>1. PICK z : z = B64d(Swapped(SubSeq(blob, 2, Len(blob) - (blob[1] - 48)), Bar, Equals))
        OBVIOUS
    <2>2. z = x
        BY <1>3, <1>5, <1>6, <2>1
    <2>3. decode_serinfo(blob) = IF z = <<>> THEN <<>>
                                 ELSE B64d(Swapped(SubSeq(z, z[Len(z)] - 48 + 1, Len(z) - 1), Bar, Equals))
        BY <2>1 DEF decode_serinfo
    <2>4. decode_serinfo(blob) = B64d(Swapped(SubSeq(x, i + 1, Len(x) - 1), Bar, Equals))
        BY <1>2, <1>7, <2>2, <2>3
    <2> QED BY <1>2, <2>4
<1>9. B64d(Swapped(Layer(text), Bar, Equals)) = text
    BY LayerRead
<1> QED BY <1>8, <1>9

\* A blob: how much junk follows, the outer layer, the junk.
IsBlob(blob, o, outer, pad) ==
    /\ outer \in Seq(Ascii) /\ \A j \in 1..Len(outer) : outer[j] # 43
    /\ blob \in Seq(Ascii) /\ Carries(blob, o, outer)
    /\ \A j \in 1..o : blob[1 + Len(outer) + j] = pad

LEMMA BlobIs ==
    ASSUME NEW text \in Seq(0..255), NEW o \in 0..9, NEW i \in 0..9, NEW pad \in Ascii
    PROVE  IsBlob(encode_serinfo(text, o, i, pad), o, Layer(Inside(text, i, pad)), pad)
<1>1. PICK x, outer, blob : /\ x = Inside(text, i, pad) /\ outer = Layer(x)
                            /\ blob = encode_serinfo(text, o, i, pad)
    OBVIOUS
<1>2. x \in Seq(Ascii)
    BY <1>1, InsideIs
<1>3. outer \in Seq(Ascii) /\ \A j \in 1..Len(outer) : outer[j] # 43
    BY <1>1, <1>2, AsciiByte, LayerRead
<1>4. PICK a, c : a = <<48 + o>> /\ c = Junk(pad, o)
    OBVIOUS
<1>5. blob = a \o outer \o c
    BY <1>1, <1>4 DEF encode_serinfo, Layer, Inside
<1>6. a \in Seq(Ascii) /\ Len(a) = 1 /\ a[1] = 48 + o
    <2>1. 48 + o \in Ascii
        BY DEF Ascii
    <2> QED BY <1>4, <2>1
<1>7. c \in Seq(Ascii) /\ Len(c) = o /\ \A j \in 1..o : c[j] = pad
    <2>1. o \in Nat
        OBVIOUS
    <2> QED BY <1>4, <2>1, JunkIs
<1>8. /\ blob \in Seq(Ascii) /\ Len(blob) = Len(a) + Len(outer) + Len(c)
      /\ \A j \in 1..Len(a) : blob[j] = a[j]
      /\ \A j \in 1..Len(outer) : blob[Len(a) + j] = outer[j]
      /\ \A j \in 1..Len(c) : blob[Len(a) + Len(outer) + j] = c[j]
    <2>1. Three(Ascii, blob, a, outer, c)
        BY <1>3, <1>5, <1>6, <1>7 DEF Three
    <2>2. blob \in Seq(Ascii) /\ Len(blob) = Len(a) + Len(outer) + Len(c)
        BY <2>1, Between
    <2>3. \A j \in 1..Len(a) : blob[j] = a[j]
        BY <2>1, Between
    <2>4. \A j \in 1..Len(outer) : blob[Len(a) + j] = outer[j]
        BY <2>1, Between
    <2>5. \A j \in 1..Len(c) : blob[Len(a) + Len(outer) + j] = c[j]
        BY <2>1, Between
    <2> QED BY <2>2, <2>3, <2>4, <2>5
<1>9. Carries(blob, o, outer)
    <2>1. 1 \in 1..Len(a)
        BY <1>6
    <2> QED BY <1>6, <1>7, <1>8, <2>1, AsciiByte DEF Carries
<1>10. \A j \in 1..o : blob[1 + Len(outer) + j] = pad
    BY <1>6, <1>7, <1>8
<1>11. IsBlob(blob, o, outer, pad)
    BY <1>3, <1>8, <1>9, <1>10 DEF IsBlob
<1> QED BY <1>1, <1>11

\* What was put into two layers comes out of them, also after a query has taken every
\* + for a space.
LEMMA BlobIsRead ==
    ASSUME NEW text \in Seq(0..255), NEW o \in 0..9, NEW i \in 0..9, NEW pad \in Ascii
    PROVE  /\ decode_serinfo(encode_serinfo(text, o, i, pad)) = text
           /\ decode_serinfo(Swapped(encode_serinfo(text, o, i, pad), 43, 32)) = text
<1>1. PICK outer, blob : outer = Layer(Inside(text, i, pad)) /\ blob = encode_serinfo(text, o, i, pad)
    OBVIOUS
<1>2. /\ outer \in Seq(Ascii) /\ \A j \in 1..Len(outer) : outer[j] # 43
      /\ blob \in Seq(Ascii) /\ Carries(blob, o, outer)
    <2>1. IsBlob(blob, o, outer, pad)
        BY <1>1, BlobIs
    <2> QED BY <2>1 DEF IsBlob
<1>3. Carries(Swapped(blob, 43, 32), o, outer)
    <2>1. PICK s : s = Swapped(blob, 43, 32)
        OBVIOUS
    <2>2. blob \in Seq(0..255) /\ 32 \in 0..255
        BY <1>2, AsciiByte
    <2>3. /\ s \in Seq(0..255) /\ Len(s) = Len(blob)
          /\ \A j \in 1..Len(blob) : s[j] = IF blob[j] = 43 THEN 32 ELSE blob[j]
        BY <2>1, <2>2, SwappedIs
    <2>4. Len(outer) \in Nat /\ Len(blob) = 1 + Len(outer) + o
        BY <1>2, LenProperties DEF Carries
    <2>5. s[1] = 48 + o
        <3>1. 1 \in 1..Len(blob) /\ 48 + o # 43
            BY <2>4
        <3>2. blob[1] = 48 + o
            BY <1>2 DEF Carries
        <3> QED BY <2>3, <3>1, <3>2
    <2>6. ASSUME NEW j \in 1..Len(outer) PROVE s[1 + j] = outer[j]
        <3>1. 1 + j \in 1..Len(blob)
            BY <2>4
        <3>2. blob[1 + j] = outer[j] /\ outer[j] # 43
            BY <1>2 DEF Carries
        <3> QED BY <2>3, <3>1, <3>2
    <2> QED BY <2>1, <2>3, <2>4, <2>5, <2>6 DEF Carries
<1>4. o \in Nat
    OBVIOUS
<1>5. Carries(blob, o, Layer(Inside(text, i, pad))) /\ Carries(Swapped(blob, 43, 32), o, Layer(Inside(text, i, pad)))
    BY <1>1, <1>2, <1>3
<1> QED BY <1>1, <1>4, <1>5, CarriedRead
-----------------------------------------------------------------------------
(* A blob as a query hands it on. *)

LEMMA NoCut ==
    ASSUME NEW S, NEW s \in Seq(S), \A j \in 1..Len(s) : s[j] \notin Cuts
    PROVE  SelectInSeq(s, LAMBDA c : c \in Cuts) = 0
<1>1. {j \in 1..Len(s) : s[j] \in Cuts} = {}
    OBVIOUS
<1> QED BY <1>1 DEF SelectInSeq

LEMMA FirstCut ==
    ASSUME NEW S, NEW s \in Seq(S), NEW q \in 1..Len(s), s[q] \in Cuts, \A j \in 1..(q - 1) : s[j] \notin Cuts
    PROVE  SelectInSeq(s, LAMBDA c : c \in Cuts) = q
<1>1. PICK I : I = {j \in 1..Len(s) : s[j] \in Cuts}
    OBVIOUS
<1>2. SelectInSeq(s, LAMBDA c : c \in Cuts) = IF I # {} THEN Min(I) ELSE 0
    BY <1>1 DEF SelectInSeq
<1>3. Len(s) \in Nat
    BY LenProperties
<1>4. I \in SUBSET (1..Len(s)) /\ q \in I
    BY <1>1
<1>5. Min(I) \in I /\ Min(I) <= q
    BY <1>3, <1>4, Least
<1>6. Min(I) \in 1..Len(s) /\ s[Min(I)] \in Cuts
    BY <1>1, <1>5
<1>7. Min(I) \notin 1..(q - 1)
    BY <1>6
<1>8. Min(I) = q
    BY <1>3, <1>5, <1>6, <1>7
<1> QED BY <1>2, <1>4, <1>8

\* A layer is digits and then marks, in groups of four; a query cuts it nowhere.
Parted(s, e, l) ==
    /\ e \in Nat /\ l \in 0..(4 * e) /\ Len(s) = 4 * e
    /\ \A j \in 1..(4 * e) : IF j <= l THEN s[j] \in Digits \ {Bar} ELSE s[j] = Bar

LEMMA LayerParts ==
    ASSUME NEW s \in Seq(0..255)
    PROVE  /\ \A j \in 1..Len(Layer(s)) : Layer(s)[j] \notin Cuts
           /\ \E e, l : Parted(Layer(s), e, l)
<1>1. PICK n, t, e, m : n = Len(s) /\ t = B64e(s) /\ e = Groups(n) /\ m = 3 * e - n
    OBVIOUS
<1>2. /\ n \in Nat /\ e \in Nat /\ m \in 0..2 /\ 4 * e - m \in Nat /\ n = 3 * e - m
      /\ t = Upto(t, 4 * e)
      /\ \A j \in 1..(4 * e) : IF j <= 4 * e - m
                               THEN t[j] = Digit(SextetOf(s, (j - 1) \div 4, (j - 1) % 4))
                               ELSE t[j] = Equals
    BY <1>1, EncodedParts
<1>3. PICK l : l = 4 * e - m
    OBVIOUS
<1>4. l \in 0..(4 * e) /\ 4 * e \in Nat
    BY <1>2, <1>3
<1>5. Len(t) = 4 * e /\ \E T : t \in Seq(T)
    <2>1. Listed(t) /\ Len(t) = 4 * e
        BY <1>2, <1>4, ListedFunction
    <2> QED BY <2>1, ListedSeq
<1>6. PICK r : r = Layer(s)
    OBVIOUS
<1>7. Len(r) = 4 * e /\ \A j \in 1..(4 * e) : r[j] = IF t[j] = Equals THEN Bar ELSE t[j]
    <2>1. PICK T : t \in Seq(T)
        BY <1>5
    <2>2. t \in Seq(T \cup {Bar}) /\ Bar \in T \cup {Bar}
        <3>1. T \subseteq T \cup {Bar}
            OBVIOUS
        <3> QED BY <2>1, <3>1, SeqMonotonic
    <2>3. Len(Swapped(t, Equals, Bar)) = Len(t)
        BY <2>2, SwappedIs
    <2>4. \A j \in 1..Len(t) : Swapped(t, Equals, Bar)[j] = IF t[j] = Equals THEN Bar ELSE t[j]
        BY <2>2, SwappedIs
    <2>5. r = Swapped(t, Equals, Bar)
        BY <1>1, <1>6 DEF Layer
    <2> QED BY <1>5, <2>3, <2>4, <2>5
<1>8. ASSUME NEW j \in 1..(4 * e), j <= l PROVE r[j] \in Digits \ {Bar} /\ r[j] \in 43..122
    <2>1. (j - 1) \div 4 \in Nat /\ (j - 1) % 4 \in 0..3
        BY <1>4, GroupPlace
    <2>2. PICK x : x = SextetOf(s, (j - 1) \div 4, (j - 1) % 4)
        OBVIOUS
    <2>3. x \in 0..63
        BY <2>1, <2>2, SextetIs
    <2>4. t[j] = Digit(x)
        BY <1>2, <1>3, <1>8, <2>2
    <2>5. PICK d : d = Digit(x)
        OBVIOUS
    <2>6. d \in Digits /\ d \in 43..122 /\ d # Equals
        BY <2>3, <2>5, DigitIs
    <2>7. r[j] = d
        BY <1>7, <2>4, <2>5, <2>6
    <2>8. d # Bar
        BY <2>6 DEF Bar
    <2> QED BY <2>6, <2>7, <2>8
<1>9. ASSUME NEW j \in 1..(4 * e), ~(j <= l) PROVE r[j] = Bar
    BY <1>2, <1>3, <1>7, <1>9
<1>10. ASSUME NEW j \in 1..(4 * e) PROVE r[j] \notin Cuts
    <2>1. PICK d : d = r[j]
        OBVIOUS
    <2>2. d \in (43..122) \cup {124}
        BY <1>8, <1>9, <2>1 DEF Bar
    <2>3. \A x \in (43..122) \cup {124} : x # 35 /\ x # 38
        OBVIOUS
    <2>4. d # 35 /\ d # 38
        BY <2>2, <2>3
    <2> QED BY <2>1, <2>4 DEF Cuts
<1>11. Parted(r, e, l)
    BY <1>2, <1>4, <1>7, <1>8, <1>9 DEF Parted
<1> QED BY <1>6, <1>7, <1>10, <1>11

\* With junk that does not end it, the text arrives.
LEMMA QueriedRead ==
    ASSUME NEW text \in Seq(0..255), NEW o \in 0..9, NEW i \in 0..9, NEW pad \in Ascii, pad \notin Cuts
    PROVE  decode_serinfo(Queried(encode_serinfo(text, o, i, pad))) = text
<1>1. PICK outer, blob : outer = Layer(Inside(text, i, pad)) /\ blob = encode_serinfo(text, o, i, pad)
    OBVIOUS
<1>2. /\ outer \in Seq(Ascii) /\ blob \in Seq(Ascii) /\ Carries(blob, o, outer)
      /\ \A j \in 1..o : blob[1 + Len(outer) + j] = pad
    <2>1. IsBlob(blob, o, outer, pad)
        BY <1>1, BlobIs
    <2> QED BY <2>1 DEF IsBlob
<1>3. Len(outer) \in Nat /\ Len(blob) = 1 + Len(outer) + o
    BY <1>2, LenProperties DEF Carries
<1>4. \A j \in 1..Len(outer) : outer[j] \notin Cuts
    BY <1>1, InsideIs, AsciiByte, LayerParts
<1>5. ASSUME NEW j \in 1..Len(blob) PROVE blob[j] \notin Cuts
    <2>1. CASE j = 1
        <3>1. blob[1] = 48 + o
            BY <1>2 DEF Carries
        <3> QED BY <2>1, <3>1 DEF Cuts
    <2>2. CASE j > 1 /\ j <= 1 + Len(outer)
        <3>1. j - 1 \in 1..Len(outer) /\ 1 + (j - 1) = j
            BY <1>3, <2>2
        <3>2. blob[1 + (j - 1)] = outer[j - 1]
            BY <1>2, <3>1 DEF Carries
        <3> QED BY <1>4, <3>1, <3>2
    <2>3. CASE j > 1 + Len(outer)
        <3>1. PICK k : k = j - 1 - Len(outer)
            OBVIOUS
        <3>2. k \in 1..o /\ 1 + Len(outer) + k = j
            BY <1>3, <2>3, <3>1
        <3>3. blob[1 + Len(outer) + k] = pad
            BY <1>2, <3>2
        <3> QED BY <3>2, <3>3
    <2> QED BY <1>3, <2>1, <2>2, <2>3
<1>6. PICK cut : cut = SelectInSeq(blob, LAMBDA c : c \in Cuts)
    OBVIOUS
<1>7. cut = 0
    BY <1>2, <1>5, <1>6, NoCut
<1>8. Queried(blob) = Swapped(blob, 43, 32)
    BY <1>6, <1>7 DEF Queried
<1> QED BY <1>1, <1>8, BlobIsRead

\* Digits and marks that are not a number of groups are not base64.
LEMMA BrokenOff ==
    ASSUME NEW T, NEW t \in Seq(T), NEW n, n = Len(t), n = 0 \/ n % 4 # 0, NEW l \in 0..n,
           \A j \in 1..n : IF j <= l THEN t[j] \in Digits ELSE t[j] = Equals
    PROVE  B64d(t) = <<>>
<1>1. n \in Nat /\ DOMAIN t = 1..n
    BY LenProperties
<1>2. PICK d : d = Kept(t, Digits)
    OBVIOUS
<1>3. Len(d) = l
    <2>1. \A j \in 1..n : t[j] \in Digits <=> j <= l
        BY NotDigit
    <2> QED BY <1>1, <1>2, <2>1, KeptFront
<1>4. PICK missing : missing = Cardinality({j \in DOMAIN t : t[j] = Equals})
    OBVIOUS
<1>5. missing = n - l
    <2>1. {j \in DOMAIN t : t[j] = Equals} = (l + 1)..n
        <3>1. ASSUME NEW j \in 1..n, j <= l PROVE t[j] # Equals
            BY <3>1, NotDigit
        <3>2. ASSUME NEW j \in 1..n, ~(j <= l) PROVE t[j] = Equals
            BY <3>2
        <3>3. \A j : j \in (l + 1)..n <=> j \in 1..n /\ ~(j <= l)
            BY <1>1
        <3> QED BY <1>1, <3>1, <3>2, <3>3
    <2>2. Cardinality((l + 1)..n) = IF l + 1 > n THEN 0 ELSE n - (l + 1) + 1
        <3>1. l + 1 \in Int /\ n \in Int
            BY <1>1
        <3> QED BY <3>1, FS_Interval
    <2>3. (IF l + 1 > n THEN 0 ELSE n - (l + 1) + 1) = n - l
        BY <1>1
    <2> QED BY <1>4, <2>1, <2>2, <2>3
<1>6. Len(d) + missing = n
    BY <1>1, <1>3, <1>5
<1> DEFINE v(i) == IF i <= Len(d) THEN Value[d[i]] ELSE 0
           Octet(g, k) == CASE k = 0 -> v(4 * g + 1) * 4 + (v(4 * g + 2) \div 16)
                            [] k = 1 -> (v(4 * g + 2) % 16) * 16 + (v(4 * g + 3) \div 4)
                            [] k = 2 -> (v(4 * g + 3) % 4) * 64 + v(4 * g + 4)
           size == ((Len(d) + missing) \div 4) * 3 - missing
           r == [j \in 1..size |-> Octet((j - 1) \div 3, (j - 1) % 3)]
<1>7. B64d(t) = IF (Len(d) + missing) % 4 # 0 \/ missing > 2 \/ size < 0 THEN <<>> ELSE r
    BY <1>2, <1>4 DEF B64d
<1>8. CASE n % 4 # 0
    BY <1>6, <1>7, <1>8
<1>9. CASE n = 0
    <2>1. l = 0 /\ missing = 0
        <3>1. l \in 0..0 /\ missing = 0 - l
            BY <1>5, <1>9
        <3>2. l = 0
            BY <3>1
        <3> QED BY <3>1, <3>2
    <2>2. size = 0
        <3>1. (0 \div 4) * 3 - 0 = 0
            OBVIOUS
        <3> QED BY <1>6, <1>9, <2>1, <3>1
    <2>3. \A j : j \notin 1..size
        BY <2>2
    <2> HIDE DEF size, Octet
    <2>4. r = <<>>
        BY <2>3
    <2> QED BY <1>7, <2>4
<1> QED BY <1>8, <1>9

\* The front of an outer layer that lost some of its last group, or is gone, decodes to nothing.
LEMMA FrontBroken ==
    ASSUME NEW S, NEW s, NEW e, NEW l, Parted(s, e, l), NEW front \in Seq(S), NEW n, n = Len(front),
           n <= 4 * e, n = 0 \/ n % 4 # 0, \A j \in 1..n : front[j] = s[j]
    PROVE  B64d(Swapped(front, Bar, Equals)) = <<>>
<1>1. PICK t, T : t = Swapped(front, Bar, Equals) /\ T = S \cup {Equals}
    OBVIOUS
<1>2. t \in Seq(T) /\ Len(t) = n /\ \A j \in 1..n : t[j] = IF front[j] = Bar THEN Equals ELSE front[j]
    <2>1. front \in Seq(T) /\ Equals \in T
        <3>1. S \subseteq T
            BY <1>1
        <3> QED BY <1>1, <3>1, SeqMonotonic
    <2>2. Swapped(front, Bar, Equals) \in Seq(T) /\ Len(Swapped(front, Bar, Equals)) = Len(front)
        BY <2>1, SwappedIs
    <2>3. \A j \in 1..Len(front) : Swapped(front, Bar, Equals)[j] = IF front[j] = Bar THEN Equals ELSE front[j]
        BY <2>1, SwappedIs
    <2> QED BY <1>1, <2>2, <2>3
<1>3. n \in Nat /\ l \in 0..(4 * e) /\ e \in Nat
    BY LenProperties DEF Parted
<1>4. PICK m \in 0..n : m = IF l <= n THEN l ELSE n
    BY <1>3
<1>5. ASSUME NEW j \in 1..n PROVE IF j <= m THEN t[j] \in Digits ELSE t[j] = Equals
    <2>1. j \in 1..(4 * e) /\ (j <= m <=> j <= l)
        BY <1>4, <1>3
    <2>2. t[j] = IF s[j] = Bar THEN Equals ELSE s[j]
        BY <1>2
    <2>3. IF j <= l THEN s[j] \in Digits \ {Bar} ELSE s[j] = Bar
        BY <2>1 DEF Parted
    <2> QED BY <2>1, <2>2, <2>3
<1>6. B64d(t) = <<>>
    BY <1>2, <1>5, BrokenOff
<1> QED BY <1>1, <1>6

\* Junk that ends it takes the last bytes of the outer layer for more junk: nothing arrives.
LEMMA QueriedCut ==
    ASSUME NEW text \in Seq(0..255), NEW o \in {1, 2, 9}, NEW i \in 0..9, NEW pad \in Ascii, pad \in Cuts
    PROVE  decode_serinfo(Queried(encode_serinfo(text, o, i, pad))) = <<>>
<1>1. PICK outer, blob : outer = Layer(Inside(text, i, pad)) /\ blob = encode_serinfo(text, o, i, pad)
    OBVIOUS
<1>2. /\ outer \in Seq(Ascii) /\ \A j \in 1..Len(outer) : outer[j] # 43
      /\ blob \in Seq(Ascii) /\ Carries(blob, o, outer)
      /\ \A j \in 1..o : blob[1 + Len(outer) + j] = pad
    <2>1. o \in 0..9
        OBVIOUS
    <2>2. IsBlob(blob, o, outer, pad)
        BY <1>1, <2>1, BlobIs
    <2> QED BY <2>2 DEF IsBlob
<1>3. /\ \A j \in 1..Len(outer) : outer[j] \notin Cuts
      /\ \E e, l : Parted(outer, e, l)
    BY <1>1, InsideIs, AsciiByte, LayerParts
<1>4. PICK e \in Nat, l \in Nat : Parted(outer, e, l)
    <2>1. PICK e, l : Parted(outer, e, l)
        BY <1>3
    <2>2. e \in Nat /\ l \in 0..(4 * e)
        BY <2>1 DEF Parted
    <2>3. l \in Nat
        BY <2>2
    <2> QED BY <2>1, <2>2, <2>3
<1>5. Len(outer) = 4 * e
    BY <1>4 DEF Parted
<1>6. o \in Nat /\ o \in 1..9
    OBVIOUS
<1>7. /\ Len(blob) = 1 + 4 * e + o /\ blob[1] = 48 + o
      /\ \A j \in 1..(4 * e) : blob[1 + j] = outer[j]
    BY <1>2, <1>5 DEF Carries
<1>8. PICK cut : cut = SelectInSeq(blob, LAMBDA c : c \in Cuts)
    OBVIOUS
<1>9. cut = 2 + 4 * e
    <2>1. PICK q : q = 2 + 4 * e
        OBVIOUS
    <2>2. q \in 1..Len(blob) /\ 1 \in 1..o /\ 1 + 4 * e + 1 = q
        BY <1>6, <1>7, <2>1
    <2>3. blob[q] \in Cuts
        BY <1>2, <1>5, <2>2
    <2>4. ASSUME NEW j \in 1..(q - 1) PROVE blob[j] \notin Cuts
        <3>1. CASE j = 1
            BY <1>7, <3>1 DEF Cuts
        <3>2. CASE j # 1
            <4>1. j - 1 \in 1..(4 * e) /\ 1 + (j - 1) = j
                BY <2>1, <3>2
            <4>2. blob[1 + (j - 1)] = outer[j - 1]
                BY <1>7, <4>1
            <4> QED BY <1>3, <1>5, <4>1, <4>2
        <3> QED BY <3>1, <3>2
    <2>5. SelectInSeq(blob, LAMBDA c : c \in Cuts) = q
        BY <1>2, <2>2, <2>3, <2>4, FirstCut
    <2> QED BY <1>8, <2>1, <2>5
<1>10. PICK short : short = SubSeq(blob, 1, cut - 1)
    OBVIOUS
<1>11. short \in Seq(Ascii) /\ Len(short) = 1 + 4 * e /\ \A j \in 1..(1 + 4 * e) : short[j] = blob[j]
    <2>1. PICK q : q = cut - 1
        OBVIOUS
    <2>2. q = 1 + 4 * e /\ q \in Int /\ 1 \in Int /\ 1 <= q /\ q - 1 + 1 = q
        BY <1>9, <2>1
    <2>3. \A j \in 1..q : blob[j] \in Ascii
        <3>1. \A j \in 1..q : j \in 1..Len(blob)
            BY <1>7, <2>2
        <3> QED BY <1>2, <3>1, ElementOfSeq
    <2>4. /\ short \in Seq(Ascii) /\ Len(short) = IF 1 <= q THEN q - 1 + 1 ELSE 0
          /\ \A j \in 1..(q - 1 + 1) : short[j] = blob[1 + j - 1]
        BY <1>10, <2>1, <2>2, <2>3, Sliced
    <2>5. \A j \in 1..q : 1 + j - 1 = j
        BY <2>2
    <2> QED BY <2>2, <2>4, <2>5
<1>12. PICK s : s = Swapped(short, 43, 32)
    OBVIOUS
<1>13. s \in Seq(Ascii) /\ Len(s) = 1 + 4 * e /\ s[1] = 48 + o /\ \A j \in 1..(4 * e) : s[1 + j] = outer[j]
    <2>1. 32 \in Ascii
        BY DEF Ascii
    <2>2. s \in Seq(Ascii) /\ Len(s) = Len(short)
        BY <1>11, <1>12, <2>1, SwappedIs
    <2>3. \A j \in 1..Len(short) : s[j] = IF short[j] = 43 THEN 32 ELSE short[j]
        BY <1>11, <1>12, <2>1, SwappedIs
    <2>4. s[1] = 48 + o
        <3>1. 1 \in 1..(1 + 4 * e) /\ 48 + o # 43
            OBVIOUS
        <3>2. short[1] = 48 + o
            BY <1>7, <1>11, <3>1
        <3> QED BY <1>11, <2>3, <3>1, <3>2
    <2>5. ASSUME NEW j \in 1..(4 * e) PROVE s[1 + j] = outer[j]
        <3>1. 1 + j \in 1..(1 + 4 * e)
            OBVIOUS
        <3>2. short[1 + j] = outer[j] /\ outer[j] # 43
            BY <1>2, <1>5, <1>7, <1>11, <3>1
        <3> QED BY <1>11, <2>3, <3>1, <3>2
    <2> QED BY <1>11, <2>2, <2>4, <2>5
<1>14. Queried(blob) = s
    <2>1. cut # 0
        BY <1>9
    <2> QED BY <1>8, <1>10, <1>12, <2>1 DEF Queried
<1>15. PICK front, q : front = SubSeq(s, 2, q) /\ q = Len(s) - (s[1] - 48)
    OBVIOUS
<1>16. q = 1 + 4 * e - o
    BY <1>6, <1>13, <1>15
<1>17. PICK n : n = IF 2 <= q THEN q - 1 ELSE 0
    OBVIOUS
<1>18. n \in Nat /\ n <= 4 * e /\ (n = 0 \/ n = 4 * e - o)
    BY <1>6, <1>16, <1>17
<1>19. n = 0 \/ n % 4 # 0
    <2>1. CASE n = 4 * e - o
        <3>1. CASE o = 1
            BY <1>18, <2>1, <3>1
        <3>2. CASE o = 2
            BY <1>18, <2>1, <3>2
        <3>3. CASE o = 9
            BY <1>18, <2>1, <3>3
        <3> QED BY <3>1, <3>2, <3>3
    <2> QED BY <1>18, <2>1
<1>20. front \in Seq(Ascii) /\ Len(front) = n /\ \A j \in 1..n : front[j] = outer[j]
    <2>1. q \in Int /\ 2 \in Int
        BY <1>6, <1>16
    <2>2. \A j \in 2..q : s[j] \in Ascii
        <3>1. \A j \in 2..q : j \in 1..Len(s)
            BY <1>6, <1>13, <1>16
        <3> QED BY <1>13, <3>1, ElementOfSeq
    <2>3. /\ front \in Seq(Ascii) /\ Len(front) = IF 2 <= q THEN q - 2 + 1 ELSE 0
          /\ \A j \in 1..(q - 2 + 1) : front[j] = s[2 + j - 1]
        BY <1>15, <2>1, <2>2, Sliced
    <2>4. Len(front) = n
        BY <1>6, <1>16, <1>17, <2>3
    <2>5. ASSUME NEW j \in 1..n PROVE front[j] = outer[j]
        <3>1. j \in 1..(q - 2 + 1) /\ j \in 1..(4 * e) /\ 2 + j - 1 = 1 + j
            BY <1>6, <1>16, <1>17, <1>18
        <3> QED BY <1>13, <2>3, <3>1
    <2> QED BY <2>3, <2>4, <2>5
<1>21. PICK z : z = B64d(Swapped(SubSeq(s, 2, Len(s) - (s[1] - 48)), Bar, Equals))
    OBVIOUS
<1>22. z = <<>>
    <2>1. z = B64d(Swapped(front, Bar, Equals))
        BY <1>15, <1>21
    <2> QED BY <1>4, <1>18, <1>19, <1>20, <2>1, FrontBroken
<1>23. decode_serinfo(s) = IF z = <<>> THEN <<>>
                           ELSE B64d(Swapped(SubSeq(z, z[Len(z)] - 48 + 1, Len(z) - 1), Bar, Equals))
    BY <1>21 DEF decode_serinfo
<1> QED BY <1>1, <1>14, <1>22, <1>23

(* A document of two strings, and the two strings in it. *)

\* The two strings of a document are those around its first comma.
LEMMA JsonIs ==
    ASSUME NEW a \in Seq(0..255), NEW b \in Seq(0..255), 44 \notin Range(a)
    PROVE  LET text == Json(a, b)
               comma == SelectInSeq(text, LAMBDA c : c = 44)
           IN  /\ text \in Seq(0..255) /\ text # <<>>
               /\ SubSeq(text, 2, comma - 1) = a
               /\ SubSeq(text, comma + 1, Len(text) - 1) = b
<1>1. PICK text, x, y : text = Json(a, b) /\ x = Len(a) /\ y = Len(b)
    OBVIOUS
<1>2. x \in Nat /\ y \in Nat
    BY <1>1, LenProperties
<1>3. PICK p, q, r : p = <<123>> /\ q = <<44>> /\ r = <<125>>
    OBVIOUS
<1>4. p \in Seq(0..255) /\ q \in Seq(0..255) /\ r \in Seq(0..255) /\ Len(p) = 1 /\ Len(q) = 1 /\ Len(r) = 1
    BY <1>3
<1>5. p[1] = 123 /\ q[1] = 44
    BY <1>3
<1>6. PICK h : h = p \o a \o q
    OBVIOUS
<1>7. /\ h \in Seq(0..255) /\ Len(h) = 1 + x + 1
      /\ \A j \in 1..x : h[1 + j] = a[j]
      /\ h[1] = 123 /\ h[1 + x + 1] = 44
    <2>1. /\ h \in Seq(0..255) /\ Len(h) = Len(p) + Len(a) + Len(q)
          /\ \A j \in 1..Len(p) : h[j] = p[j]
          /\ \A j \in 1..Len(a) : h[Len(p) + j] = a[j]
          /\ \A j \in 1..Len(q) : h[Len(p) + Len(a) + j] = q[j]
        <3>1. Three(0..255, h, p, a, q)
            BY <1>4, <1>6 DEF Three
        <3>2. h \in Seq(0..255) /\ Len(h) = Len(p) + Len(a) + Len(q)
            BY <3>1, Between
        <3>3. (\A j \in 1..Len(p) : h[j] = p[j]) /\ \A j \in 1..Len(a) : h[Len(p) + j] = a[j]
            BY <3>1, Between
        <3>4. \A j \in 1..Len(q) : h[Len(p) + Len(a) + j] = q[j]
            BY <3>1, Between
        <3> QED BY <3>2, <3>3, <3>4
    <2>2. 1 \in 1..Len(p) /\ 1 \in 1..Len(q)
        BY <1>4
    <2> QED BY <1>1, <1>4, <1>5, <2>1, <2>2
<1>8. text = h \o b \o r
    BY <1>1, <1>3, <1>6 DEF Json
<1>9. /\ text \in Seq(0..255) /\ Len(text) = (x + 2) + y + 1
      /\ \A j \in 1..(x + 2) : text[j] = h[j]
      /\ \A j \in 1..y : text[(x + 2) + j] = b[j]
    <2>1. /\ text \in Seq(0..255) /\ Len(text) = Len(h) + Len(b) + Len(r)
          /\ \A j \in 1..Len(h) : text[j] = h[j]
          /\ \A j \in 1..Len(b) : text[Len(h) + j] = b[j]
        <3>1. Three(0..255, text, h, b, r)
            BY <1>4, <1>7, <1>8 DEF Three
        <3>2. text \in Seq(0..255) /\ Len(text) = Len(h) + Len(b) + Len(r)
            BY <3>1, Between
        <3>3. \A j \in 1..Len(h) : text[j] = h[j]
            BY <3>1, Between
        <3>4. \A j \in 1..Len(b) : text[Len(h) + j] = b[j]
            BY <3>1, Between
        <3> QED BY <3>2, <3>3, <3>4
    <2>2. Len(h) = x + 2
        BY <1>2, <1>7
    <2> QED BY <1>1, <1>4, <2>1, <2>2
<1>10. PICK comma : comma = SelectInSeq(text, LAMBDA c : c = 44)
    OBVIOUS
<1>11. comma = x + 2
    <2>1. PICK I : I = {i \in 1..Len(text) : text[i] = 44}
        OBVIOUS
    <2>2. comma = IF I # {} THEN Min(I) ELSE 0
        BY <1>10, <2>1 DEF SelectInSeq
    <2>3. text[x + 2] = 44 /\ x + 2 \in 1..Len(text)
        <3>1. x + 2 \in 1..(x + 2) /\ 1 + x + 1 = x + 2 /\ x + 2 \in 1..Len(text)
            BY <1>2, <1>9
        <3> QED BY <1>7, <1>9, <3>1
    <2>4. ASSUME NEW i \in 1..Len(text), i < x + 2 PROVE text[i] # 44
        <3>1. CASE i = 1
            <4>1. 1 \in 1..(x + 2)
                BY <1>2
            <4> QED BY <1>7, <1>9, <3>1, <4>1
        <3>2. CASE i # 1
            <4>1. i - 1 \in 1..x /\ 1 + (i - 1) = i /\ i \in 1..(x + 2)
                BY <1>2, <2>4, <3>2
            <4>2. text[i] = a[i - 1]
                BY <1>7, <1>9, <4>1
            <4>3. a[i - 1] \in Range(a)
                BY <1>1, <4>1, LenProperties DEF Range
            <4> QED BY <4>2, <4>3
        <3> QED BY <3>1, <3>2
    <2>5. I \in SUBSET (1..Len(text)) /\ x + 2 \in I
        BY <2>1, <2>3
    <2>6. Len(text) \in Nat
        BY <1>9, LenProperties
    <2>7. Min(I) \in I /\ \A i \in I : Min(I) <= i
        BY <2>5, <2>6, Least
    <2>8. Min(I) \in 1..Len(text) /\ text[Min(I)] = 44 /\ Min(I) <= x + 2
        BY <2>1, <2>5, <2>7
    <2>9. ~(Min(I) < x + 2)
        BY <2>4, <2>8
    <2> QED BY <1>2, <2>2, <2>5, <2>8, <2>9
<1>12. SubSeq(text, 1 + 1, 1 + x) = a
    <2>1. 1 + x <= Len(text)
        BY <1>2, <1>9
    <2>2. ASSUME NEW j \in 1..x PROVE text[1 + j] = a[j]
        <3>1. 1 + j \in 1..(x + 2)
            BY <1>2
        <3> QED BY <1>7, <1>9, <3>1
    <2> QED BY <1>1, <1>2, <1>9, <2>1, <2>2, Slice
<1>13. SubSeq(text, (x + 2) + 1, (x + 2) + y) = b
    <2>1. (x + 2) + y <= Len(text) /\ x + 2 \in Nat
        BY <1>2, <1>9
    <2> QED BY <1>1, <1>2, <1>9, <2>1, Slice
<1>14. 1 + 1 = 2 /\ comma - 1 = 1 + x /\ comma + 1 = (x + 2) + 1 /\ Len(text) - 1 = (x + 2) + y
    BY <1>2, <1>9, <1>11
<1>15. text # <<>>
    <2>1. Len(text) # 0
        BY <1>2, <1>9
    <2> QED BY <1>9, <2>1, EmptySeq
<1> QED BY <1>1, <1>9, <1>10, <1>12, <1>13, <1>14, <1>15
-----------------------------------------------------------------------------
(* The invariant of what is answered. *)

\* Ids are given out from 1 on, each once, and none is too large for its field.
Game ==
    /\ AllProper(chars)
    /\ \A i \in DOMAIN chars : chars[i].pid \in 1..Len(chars)
    /\ \A i, j \in DOMAIN chars : chars[i].pid = chars[j].pid => i = j
    /\ changes \in 0..MaxChanges /\ Len(chars) + (MaxChanges - changes) < Power.u64

RowOf(s) == IF Me \in {c.pid : c \in Range(s)} THEN CHOOSE c \in Range(s) : c.pid = Me
            ELSE NewRow(Me, Mine, <<>>)

MeantIn(name, page, s) ==
    LET entries == Entries(name, s)
    IN  RankMessage(name, page, SelectInSeq(entries, LAMBDA c : c.pid = Me), RowOf(s),
                    PageOf(entries, page), MaxPage(entries))

MeantRank(name, page) == MeantIn(name, page, chars)

Blobbed == /\ reply.kind \in Blobs /\ reply.meant \in Seq(0..255)
           /\ reply.body = encode_serinfo(reply.meant, 1, 1, 90)

Written ==
    /\ reply.kind \notin Blobs \cup Bare
    /\ Fits(reply.layout, reply.meant)
    /\ reply.body = Write(reply.layout, reply.meant) /\ Len(reply.body) <= MaxBody
    /\ \A name \in DOMAIN Spelling, page \in Nat : reply.kind = <<"rank", name, page>>
           => reply.layout = RankLayout(name) /\ reply.meant = MeantRank(name, page)

Cut == reply.kind = <<"refused">> /\ reply.junk \in Cuts

Answer == reply = Nothing \/ reply = Waiting \/ Cut \/ Blobbed \/ Written

\* A request leaves the characters alone.
LEMMA GameKept ==
    ASSUME Game, chars' = chars, changes' = changes
    PROVE  Game'
BY DEF Game

\* So is a new character.
LEMMA NewRowProper ==
    ASSUME NEW pid \in Nat, NEW account \in Nat, NEW name, Text(name)
    PROVE  Proper(NewRow(pid, account, name)) /\ NewRow(pid, account, name).pid = pid
<1>1. PICK c : c = NewRow(pid, account, name)
    OBVIOUS
<1>2. /\ c.pid = pid /\ c.account = account /\ c.name = name /\ c.level = 1 /\ c.gear = {}
      /\ c.exterior = [sid \in Range(ATTIRE_TYPES) |-> [level |-> 1, bless |-> 0, quality |-> 0]]
    BY <1>1 DEF NewRow
<1>3. c \in Characters
    <2>1. name \in Seq(0..(Byte - 1))
        BY DEF Text
    <2>2. [sid \in Range(ATTIRE_TYPES) |-> [level |-> 1, bless |-> 0, quality |-> 0]]
            \in [Range(ATTIRE_TYPES) -> [level : Nat, bless : Nat, quality : Nat]]
        OBVIOUS
    <2> QED BY <1>1, <2>1, <2>2 DEF NewRow, Characters
<1>4. ASSUME NEW sid \in Range(ATTIRE_TYPES) PROVE c.exterior[sid].level \in 1..Len(ShowAttr[sid])
    <2>1. c.exterior[sid].level = 1
        BY <1>2
    <2>2. Len(ShowAttr[sid]) \in Nat \ {0}
        BY TiersNat
    <2> QED BY <2>1, <2>2
<1> QED BY <1>1, <1>2, <1>3, <1>4 DEF Proper

\* The asker's row, or what stands for it, is a proper character.
LEMMA RowProper ==
    ASSUME Game
    PROVE  Proper(Row)
<1>1. ASSUME NEW c \in Range(chars) PROVE Proper(c)
    BY DEF Game, AllProper, Range
<1>2. CASE Me \in Pids
    <2>1. \E c \in Range(chars) : c.pid = Me
        BY <1>2 DEF Pids
    <2>2. Row \in Range(chars)
        BY <1>2, <2>1 DEF Row
    <2> QED BY <1>1, <2>2
<1>3. CASE Me \notin Pids
    <2>1. Row = NewRow(Me, Mine, <<>>)
        BY <1>3 DEF Row
    <2>2. Me \in Nat /\ Mine \in Nat /\ Text(<<>>)
        BY RepliesAssumption, SimplyFits
    <2> QED BY <2>1, <2>2, NewRowProper
<1> QED BY <1>2, <1>3

LEMMA KindMarks ==
    /\ <<"login">> \notin Blobs \cup Bare /\ <<"attire">> \notin Blobs \cup Bare
    /\ <<"shop">> \notin Blobs \cup Bare /\ <<"items">> \notin Blobs \cup Bare
    /\ <<"equip">> \notin Blobs \cup Bare
    /\ Nothing.kind = <<"none">> /\ Waiting.kind = <<"fragment">> /\ <<"refused">> \in Bare
    /\ <<"none">> \notin Blobs \cup {<<"refused">>} /\ <<"fragment">> \notin Blobs \cup {<<"refused">>}
    /\ <<"refused">> \notin Blobs /\ <<"none">> \in Bare /\ <<"fragment">> \in Bare
    /\ \A name, page : /\ <<"rank", name, page>> \notin Blobs \cup Bare
                       /\ <<"rank", name, page>>[1] = "rank"
                       /\ <<"rank", name, page>>[2] = name /\ <<"rank", name, page>>[3] = page
<1>1. /\ <<"login">>[1] = "login" /\ <<"attire">>[1] = "attire" /\ <<"shop">>[1] = "shop"
      /\ <<"items">>[1] = "items" /\ <<"equip">>[1] = "equip" /\ <<"none">>[1] = "none"
      /\ <<"servers">>[1] = "servers" /\ <<"session">>[1] = "session"
      /\ <<"fragment">>[1] = "fragment" /\ <<"refused">>[1] = "refused"
    OBVIOUS
<1>2. \A name, page : /\ <<"rank", name, page>>[1] = "rank"
                      /\ <<"rank", name, page>>[2] = name /\ <<"rank", name, page>>[3] = page
    OBVIOUS
<1>3. Nothing.kind = <<"none">> /\ Waiting.kind = <<"fragment">>
    BY DEF Nothing, Waiting
<1>4. \A k \in Blobs \cup Bare : k[1] \in {"none", "fragment", "refused", "servers", "session"}
    BY <1>1 DEF Blobs, Bare
<1>5. /\ <<"none">> \notin Blobs \cup {<<"refused">>} /\ <<"fragment">> \notin Blobs \cup {<<"refused">>}
      /\ <<"refused">> \notin Blobs
    BY <1>1 DEF Blobs
<1>7. <<"none">> \in Bare /\ <<"fragment">> \in Bare /\ <<"refused">> \in Bare
    BY DEF Bare
<1>6. ASSUME NEW name, NEW page PROVE <<"rank", name, page>> \notin Blobs \cup Bare
    <2>1. PICK k : k = <<"rank", name, page>>
        OBVIOUS
    <2>2. k[1] = "rank"
        BY <1>2, <2>1
    <2>3. k \notin Blobs \cup Bare
        BY <1>4, <2>2
    <2> QED BY <2>1, <2>3
<1> QED BY <1>1, <1>2, <1>3, <1>4, <1>5, <1>6, <1>7

IsRank(kind, layout, meant) ==
    \A name \in DOMAIN Spelling, page \in Nat : kind = <<"rank", name, page>>
        => layout = RankLayout(name) /\ meant = MeantRank(name, page)

\* A message that fits its layout is an answer, or too long to be one, or lost.
LEMMA TellAnswers ==
    ASSUME NEW kind, NEW layout, NEW meant, kind \notin Blobs \cup Bare,
           Fits(layout, meant), IsRank(kind, layout, meant),
           Tell(kind, layout, meant, Write(layout, meant)), chars' = chars
    PROVE  Answer'
<1>1. PICK body : body = Write(layout, meant)
    OBVIOUS
<1>2. reply' = IF Len(body) = MaxBody THEN Waiting
               ELSE IF Len(body) < MaxBody /\ reply = Nothing
               THEN [kind |-> kind, layout |-> layout, meant |-> meant, body |-> body]
               ELSE Nothing
    BY <1>1 DEF Tell
<1>3. CASE reply' = Nothing \/ reply' = Waiting
    BY <1>3 DEF Answer
<1>4. CASE /\ Len(body) < MaxBody
           /\ reply' = [kind |-> kind, layout |-> layout, meant |-> meant, body |-> body]
    <2>1. reply' = [kind |-> kind, layout |-> layout, meant |-> meant, body |-> body]
        BY <1>4
    <2>2. reply'.kind = kind /\ reply'.layout = layout /\ reply'.meant = meant /\ reply'.body = body
        BY <2>1
    <2>3. Len(body) <= MaxBody
        <3>1. Len(body) \in Nat /\ MaxBody \in Nat
            BY <1>1, WriteType, RepliesAssumption
        <3> QED BY <1>4, <3>1
    <2>4. ASSUME NEW name, NEW page PROVE MeantRank(name, page)' = MeantRank(name, page)
        BY DEF MeantRank
    <2>5. ASSUME NEW name \in DOMAIN Spelling, NEW page \in Nat, reply'.kind = <<"rank", name, page>>
          PROVE  reply'.layout = RankLayout(name) /\ reply'.meant = MeantRank(name, page)'
        BY <2>2, <2>4, <2>5 DEF IsRank
    <2>6. Written'
        BY <1>1, <2>2, <2>3, <2>5 DEF Written
    <2> QED BY <2>6 DEF Answer
<1> QED BY <1>2, <1>3, <1>4

\* A plain question keeps the invariant.
LEMMA AskAnswers ==
    ASSUME Game, NEW kind, NEW layout, NEW meant, kind \notin Blobs \cup Bare, kind[1] # "rank",
           Fits(layout, meant), Ask(kind, layout, meant)
    PROVE  Game' /\ Answer'
<1>1. chars' = chars /\ changes' = changes /\ Tell(kind, layout, meant, Write(layout, meant))
    BY DEF Ask
<1>2. IsRank(kind, layout, meant)
    BY KindMarks DEF IsRank
<1> QED BY <1>1, <1>2, GameKept, TellAnswers

(* Each request. *)

LEMMA BlobAnswers ==
    ASSUME NEW kind \in Blobs, NEW text \in Seq(0..255), Blob(kind, text, text)
    PROVE  Answer'
<1>1. reply' = [kind |-> kind, meant |-> text, body |-> encode_serinfo(text, 1, 1, 90)]
    BY DEF Blob
<1>2. reply'.kind = kind /\ reply'.meant = text /\ reply'.body = encode_serinfo(text, 1, 1, 90)
    BY <1>1
<1> QED BY <1>2 DEF Answer, Blobbed

LEMMA TokenIs ==
    ASSUME NEW a \in Tokens
    PROVE  a \in Seq(0..255) /\ 44 \notin Range(a)
BY RepliesAssumption

LEMMA ServerListAnswers ==
    ASSUME Game, ServerList
    PROVE  Game' /\ Answer'
<1>1. Game'
    BY GameKept DEF ServerList
<1>2. PICK list \in Tokens : Blob(<<"servers">>, Json(list, list), Json(list, list))
    BY DEF ServerList
<1>3. Json(list, list) \in Seq(0..255)
    BY TokenIs, JsonIs
<1>4. <<"servers">> \in Blobs
    BY DEF Blobs
<1> QED BY <1>1, <1>2, <1>3, <1>4, BlobAnswers

LEMMA ApiLoginAnswers ==
    ASSUME Game, NEW sessionId \in Tokens, NEW session \in Tokens, NEW o \in {1, 2, 9}, NEW i \in {1, 2, 9},
           NEW pad \in Pads, ApiLogin(sessionId, session, o, i, pad)
    PROVE  Game' /\ Answer'
<1>1. Game'
    BY GameKept DEF ApiLogin
<1>2. PICK sent : sent = encode_serinfo(Json(sessionId, session), o, i, pad)
    OBVIOUS
<1>3. PICK text : text = decode_serinfo(Queried(sent))
    OBVIOUS
<1>4. text = IF pad \in Cuts THEN <<>> ELSE Json(sessionId, session)
    <2>1. Json(sessionId, session) \in Seq(0..255)
        BY TokenIs, JsonIs
    <2>2. pad \in Ascii
        BY RepliesAssumption DEF Ascii
    <2>3. o \in 0..9 /\ i \in 0..9
        OBVIOUS
    <2> QED BY <1>2, <1>3, <2>1, <2>2, <2>3, QueriedRead, QueriedCut
<1>5. PICK comma : comma = SelectInSeq(text, LAMBDA c : c = 44)
    OBVIOUS
<1>6. CASE pad \in Cuts
    <2>1. reply' = Refused(pad)
        BY <1>2, <1>3, <1>4, <1>6 DEF ApiLogin
    <2>2. Cut'
        BY <1>6, <2>1 DEF Refused, Cut
    <2> QED BY <1>1, <2>2 DEF Answer
<1>7. CASE pad \notin Cuts
    <2>1. text = Json(sessionId, session) /\ text # <<>>
        BY <1>4, <1>7, TokenIs, JsonIs
    <2>2. SubSeq(text, 2, comma - 1) = sessionId /\ SubSeq(text, comma + 1, Len(text) - 1) = session
        BY <2>1, <1>5, TokenIs, JsonIs
    <2>3. PICK known : known = IF sessionId # <<>> THEN sessionId ELSE session
        OBVIOUS
    <2>4. PICK token : token = IF SubSeq(text, 2, comma - 1) # <<>> THEN SubSeq(text, 2, comma - 1)
                               ELSE SubSeq(text, comma + 1, Len(text) - 1)
        OBVIOUS
    <2>5. Blob(<<"session">>, Json(known, known), Json(token, token))
        BY <1>2, <1>3, <1>5, <2>1, <2>3, <2>4 DEF ApiLogin
    <2>6. token = known
        BY <2>2, <2>3, <2>4
    <2>7. Json(known, known) \in Seq(0..255)
        BY <2>3, TokenIs, JsonIs
    <2>8. <<"session">> \in Blobs
        BY DEF Blobs
    <2> QED BY <1>1, <2>5, <2>6, <2>7, <2>8, BlobAnswers
<1> QED BY <1>6, <1>7

LEMMA LoginGameAnswers ==
    ASSUME Game, LoginGame
    PROVE  Game' /\ Answer'
<1>1. Game' /\ chars' = chars
    BY GameKept DEF LoginGame
<1> DEFINE own == Kept(chars, {c \in Range(chars) : c.account = Mine})
           last == IF own = <<>> THEN 0 ELSE own[Len(own)].pid
           Layout(f) == <<u32, u64, List(TypesOf(f))>>
           Message(f) == <<0, last, [i \in DOMAIN own |-> PartOf(f, own[i])]>>
<1>2. PICK f \in MatchFactory(Fields(PLAYERS_INFO)) :
          Tell(<<"login">>, Layout(PLAYERS_INFO), Message(PLAYERS_INFO), Write(Layout(f), Message(f)))
    BY DEF LoginGame, TypesOf, PartOf, SetOf
<1>3. f = PLAYERS_INFO
    BY FactoryIs
<1>4. Fits(Layout(PLAYERS_INFO), Message(PLAYERS_INFO))
    BY LoginFits DEF Game
<1> HIDE DEF Layout, Message
<1>5. Tell(<<"login">>, Layout(PLAYERS_INFO), Message(PLAYERS_INFO),
           Write(Layout(PLAYERS_INFO), Message(PLAYERS_INFO)))
    BY <1>2, <1>3
<1>6. <<"login">>[1] # "rank"
    OBVIOUS
<1>7. IsRank(<<"login">>, Layout(PLAYERS_INFO), Message(PLAYERS_INFO))
    BY <1>6, KindMarks DEF IsRank
<1>8. <<"login">> \notin Blobs \cup Bare
    BY KindMarks
<1> QED BY <1>1, <1>4, <1>5, <1>7, <1>8, TellAnswers

\* The board and the asker's place on it.
LEMMA EntriesProper ==
    ASSUME Game, NEW name
    PROVE  /\ Entries(name, chars) \in Seq(Characters)
           /\ \A r \in 1..Len(Entries(name, chars)) : Proper(Entries(name, chars)[r])
<1>1. CASE kind_of(name) = "NORMAL"
    <2>1. /\ Ranked(name, chars) \in Seq(Characters) /\ Len(Ranked(name, chars)) = Len(chars)
          /\ \A r \in 1..Len(chars) : Proper(Ranked(name, chars)[r])
        BY RankedIs DEF Game
    <2> QED BY <1>1, <2>1 DEF Entries
<1>2. CASE kind_of(name) # "NORMAL"
    BY <1>2, EmptySeq DEF Entries
<1> QED BY <1>1, <1>2

\* What a board's message says fits its layout.
LEMMA MeantFits ==
    ASSUME Game, NEW name \in DOMAIN Spelling, NEW page \in Nat
    PROVE  Matches(RankLayout(name), MeantRank(name, page))
<1>1. PICK entries : entries = Entries(name, chars)
    OBVIOUS
<1>2. /\ entries \in Seq(Characters) /\ Len(entries) \in Nat
      /\ \A r \in 1..Len(entries) : Proper(entries[r])
    BY <1>1, EntriesProper, LenProperties
<1>3. PICK index : index = SelectInSeq(entries, LAMBDA c : c.pid = Me)
    OBVIOUS
<1>4. index \in Nat
    <2>1. index = FoundIn(entries, Me)
        BY <1>3 DEF FoundIn
    <2> QED BY <1>2, <2>1, FoundIs
<1>5. PICK shown : shown = PageOf(entries, page)
    OBVIOUS
<1>6. /\ DOMAIN shown = 1..Len(shown) /\ Len(shown) \in Nat /\ MaxPage(entries) \in Nat
      /\ \A r \in 1..Len(shown) : page * RANK_PAGE_SIZE + r \in 1..Len(entries)
                                   /\ shown[r] = entries[page * RANK_PAGE_SIZE + r]
    <2>1. IsPage(shown, entries, page * RANK_PAGE_SIZE) /\ MaxPage(entries) \in Nat
        BY <1>2, <1>5, PageIs
    <2> QED BY <2>1 DEF IsPage
<1>7. \A r \in 1..Len(shown) : Proper(shown[r])
    BY <1>2, <1>6
<1>8. Proper(RowOf(chars))
    BY RowProper DEF Row, RowOf, Pids
<1>9. Matches(RankLayout(name), RankMessage(name, page, index, RowOf(chars), shown, MaxPage(entries)))
    BY <1>4, <1>6, <1>7, <1>8, RankFits
<1>10. MeantRank(name, page) = RankMessage(name, page, index, RowOf(chars), shown, MaxPage(entries))
    BY <1>1, <1>3, <1>5 DEF MeantRank, MeantIn
<1> QED BY <1>9, <1>10

LEMMA PagesNat == ASSUME NEW name, NEW page \in Pages(name) PROVE page \in Nat
BY CodecAssumption DEF Pages

\* What the server tells, and what the client does with it.
LEMMA QueryTells ==
    ASSUME Game, NEW name \in DOMAIN Spelling, NEW page \in Pages(name), QueryRanking(name, page)
    PROVE  /\ Tell(<<"rank", name, page>>, RankLayout(name), MeantRank(name, page),
                   Write(RankLayout(name), MeantRank(name, page)))
           /\ chars' = chars /\ changes' = changes
           /\ sweep' = IF Quiet' THEN Idle
                       ELSE Swept(name, page, Parsed(RankLayout(name), reply'.body))
<1>1. PICK entries : entries = Entries(name, chars)
    OBVIOUS
<1>2. PICK index : index = SelectInSeq(entries, LAMBDA c : c.pid = Me)
    OBVIOUS
<1>3. PICK message : message = RankMessage(name, page, index, Row, PageOf(entries, page), MaxPage(entries))
    OBVIOUS
<1>4. message = MeantRank(name, page)
    BY <1>1, <1>2, <1>3 DEF MeantRank, MeantIn, RowOf, Row, Pids
<1>5. /\ Tell(<<"rank", name, page>>, RankLayout(name), message, Write(RankLayout(name), message))
      /\ sweep' = IF Quiet' THEN Idle
                  ELSE Swept(name, page, Parsed(RankLayout(name), reply'.body))
    BY <1>1, <1>2, <1>3 DEF QueryRanking
<1>6. chars' = chars /\ changes' = changes
    BY DEF QueryRanking
<1> QED BY <1>4, <1>5, <1>6

LEMMA QueryAnswers ==
    ASSUME Game, NEW name \in DOMAIN Spelling, NEW page \in Pages(name), QueryRanking(name, page)
    PROVE  Game' /\ Answer'
<1>1. page \in Nat
    BY PagesNat
<1>2. PICK l, m : l = RankLayout(name) /\ m = MeantRank(name, page)
    OBVIOUS
<1>3. Fits(l, m)
    BY <1>1, <1>2, MeantFits DEF Matches
<1>4. Tell(<<"rank", name, page>>, l, m, Write(l, m)) /\ chars' = chars /\ changes' = changes
    BY <1>2, QueryTells
<1>5. <<"rank", name, page>> \notin Blobs \cup Bare
    BY KindMarks
<1>6. IsRank(<<"rank", name, page>>, l, m)
    <2>1. ASSUME NEW other, NEW q, <<"rank", name, page>> = <<"rank", other, q>>
          PROVE  other = name /\ q = page
        BY <2>1
    <2> QED BY <1>2, <2>1 DEF IsRank
<1>7. Answer'
    BY <1>3, <1>4, <1>5, <1>6, TellAnswers
<1> QED BY <1>4, <1>7, GameKept

LEMMA ShowAnswers == ASSUME Game, ShowQuery PROVE Game' /\ Answer'
<1>1. Ask(<<"attire">>, <<str, List(<<u8, u8, u16, u16, u8>>)>>, <<Row.name, AttireOf(Row)>>)
    BY DEF ShowQuery, AttireOf
<1>2. Fits(<<str, List(<<u8, u8, u16, u16, u8>>)>>, <<Row.name, AttireOf(Row)>>)
    BY RowProper, AttireFits
<1>3. <<"attire">>[1] # "rank"
    OBVIOUS
<1> QED BY <1>1, <1>2, <1>3, KindMarks, AskAnswers

LEMMA ShopAnswers == ASSUME Game, ShopQuery PROVE Game' /\ Answer'
<1>1. PICK n \in Goods, bought \in Counts :
          Ask(<<"shop">>, <<u32, List(<<u16>>)>>,
              <<0, [i \in 1..n |-> <<Capped(IF i % 2 = 1 THEN bought ELSE 0)>>]>>)
    BY DEF ShopQuery
<1>2. n \in Nat /\ bought \in Nat
    BY RepliesAssumption
<1>3. Fits(<<u32, List(<<u16>>)>>, <<0, [i \in 1..n |-> <<Capped(IF i % 2 = 1 THEN bought ELSE 0)>>]>>)
    BY <1>2, ShopFits
<1>4. <<"shop">>[1] # "rank"
    OBVIOUS
<1> QED BY <1>1, <1>3, <1>4, KindMarks, AskAnswers

LEMMA LenNat == ASSUME Game PROVE Len(chars) \in Nat /\ DOMAIN chars = 1..Len(chars)
BY LenProperties DEF Game, AllProper

LEMMA AddAnswers ==
    ASSUME Game, NEW item \in Items, NEW count \in Counts, NEW worn \in BOOLEAN,
           AddItem(Len(chars), item, count, worn)
    PROVE  Game' /\ Answer'
<1>1. PICK l, m : /\ l = <<List(<<u64, u16>> \o ItemLayout(item))>>
                  /\ m = << << <<Len(chars), AddType, 0, Len(chars), item, count, PosFor(item, worn), 0, 0>>
                                \o IF item \in Equipment THEN <<EmptyTable, EmptyTable, EmptyTable>>
                                   ELSE <<>> >> >>
    OBVIOUS
<1>2. Ask(<<"items">>, l, m)
    BY <1>1 DEF AddItem
<1>3. item \in Nat /\ count \in Nat
    BY RepliesAssumption
<1>4. Fits(l, m)
    BY <1>1, <1>3, LenNat, ItemFits
<1>5. <<"items">>[1] # "rank"
    OBVIOUS
<1> QED BY <1>2, <1>4, <1>5, KindMarks, AskAnswers

LEMMA CountAnswers ==
    ASSUME Game, NEW count \in Counts, CountItem(Len(chars), count)
    PROVE  Game' /\ Answer'
<1>1. PICK l, m : l = <<List(<<u64, u16, u32>>)>> /\ m = << << <<Len(chars), CountType, count>> >> >>
    OBVIOUS
<1>2. Ask(<<"items">>, l, m)
    BY <1>1 DEF CountItem
<1>3. count \in Nat /\ CountType \in Nat
    BY RepliesAssumption
<1>4. Fits(l, m)
    BY <1>1, <1>3, LenNat, CountFits
<1>5. <<"items">>[1] # "rank"
    OBVIOUS
<1> QED BY <1>2, <1>4, <1>5, KindMarks, AskAnswers

LEMMA EquipAnswers == ASSUME Game, EquipInfo PROVE Game' /\ Answer'
<1>1. PICK l, m : /\ l = [k \in DOMAIN EquipStructs |-> List(EquipStructs[k])]
                  /\ m = [k \in DOMAIN EquipStructs |-> [part \in 1..PartCount |->
                             [j \in DOMAIN EquipStructs[k] |-> 0]]]
    OBVIOUS
<1>2. Ask(<<"equip">>, l, m)
    BY <1>1 DEF EquipInfo
<1>3. Fits(l, m)
    BY <1>1, EquipFits
<1>4. <<"equip">>[1] # "rank"
    OBVIOUS
<1> QED BY <1>2, <1>3, <1>4, KindMarks, AskAnswers
-----------------------------------------------------------------------------
(* Characters change. *)

Slots == [level : Nat, bless : Nat, quality : Nat]

\* What going up leaves of a character: at most one tier, one item or some numbers more.
Better(d, c) ==
    /\ Proper(d) /\ d.pid = c.pid /\ d.level >= c.level
    /\ d.gear = c.gear \/ \E item \in Equipment : d.gear = c.gear \cup {item}
    /\ \A sid \in Range(ATTIRE_TYPES) :
          /\ d.exterior[sid].level \in {c.exterior[sid].level, c.exterior[sid].level + 1}
          /\ d.exterior[sid].quality >= c.exterior[sid].quality

LEMMA ProperIs ==
    ASSUME NEW c, Proper(c)
    PROVE  /\ c = [pid |-> c.pid, account |-> c.account, name |-> c.name, level |-> c.level,
                   gear |-> c.gear, exterior |-> c.exterior]
           /\ c.pid \in Nat /\ c.account \in Nat /\ c.name \in Seq(0..(Byte - 1)) /\ c.level \in Nat
           /\ c.gear \in SUBSET Equipment /\ c.exterior \in [Range(ATTIRE_TYPES) -> Slots]
           /\ Text(c.name)
           /\ \A sid \in Range(ATTIRE_TYPES) : c.exterior[sid].level \in 1..Len(ShowAttr[sid])
BY DEF Proper, Characters, Slots

Attired(exterior) ==
    /\ exterior \in [Range(ATTIRE_TYPES) -> Slots]
    /\ \A sid \in Range(ATTIRE_TYPES) : exterior[sid].level \in 1..Len(ShowAttr[sid])

Made(d, c, level, gear, exterior) ==
    d = [pid |-> c.pid, account |-> c.account, name |-> c.name, level |-> level,
         gear |-> gear, exterior |-> exterior]

Wearable(gear) == gear \in SUBSET Equipment

\* A character with another level, gear or attire.
LEMMA ProperMade ==
    ASSUME NEW c, Proper(c), NEW level \in Nat, NEW gear, Wearable(gear),
           NEW exterior, Attired(exterior),
           NEW d, Made(d, c, level, gear, exterior)
    PROVE  /\ Proper(d) /\ d.pid = c.pid /\ d.level = level /\ d.gear = gear
           /\ d.exterior = exterior
<1>1. /\ c.pid \in Nat /\ c.account \in Nat /\ c.name \in Seq(0..(Byte - 1)) /\ c.level \in Nat
      /\ Text(c.name)
    BY ProperIs
<1>2. /\ d.pid = c.pid /\ d.level = level /\ d.gear = gear /\ d.exterior = exterior
      /\ d.name = c.name
    BY DEF Made
<1>3. d \in Characters
    BY <1>1 DEF Made, Characters, Slots, Attired, Wearable
<1> QED BY <1>1, <1>2, <1>3 DEF Proper, Attired

LEMMA LevelBetter ==
    ASSUME NEW c, Proper(c), NEW d, d = [c EXCEPT !.level = @ + 1]
    PROVE  Better(d, c)
<1>1. /\ c.pid \in Nat /\ c.account \in Nat /\ c.name \in Seq(0..(Byte - 1)) /\ c.level \in Nat
      /\ c.gear \in SUBSET Equipment /\ c.exterior \in [Range(ATTIRE_TYPES) -> Slots] /\ Text(c.name)
      /\ \A sid \in Range(ATTIRE_TYPES) : c.exterior[sid].level \in 1..Len(ShowAttr[sid])
    BY ProperIs
<1>2. Made(d, c, c.level + 1, c.gear, c.exterior)
    BY ProperIs DEF Made
<1>3. /\ Proper(d) /\ d.pid = c.pid /\ d.level = c.level + 1 /\ d.gear = c.gear
      /\ d.exterior = c.exterior
    <2>1. c.level + 1 \in Nat /\ Wearable(c.gear) /\ Attired(c.exterior)
        BY <1>1 DEF Attired, Wearable
    <2> QED BY <1>2, <2>1, ProperMade
<1>4. \A sid \in Range(ATTIRE_TYPES) : c.exterior[sid].quality \in Nat
    BY <1>1 DEF Slots
<1> QED BY <1>1, <1>3, <1>4 DEF Better

LEMMA WithGear ==
    ASSUME NEW c, Proper(c), NEW gear, NEW d, d = [c EXCEPT !.gear = gear]
    PROVE  Made(d, c, c.level, gear, c.exterior)
<1>1. c = [pid |-> c.pid, account |-> c.account, name |-> c.name, level |-> c.level,
           gear |-> c.gear, exterior |-> c.exterior]
    BY ProperIs
<1> QED BY <1>1 DEF Made

LEMMA WithExterior ==
    ASSUME NEW c, Proper(c), NEW exterior, NEW d, d = [c EXCEPT !.exterior = exterior]
    PROVE  Made(d, c, c.level, c.gear, exterior)
<1>1. c = [pid |-> c.pid, account |-> c.account, name |-> c.name, level |-> c.level,
           gear |-> c.gear, exterior |-> c.exterior]
    BY ProperIs
<1> QED BY <1>1 DEF Made

LEMMA GearBetter ==
    ASSUME NEW c, Proper(c), NEW item \in Equipment, NEW d, d = [c EXCEPT !.gear = @ \cup {item}]
    PROVE  Better(d, c)
<1>1. /\ c.gear \in SUBSET Equipment /\ c.exterior \in [Range(ATTIRE_TYPES) -> Slots] /\ c.level \in Nat
      /\ \A sid \in Range(ATTIRE_TYPES) : c.exterior[sid].level \in 1..Len(ShowAttr[sid])
    BY ProperIs
<1>2. PICK gear : gear = c.gear \cup {item}
    OBVIOUS
<1>3. gear \in SUBSET Equipment /\ d = [c EXCEPT !.gear = gear]
    BY <1>1, <1>2
<1>4. Made(d, c, c.level, gear, c.exterior)
    BY <1>3, WithGear
<1>5. Proper(d) /\ d.pid = c.pid /\ d.level = c.level /\ d.gear = gear /\ d.exterior = c.exterior
    <2>1. Attired(c.exterior) /\ Wearable(gear)
        BY <1>1, <1>3 DEF Attired, Wearable
    <2>2. PICK level, exterior : level = c.level /\ exterior = c.exterior
        OBVIOUS
    <2>3. level \in Nat /\ Attired(exterior) /\ Made(d, c, level, gear, exterior)
        BY <1>1, <1>4, <2>1, <2>2
    <2>4. Proper(d)
        BY <2>1, <2>3, ProperMade
    <2> QED BY <2>2, <2>3, <2>4 DEF Made
<1>6. \A sid \in Range(ATTIRE_TYPES) : c.exterior[sid].quality \in Nat
    BY <1>1 DEF Slots
<1> QED BY <1>1, <1>2, <1>5, <1>6 DEF Better

\* Of the attire, one slot changes.
LEMMA SlotBetter ==
    ASSUME NEW c, Proper(c), NEW sid \in Range(ATTIRE_TYPES), NEW slot \in Slots,
           slot.level \in {c.exterior[sid].level, c.exterior[sid].level + 1},
           slot.level \in 1..Len(ShowAttr[sid]), slot.quality >= c.exterior[sid].quality,
           NEW d, d = [c EXCEPT !.exterior = [@ EXCEPT ![sid] = slot]]
    PROVE  Better(d, c)
<1>1. /\ c.pid \in Nat /\ c.account \in Nat /\ c.name \in Seq(0..(Byte - 1)) /\ c.level \in Nat
      /\ c.gear \in SUBSET Equipment /\ c.exterior \in [Range(ATTIRE_TYPES) -> Slots] /\ Text(c.name)
      /\ \A t \in Range(ATTIRE_TYPES) : c.exterior[t].level \in 1..Len(ShowAttr[t])
    BY ProperIs
<1>2. PICK x : x = [c.exterior EXCEPT ![sid] = slot]
    OBVIOUS
<1>3. x \in [Range(ATTIRE_TYPES) -> Slots] /\ x[sid] = slot
      /\ \A t \in Range(ATTIRE_TYPES) : t # sid => x[t] = c.exterior[t]
    BY <1>1, <1>2
<1>4. Made(d, c, c.level, c.gear, x)
    <2>1. d = [c EXCEPT !.exterior = x]
        BY <1>2
    <2> QED BY <2>1, WithExterior
<1>5. \A t \in Range(ATTIRE_TYPES) : x[t].level \in 1..Len(ShowAttr[t])
    BY <1>1, <1>3
<1>6. Proper(d) /\ d.pid = c.pid /\ d.level = c.level /\ d.gear = c.gear /\ d.exterior = x
    <2>1. c.level \in Nat /\ Wearable(c.gear) /\ Attired(x)
        BY <1>1, <1>3, <1>5 DEF Attired, Wearable
    <2>2. PICK level, gear : level = c.level /\ gear = c.gear
        OBVIOUS
    <2>3. level \in Nat /\ Wearable(gear) /\ Made(d, c, level, gear, x)
        BY <1>4, <2>1, <2>2
    <2>4. Proper(d)
        BY <2>1, <2>3, ProperMade
    <2> QED BY <2>2, <2>3, <2>4 DEF Made
<1>7. \A t \in Range(ATTIRE_TYPES) : c.exterior[t].quality \in Nat
    BY <1>1 DEF Slots
<1>8. ASSUME NEW t \in Range(ATTIRE_TYPES)
      PROVE  /\ x[t].level \in {c.exterior[t].level, c.exterior[t].level + 1}
             /\ x[t].quality >= c.exterior[t].quality
    <2>1. CASE t = sid
        BY <1>3, <2>1
    <2>2. CASE t # sid
        <3>1. x[t] = c.exterior[t]
            BY <1>3, <2>2
        <3> QED BY <1>7, <3>1
    <2> QED BY <2>1, <2>2
<1> QED BY <1>1, <1>6, <1>8 DEF Better

LEMMA QualityBetter ==
    ASSUME NEW c, Proper(c), NEW sid \in Range(ATTIRE_TYPES), NEW d, d = [c EXCEPT !.exterior[sid].quality = @ + 1]
    PROVE  Better(d, c)
<1>1. PICK s : s = c.exterior[sid]
    OBVIOUS
<1>2. s \in Slots /\ s.level \in 1..Len(ShowAttr[sid])
    BY <1>1, ProperIs
<1>3. PICK slot : slot = [s EXCEPT !.quality = @ + 1]
    OBVIOUS
<1>4. slot \in Slots /\ slot.level = s.level /\ slot.quality >= s.quality
    BY <1>2, <1>3 DEF Slots
<1>5. d = [c EXCEPT !.exterior = [@ EXCEPT ![sid] = slot]]
    BY <1>1, <1>3
<1> QED BY <1>1, <1>2, <1>4, <1>5, SlotBetter

LEMMA BlessBetter ==
    ASSUME NEW c, Proper(c), NEW sid \in Range(ATTIRE_TYPES), NEW d, d = [c EXCEPT !.exterior[sid].bless = @ + Bless]
    PROVE  Better(d, c)
<1>1. PICK s : s = c.exterior[sid]
    OBVIOUS
<1>2. s \in Slots /\ s.level \in 1..Len(ShowAttr[sid]) /\ Bless \in Nat
    BY <1>1, ProperIs, RepliesAssumption
<1>3. PICK slot : slot = [s EXCEPT !.bless = @ + Bless]
    OBVIOUS
<1>4. slot \in Slots /\ slot.level = s.level /\ slot.quality >= s.quality
    BY <1>2, <1>3 DEF Slots
<1>5. d = [c EXCEPT !.exterior = [@ EXCEPT ![sid] = slot]]
    BY <1>1, <1>3
<1> QED BY <1>1, <1>2, <1>4, <1>5, SlotBetter

\* A tier more counts for more, though bless starts again.
LEMMA TierBetter ==
    ASSUME NEW c, Proper(c), NEW sid \in Range(ATTIRE_TYPES), c.exterior[sid].level < Len(ShowAttr[sid]),
           NEW d, d = [c EXCEPT !.exterior[sid] =
                         [level |-> @.level + 1, bless |-> 0, quality |-> @.quality]]
    PROVE  Better(d, c)
<1>1. PICK s : s = c.exterior[sid]
    OBVIOUS
<1>2. s \in Slots /\ s.level \in 1..Len(ShowAttr[sid]) /\ s.level < Len(ShowAttr[sid])
    BY <1>1, ProperIs
<1>3. PICK slot : slot = [level |-> s.level + 1, bless |-> 0, quality |-> s.quality]
    OBVIOUS
<1>4. slot \in Slots /\ slot.level = s.level + 1 /\ slot.quality >= s.quality
    BY <1>2, <1>3 DEF Slots
<1>5. slot.level \in 1..Len(ShowAttr[sid])
    <2>1. Len(ShowAttr[sid]) \in Nat
        BY TiersNat
    <2>2. s.level \in Nat \ {0} /\ s.level < Len(ShowAttr[sid])
        BY <1>2, <2>1
    <2> QED BY <1>4, <2>1, <2>2
<1>6. d = [c EXCEPT !.exterior = [@ EXCEPT ![sid] = slot]]
    BY <1>1, <1>3
<1> QED BY <1>1, <1>2, <1>4, <1>5, <1>6, SlotBetter

LEMMA BareProper ==
    ASSUME NEW c, Proper(c), NEW item, NEW d, d = [c EXCEPT !.gear = @ \ {item}]
    PROVE  /\ Proper(d) /\ d.pid = c.pid /\ d.level = c.level /\ d.exterior = c.exterior
           /\ d.gear = c.gear \ {item}
<1>1. /\ c.level \in Nat /\ c.gear \in SUBSET Equipment /\ c.exterior \in [Range(ATTIRE_TYPES) -> Slots]
      /\ \A sid \in Range(ATTIRE_TYPES) : c.exterior[sid].level \in 1..Len(ShowAttr[sid])
    BY ProperIs
<1>2. PICK gear : gear = c.gear \ {item}
    OBVIOUS
<1>3. gear \in SUBSET Equipment /\ d = [c EXCEPT !.gear = gear]
    BY <1>1, <1>2
<1>4. Made(d, c, c.level, gear, c.exterior)
    BY <1>3, WithGear
<1>5. Attired(c.exterior) /\ Wearable(gear)
    BY <1>1, <1>3 DEF Attired, Wearable
<1> QED BY <1>1, <1>2, <1>3, <1>4, <1>5, ProperMade


LEMMA WideNat == Power.u64 \in Nat
<1>1. PICK w : w = Power.u32
    OBVIOUS
<1>2. w \in Nat /\ w * w \in Nat
    BY <1>1, Sizes
<1> QED BY <1>1, <1>2, Sizes

\* A character changes, and keeps its id.
LEMMA RiseGame ==
    ASSUME Game, NEW i \in DOMAIN chars, NEW c, Proper(c), c.pid = chars[i].pid,
           chars' = [chars EXCEPT ![i] = c], changes < MaxChanges, changes' = changes + 1
    PROVE  /\ Game' /\ chars' \in Seq(Characters) /\ Len(chars') = Len(chars)
           /\ \A j \in DOMAIN chars : chars'[j] = IF j = i THEN c ELSE chars[j]
<1>1. /\ chars \in Seq(Characters) /\ Len(chars) \in Nat /\ DOMAIN chars = 1..Len(chars)
      /\ \A j \in DOMAIN chars : chars[j] \in Characters /\ Proper(chars[j])
    BY LenProperties DEF Game, AllProper, Proper
<1>2. c \in Characters
    BY DEF Proper
<1>3. PICK n \in Nat : n = Len(chars) /\ DOMAIN chars = 1..n
    BY <1>1
<1>4. PICK s : s = chars'
    OBVIOUS
<1>5. \A j \in DOMAIN chars : s[j] = IF j = i THEN c ELSE chars[j]
    BY <1>4
<1>6. s \in [1..n -> Characters]
    BY <1>1, <1>2, <1>3, <1>4
<1>7. s \in Seq(Characters) /\ Len(s) = n /\ DOMAIN s = 1..n
    BY <1>3, <1>6, FunctionIsSeq
<1>8. AllProper(s)
    BY <1>1, <1>3, <1>5, <1>7 DEF AllProper
<1>9. \A j \in 1..n : s[j].pid = chars[j].pid
    BY <1>3, <1>5
<1>10. changes' \in 0..MaxChanges /\ Len(s) + (MaxChanges - changes') < Power.u64
    <2>1. changes \in 0..MaxChanges /\ n + (MaxChanges - changes) < Power.u64 /\ MaxChanges \in Nat
        BY <1>3, RepliesAssumption DEF Game
    <2>2. PICK m \in Nat : m = changes /\ m < MaxChanges
        BY <2>1
    <2>3. PICK w \in Nat : w = Power.u64
        BY WideNat
    <2>4. m + 1 \in 0..MaxChanges /\ n + (MaxChanges - (m + 1)) < w
        BY <2>1, <2>2, <2>3
    <2> QED BY <1>7, <2>2, <2>3, <2>4
<1>11. /\ \A j \in 1..n : s[j].pid \in 1..n
       /\ \A j, k \in 1..n : s[j].pid = s[k].pid => j = k
    BY <1>3, <1>9 DEF Game
<1>12. Game'
    BY <1>4, <1>7, <1>8, <1>10, <1>11 DEF Game, AllProper
<1> QED BY <1>3, <1>4, <1>5, <1>7, <1>12

LEMMA Greatest ==
    ASSUME NEW n \in Nat, NEW S \in SUBSET (1..n), S # {}
    PROVE  Max(S) \in S /\ \A x \in S : Max(S) >= x
<1>1. \E x \in S : \A y \in S : x >= y
    <2> DEFINE T == {k \in Nat : \E x \in S : x > k}
    <2>1. 0 \in T
        <3>1. PICK x \in S : TRUE
            OBVIOUS
        <3>2. x > 0
            OBVIOUS
        <3> QED BY <3>2
    <2>2. n \notin T
        <3>1. \A x \in S : ~(x > n)
            OBVIOUS
        <3> QED BY <3>1
    <2>3. T \in SUBSET Nat
        OBVIOUS
    <2> HIDE DEF T
    <2>4. \E k \in T : k + 1 \notin T
        BY <2>1, <2>2, <2>3, SetInduction
    <2>5. PICK k \in T : k + 1 \notin T
        BY <2>4
    <2>6. k \in Nat /\ (\E x \in S : x > k) /\ \A x \in S : ~(x > k + 1)
        BY <2>3, <2>5 DEF T
    <2>7. PICK x \in S : x > k
        BY <2>6
    <2>8. x = k + 1 /\ \A y \in S : x >= y
        BY <2>6, <2>7
    <2> QED BY <2>8
<1> QED BY <1>1 DEF Max

\* A new character has the next id.
LEMMA CreateGame ==
    ASSUME Game, NEW a \in 1..(Len(chars) + 1), NEW account \in Nat, NEW name, Text(name),
           chars' = InsertAt(chars, a, NewRow(Len(chars) + 1, account, name)),
           changes < MaxChanges, changes' = changes + 1
    PROVE  /\ Game' /\ Len(chars') = Len(chars) + 1
           /\ HasMore(chars', chars, a, NewRow(Len(chars) + 1, account, name))
<1>1. /\ chars \in Seq(Characters) /\ Len(chars) \in Nat /\ DOMAIN chars = 1..Len(chars)
      /\ \A j \in DOMAIN chars : chars[j] \in Characters /\ Proper(chars[j])
    BY LenProperties DEF Game, AllProper, Proper
<1>2. PICK n \in Nat : n = Len(chars) /\ DOMAIN chars = 1..n
    BY <1>1
<1>3. PICK e : e = NewRow(n + 1, account, name)
    OBVIOUS
<1>4. Proper(e) /\ e.pid = n + 1 /\ e \in Characters
    <2>1. PICK m \in Nat : m = n + 1
        OBVIOUS
    <2>2. e = NewRow(m, account, name)
        BY <1>3, <2>1
    <2>3. Proper(e) /\ e.pid = m
        BY <2>2, NewRowProper
    <2> QED BY <2>1, <2>3 DEF Proper
<1>5. PICK t : t = InsertAt(chars, a, e)
    OBVIOUS
<1>6. chars' = t /\ a \in 1..(n + 1)
    BY <1>2, <1>3, <1>5
<1>7. t \in Seq(Characters) /\ HasMore(t, chars, a, e)
    BY <1>1, <1>4, <1>5, Inserted
<1>8. /\ Len(t) = n + 1 /\ DOMAIN t = 1..(n + 1)
      /\ \A r \in 1..(n + 1) : t[r] = IF r < a THEN chars[r] ELSE IF r = a THEN e ELSE chars[r - 1]
    BY <1>2, <1>7, LenProperties DEF HasMore
<1>9. \A r \in 1..(n + 1) : /\ r < a => r \in 1..n
                            /\ ~(r < a) /\ r # a => r - 1 \in 1..n
    BY <1>6
<1>10. ASSUME NEW r \in 1..(n + 1) PROVE Proper(t[r]) /\ t[r].pid \in 1..(n + 1)
    <2>1. \A j \in 1..n : Proper(chars[j]) /\ chars[j].pid \in 1..n
        BY <1>1, <1>2 DEF Game
    <2>2. CASE r < a
        <3>1. t[r] = chars[r] /\ r \in 1..n
            BY <1>8, <1>9, <2>2
        <3>2. Proper(t[r]) /\ t[r].pid \in 1..n
            BY <2>1, <3>1
        <3> QED BY <3>2
    <2>3. CASE r = a
        <3>1. t[r] = e
            BY <1>8, <2>3
        <3> QED BY <1>4, <3>1
    <2>4. CASE ~(r < a) /\ r # a
        <3>1. PICK k : k = r - 1
            OBVIOUS
        <3>2. t[r] = chars[k] /\ k \in 1..n
            BY <1>8, <1>9, <2>4, <3>1
        <3>3. Proper(t[r]) /\ t[r].pid \in 1..n
            BY <2>1, <3>2
        <3> QED BY <3>3
    <2> QED BY <2>2, <2>3, <2>4
<1>11. ASSUME NEW q \in 1..(n + 1), NEW r \in 1..(n + 1), t[q].pid = t[r].pid PROVE q = r
    <2> DEFINE From(x) == IF x < a THEN x ELSE x - 1
    <2>1. /\ \A j \in 1..n : chars[j].pid \in 1..n
          /\ \A j, k \in 1..n : chars[j].pid = chars[k].pid => j = k
        BY <1>2 DEF Game
    <2>2. \A x \in 1..(n + 1) : x # a => From(x) \in 1..n /\ t[x].pid = chars[From(x)].pid
        BY <1>8, <1>9
    <2>3. t[a].pid = n + 1
        BY <1>4, <1>6, <1>8
    <2>4. \A x \in 1..(n + 1) : x # a => t[x].pid # n + 1
        BY <2>1, <2>2
    <2>5. (q = a <=> r = a)
        BY <1>11, <2>3, <2>4
    <2>6. CASE q # a /\ r # a
        <3>1. PICK u, v : u = From(q) /\ v = From(r)
            OBVIOUS
        <3> HIDE DEF From
        <3>2. u \in 1..n /\ v \in 1..n /\ t[q].pid = chars[u].pid /\ t[r].pid = chars[v].pid
            BY <2>2, <2>6, <3>1
        <3>3. u = v
            BY <1>11, <2>1, <3>2
        <3> QED BY <1>6, <2>6, <3>1, <3>3 DEF From
    <2> QED BY <2>5, <2>6
<1>12. changes' \in 0..MaxChanges /\ Len(t) + (MaxChanges - changes') < Power.u64
    <2>1. changes \in 0..MaxChanges /\ n + (MaxChanges - changes) < Power.u64 /\ MaxChanges \in Nat
        BY <1>2, RepliesAssumption DEF Game
    <2>2. PICK m \in Nat : m = changes /\ m < MaxChanges
        BY <2>1
    <2>3. PICK w \in Nat : w = Power.u64
        BY WideNat
    <2>4. m + 1 \in 0..MaxChanges /\ (n + 1) + (MaxChanges - (m + 1)) < w
        BY <2>1, <2>2, <2>3
    <2> QED BY <1>8, <2>2, <2>3, <2>4
<1>13. AllProper(t)
    BY <1>7, <1>8, <1>10 DEF AllProper
<1>14. Game'
    BY <1>6, <1>8, <1>10, <1>11, <1>12, <1>13 DEF Game, AllProper
<1> QED BY <1>2, <1>3, <1>6, <1>7, <1>8, <1>14

\* Whatever the characters do, no answer is waiting.
LEMMA ChangedAnswers ==
    ASSUME NEW new, NEW waiting, Changed(new, waiting)
    PROVE  Answer' /\ chars' = new /\ changes < MaxChanges /\ changes' = changes + 1
BY DEF Changed, Answer, Quiet

LEMMA RisesAnswers ==
    ASSUME Game, NEW i \in DOMAIN chars, NEW c, Proper(c), c.pid = chars[i].pid, Rises(i, c)
    PROVE  Game' /\ Answer'
<1>1. Answer' /\ chars' = [chars EXCEPT ![i] = c] /\ changes < MaxChanges /\ changes' = changes + 1
    BY ChangedAnswers DEF Rises
<1> QED BY <1>1, RiseGame

LEMMA CreateIs ==
    ASSUME Game, NEW account \in Accounts, NEW name \in Names, Create(account, name)
    PROVE  /\ Answer' /\ changes < MaxChanges /\ changes' = changes + 1
           /\ account \in Nat /\ Text(name)
           /\ \E a \in 1..(Len(chars) + 1) :
                 chars' = InsertAt(chars, a, NewRow(Len(chars) + 1, account, name))
<1> DEFINE own == {i \in DOMAIN chars : chars[i].account = account}
           at == IF own = {} THEN Len(chars) + 1 ELSE Max(own) + 1
<1>1. Changed(InsertAt(chars, at, NewRow(Len(chars) + 1, account, name)), sweep.waiting)
    BY DEF Create
<1>2. PICK n \in Nat : n = Len(chars) /\ DOMAIN chars = 1..n
    BY LenNat
<1>3. own \in SUBSET (1..n)
    BY <1>2
<1> HIDE DEF own
<1>4. own # {} => Max(own) \in 1..n
    BY <1>2, <1>3, Greatest
<1>5. at \in 1..(n + 1)
    BY <1>2, <1>4
<1> HIDE DEF at
<1>6. account \in Nat /\ Text(name)
    BY RepliesAssumption
<1>7. /\ Answer' /\ changes < MaxChanges /\ changes' = changes + 1
      /\ chars' = InsertAt(chars, at, NewRow(Len(chars) + 1, account, name))
    BY <1>1, ChangedAnswers
<1> QED BY <1>2, <1>5, <1>6, <1>7

\* Every change of a character but taking off gear leaves it the better.
LEMMA RiseBetter ==
    ASSUME Game, NEW i \in DOMAIN chars,
           \/ LevelUp(i)
           \/ \E item \in Equipment : PutOn(i, item)
           \/ \E sid \in Range(ATTIRE_TYPES) : Refine(i, sid) \/ ClickBless(i, sid)
    PROVE  \E c : Better(c, chars[i]) /\ Rises(i, c)
<1>1. Proper(chars[i])
    BY DEF Game, AllProper
<1>2. PICK b : b = chars[i]
    OBVIOUS
<1>3. CASE LevelUp(i)
    <2>1. PICK c : c = [b EXCEPT !.level = @ + 1]
        OBVIOUS
    <2>2. Rises(i, c)
        BY <1>2, <1>3, <2>1 DEF LevelUp
    <2>3. Better(c, b)
        BY <1>1, <1>2, <2>1, LevelBetter
    <2> QED BY <1>2, <2>2, <2>3
<1>4. ASSUME NEW item \in Equipment, PutOn(i, item) PROVE \E c : Better(c, chars[i]) /\ Rises(i, c)
    <2>1. PICK c : c = [b EXCEPT !.gear = @ \cup {item}]
        OBVIOUS
    <2>2. Rises(i, c)
        BY <1>2, <1>4, <2>1 DEF PutOn
    <2>3. Better(c, b)
        BY <1>1, <1>2, <2>1, GearBetter
    <2> QED BY <1>2, <2>2, <2>3
<1>5. ASSUME NEW sid \in Range(ATTIRE_TYPES), Refine(i, sid)
      PROVE  \E c : Better(c, chars[i]) /\ Rises(i, c)
    <2>1. PICK c : c = [b EXCEPT !.exterior[sid].quality = @ + 1]
        OBVIOUS
    <2>2. Rises(i, c)
        BY <1>2, <1>5, <2>1 DEF Refine
    <2>3. Better(c, b)
        BY <1>1, <1>2, <2>1, QualityBetter
    <2> QED BY <1>2, <2>2, <2>3
<1>6. ASSUME NEW sid \in Range(ATTIRE_TYPES), ClickBless(i, sid)
      PROVE  \E c : Better(c, chars[i]) /\ Rises(i, c)
    <2>1. PICK c : c = [b EXCEPT !.exterior[sid].bless = @ + Bless]
        OBVIOUS
    <2>2. PICK d : d = [b EXCEPT !.exterior[sid] =
                           [level |-> @.level + 1, bless |-> 0, quality |-> @.quality]]
        OBVIOUS
    <2>3. Rises(i, c) \/ (b.exterior[sid].level < Len(ShowAttr[sid]) /\ Rises(i, d))
        BY <1>2, <1>6, <2>1, <2>2 DEF ClickBless
    <2>4. Better(c, b)
        BY <1>1, <1>2, <2>1, BlessBetter
    <2>5. b.exterior[sid].level < Len(ShowAttr[sid]) => Better(d, b)
        BY <1>1, <1>2, <2>2, TierBetter
    <2> QED BY <1>2, <2>3, <2>4, <2>5
<1> QED BY <1>3, <1>4, <1>5, <1>6

LEMMA TakeOffIs ==
    ASSUME Game, NEW i \in DOMAIN chars, NEW item \in Equipment, TakeOff(i, item)
    PROVE  \E c : /\ Proper(c) /\ c.pid = chars[i].pid /\ c.level = chars[i].level
                  /\ c.exterior = chars[i].exterior /\ c.gear = chars[i].gear \ {item}
                  /\ IF char_power(c) < char_power(chars[i]) /\ sweep.board \notin DOMAIN ATTIRE_BOARDS
                     THEN Changed([chars EXCEPT ![i] = c], {}) ELSE Rises(i, c)
<1>1. Proper(chars[i])
    BY DEF Game, AllProper
<1>2. PICK b : b = chars[i]
    OBVIOUS
<1>3. PICK c : c = [b EXCEPT !.gear = @ \ {item}]
    OBVIOUS
<1>4. /\ Proper(c) /\ c.pid = b.pid /\ c.level = b.level /\ c.exterior = b.exterior
      /\ c.gear = b.gear \ {item}
    BY <1>1, <1>2, <1>3, BareProper
<1>5. IF char_power(c) < char_power(b) /\ sweep.board \notin DOMAIN ATTIRE_BOARDS
      THEN Changed([chars EXCEPT ![i] = c], {}) ELSE Rises(i, c)
    BY <1>2, <1>3 DEF TakeOff
<1> QED BY <1>2, <1>4, <1>5

\* The requests.
Requests ==
    \/ ServerList \/ LoginGame
    \/ \E a, b \in Tokens, o, i \in {1, 2, 9}, pad \in Pads : ApiLogin(a, b, o, i, pad)
    \/ \E name \in DOMAIN Spelling : \E page \in Pages(name) : QueryRanking(name, page)
    \/ ShowQuery \/ ShopQuery \/ EquipInfo
    \/ \E item \in Items, count \in Counts, worn \in BOOLEAN :
              AddItem(Len(chars), item, count, worn)
    \/ \E count \in Counts : CountItem(Len(chars), count)

\* What makes a character better.
Raises(i) ==
    \/ LevelUp(i)
    \/ \E item \in Equipment : PutOn(i, item)
    \/ \E sid \in Range(ATTIRE_TYPES) : Refine(i, sid) \/ ClickBless(i, sid)

LEMMA NextIs ==
    ASSUME Next
    PROVE  \/ Receive \/ Requests
           \/ \E account \in Accounts, name \in Names : Create(account, name)
           \/ \E i \in DOMAIN chars : Raises(i) \/ \E item \in Equipment : TakeOff(i, item)
BY DEF Next, Requests, Raises

LEMMA RequestAnswers == ASSUME Game, Requests PROVE Game' /\ Answer'
<1>1. CASE ServerList
    BY <1>1, ServerListAnswers
<1>2. CASE LoginGame
    BY <1>2, LoginGameAnswers
<1>3. CASE \E a, b \in Tokens, o, i \in {1, 2, 9}, pad \in Pads : ApiLogin(a, b, o, i, pad)
    BY <1>3, ApiLoginAnswers
<1>4. CASE \E name \in DOMAIN Spelling : \E page \in Pages(name) : QueryRanking(name, page)
    BY <1>4, QueryAnswers
<1>5. CASE ShowQuery \/ ShopQuery \/ EquipInfo
    BY <1>5, ShowAnswers, ShopAnswers, EquipAnswers
<1>6. CASE \E item \in Items, count \in Counts, worn \in BOOLEAN :
              AddItem(Len(chars), item, count, worn)
    BY <1>6, AddAnswers
<1>7. CASE \E count \in Counts : CountItem(Len(chars), count)
    BY <1>7, CountAnswers
<1> QED BY <1>1, <1>2, <1>3, <1>4, <1>5, <1>6, <1>7 DEF Requests

LEMMA CreateAnswers ==
    ASSUME Game, NEW account \in Accounts, NEW name \in Names, Create(account, name)
    PROVE  Game' /\ Answer'
<1>1. /\ Answer' /\ changes < MaxChanges /\ changes' = changes + 1 /\ account \in Nat /\ Text(name)
    BY CreateIs
<1>2. PICK a \in 1..(Len(chars) + 1) :
          chars' = InsertAt(chars, a, NewRow(Len(chars) + 1, account, name))
    BY CreateIs
<1> QED BY <1>1, <1>2, CreateGame

LEMMA RaisesAnswers == ASSUME Game, NEW i \in DOMAIN chars, Raises(i) PROVE Game' /\ Answer'
<1>1. PICK c : Better(c, chars[i]) /\ Rises(i, c)
    BY RiseBetter DEF Raises
<1>2. Proper(c) /\ c.pid = chars[i].pid
    BY <1>1 DEF Better
<1> QED BY <1>1, <1>2, RisesAnswers

LEMMA TakeOffAnswers ==
    ASSUME Game, NEW i \in DOMAIN chars, NEW item \in Equipment, TakeOff(i, item)
    PROVE  Game' /\ Answer'
<1>1. PICK c : /\ Proper(c) /\ c.pid = chars[i].pid
               /\ Changed([chars EXCEPT ![i] = c], {}) \/ Rises(i, c)
    BY TakeOffIs
<1>2. CASE Changed([chars EXCEPT ![i] = c], {})
    <2>1. Answer' /\ chars' = [chars EXCEPT ![i] = c] /\ changes < MaxChanges /\ changes' = changes + 1
        BY <1>2, ChangedAnswers
    <2> QED BY <1>1, <2>1, RiseGame
<1>3. CASE Rises(i, c)
    BY <1>1, <1>3, RisesAnswers
<1> QED BY <1>1, <1>2, <1>3

LEMMA ReceiveAnswers == ASSUME Game, Receive PROVE Game' /\ Answer'
BY GameKept DEF Receive, Answer

\* Every step keeps the invariant.
LEMMA StepAnswers == ASSUME Game, Answer, [Next]_vars PROVE Game' /\ Answer'
<1>1. CASE Next
    <2>1. CASE Receive
        BY <2>1, ReceiveAnswers
    <2>2. CASE Requests
        BY <2>2, RequestAnswers
    <2>3. CASE \E account \in Accounts, name \in Names : Create(account, name)
        BY <2>3, CreateAnswers
    <2>4. CASE \E i \in DOMAIN chars : Raises(i) \/ \E item \in Equipment : TakeOff(i, item)
        BY <2>4, RaisesAnswers, TakeOffAnswers
    <2> QED BY <1>1, <2>1, <2>2, <2>3, <2>4, NextIs
<1>2. CASE UNCHANGED vars
    <2>1. chars' = chars /\ changes' = changes /\ reply' = reply
        BY <1>2 DEF vars
    <2>2. Game'
        BY <2>1, GameKept
    <2>3. ASSUME NEW name, NEW page PROVE MeantRank(name, page)' = MeantRank(name, page)
        BY <2>1 DEF MeantRank
    <2>4. Blobbed' <=> Blobbed
        BY <2>1 DEF Blobbed
    <2>5. Written => Written'
        BY <2>1, <2>3 DEF Written
    <2>6. Cut' <=> Cut
        BY <2>1 DEF Cut
    <2> QED BY <2>1, <2>2, <2>4, <2>5, <2>6 DEF Answer
<1> QED BY <1>1, <1>2

LEMMA InitAnswers == ASSUME Init PROVE Game /\ Answer
<1>1. chars \in Stores /\ reply = Nothing /\ changes = 0
    BY DEF Init
<1>2. /\ chars \in Seq(Range(chars)) /\ \A c \in Range(chars) : Proper(c)
      /\ \A i, j \in DOMAIN chars : chars[i].pid \in 1..Len(chars) /\ (chars[i].pid = chars[j].pid => i = j)
      /\ Len(chars) + MaxChanges < Power.u64 /\ MaxChanges \in Nat
    BY <1>1, RepliesAssumption
<1>3. Len(chars) \in Nat /\ DOMAIN chars = 1..Len(chars) /\ chars \in [1..Len(chars) -> Range(chars)]
    BY <1>2, LenProperties
<1>4. \A i \in DOMAIN chars : Proper(chars[i]) /\ chars[i] \in Characters
    BY <1>2, <1>3 DEF Proper
<1>5. chars \in [1..Len(chars) -> Characters]
    BY <1>3, <1>4
<1>6. chars \in Seq(Characters)
    BY <1>3, <1>5, FunctionIsSeq
<1>7. changes \in 0..MaxChanges /\ Len(chars) + (MaxChanges - changes) < Power.u64
    BY <1>1, <1>2, <1>3
<1>8. Game
    BY <1>2, <1>4, <1>6, <1>7 DEF Game, AllProper
<1> QED BY <1>1, <1>8 DEF Answer

(***************************************************************************)
(* What Replies promises.                                                  *)
(***************************************************************************)

\* The invariant: the characters are as the game keeps them, ids given out once and in
\* order; an answer that waits is the writing of what was meant, by a layout it fits,
\* and a board's answer was meant from the characters there are.
IInv == Game /\ Answer

\* Every request answers with what it meant, and every change waits for the answer.
THEOREM IInvHolds == Spec => []IInv
<1>1. Init => IInv
    BY InitAnswers DEF IInv
<1>2. IInv /\ [Next]_vars => IInv'
    BY StepAnswers DEF IInv
<1> QED BY <1>1, <1>2, PTL DEF Spec

\* An answer that was written is read as it was meant.
LEMMA WrittenRead == ASSUME Written PROVE Parsed(reply.layout, reply.body) = Fitted(reply.layout, reply.meant)
<1>1. PICK layout, meant, body : layout = reply.layout /\ meant = reply.meant /\ body = reply.body
    OBVIOUS
<1>2. Fits(layout, meant) /\ body = Write(layout, meant) /\ Len(body) <= MaxBody
    BY <1>1 DEF Written
<1>3. Len(body) < Power.u32
    <2>1. PICK n \in Nat : n = Len(body)
        BY <1>2, WriteType
    <2>2. PICK w \in Nat : w = Power.u32
        BY Sizes
    <2>3. MaxBody \in Nat /\ MaxBody < w /\ n <= MaxBody
        BY <1>2, <2>1, <2>2, RepliesAssumption
    <2> QED BY <2>1, <2>2, <2>3
<1> QED BY <1>1, <1>2, <1>3, MessageRead

LEMMA AnswerTold == ASSUME Answer, Told PROVE Written
<1>1. reply # Nothing /\ reply # Waiting
    BY KindMarks DEF Told
<1>2. ~Blobbed /\ ~Cut
    BY KindMarks DEF Told, Blobbed, Cut
<1> QED BY <1>1, <1>2 DEF Answer

\* The client reads every answer of the game as it was meant, whatever was asked, in
\* whatever order, however the characters have changed: codec.py's two sides agree on
\* every message gateway.py, ranking.py, items.py and luaproto.py send.
THEOREM RepliesAreRead == Spec => []ReplyRead
<1>1. IInv => ReplyRead
    BY AnswerTold, WrittenRead DEF IInv, ReplyRead
<1> QED BY <1>1, IInvHolds, PTL

\* The server list and the session come out of serinfo.py's encoding as they went in,
\* the session through a query; one is refused only where its junk ends the query's value.
THEOREM BlobsAreRead == Spec => []BlobRead
<1>1. ASSUME IInv, reply.kind \in Blobs PROVE decode_serinfo(reply.body) = reply.meant
    <2>1. Blobbed
        <3>1. reply # Nothing /\ reply # Waiting
            BY <1>1, KindMarks
        <3>2. ~Written /\ ~Cut
            BY <1>1, KindMarks DEF Written, Cut
        <3> QED BY <1>1, <3>1, <3>2 DEF IInv, Answer
    <2>2. reply.meant \in Seq(0..255) /\ reply.body = encode_serinfo(reply.meant, 1, 1, 90)
        BY <2>1 DEF Blobbed
    <2>3. 1 \in 0..9 /\ 90 \in Ascii
        BY DEF Ascii
    <2> QED BY <2>2, <2>3, BlobIsRead
<1>2. ASSUME IInv, reply.kind = <<"refused">> PROVE reply.junk \in Cuts
    <2>1. reply # Nothing /\ reply # Waiting
        BY <1>2, KindMarks
    <2>2. ~Written /\ ~Blobbed
        BY <1>2, KindMarks DEF Written, Blobbed
    <2>3. Cut
        BY <1>2, <2>1, <2>2 DEF IInv, Answer
    <2> QED BY <2>3 DEF Cut
<1>3. IInv => BlobRead
    BY <1>1, <1>2 DEF BlobRead
<1> QED BY <1>3, IInvHolds, PTL

-----------------------------------------------------------------------------
(* What a client reads of a board by power or level. *)

Long(a, b, c) == Len(a) = 4 /\ Len(b) = 6 /\ Len(c) = 2

LEMMA FourSixTwo ==
    ASSUME NEW S, NEW s, NEW a, NEW b, NEW c, Three(S, s, a, b, c), Long(a, b, c)
    PROVE  s \in Seq(S) /\ Len(s) = 12 /\ s[4] = a[4] /\ s[11] = c[1] /\ s[12] = c[2]
<1>1. /\ s \in Seq(S) /\ Len(s) = Len(a) + Len(b) + Len(c)
      /\ \A i \in 1..Len(a) : s[i] = a[i]
      /\ \A i \in 1..Len(c) : s[Len(a) + Len(b) + i] = c[i]
    BY Between
<1>2. Len(s) = 12 /\ s[4] = a[4]
    BY <1>1 DEF Long
<1>3. s[11] = c[1] /\ s[12] = c[2]
    <2>1. PICK u, v : u = Len(a) + Len(b) + 1 /\ v = Len(a) + Len(b) + 2
        OBVIOUS
    <2>2. u = 11 /\ v = 12
        BY <2>1 DEF Long
    <2>3. s[u] = c[1] /\ s[v] = c[2]
        BY <1>1, <2>1 DEF Long
    <2> QED BY <2>2, <2>3
<1> QED BY <1>1, <1>2, <1>3

Normal == <<u64, u32, str, u16, u8, str>>

HeadOf(c, power) == <<c.pid, power, c.name, c.level, 0, <<>> >>

LEMMA NormalIs ==
    ASSUME NEW name, kind_of(name) = "NORMAL"
    PROVE  /\ RankLayout(name) = <<u32, str, u8, u8>> \o Normal \o <<List(Normal), u8>>
           /\ \A c, power : Info("NORMAL", c, power) = HeadOf(c, power)
<1>1. InfoLayout["NORMAL"] = Normal
    BY DEF InfoLayout, Normal
<1>2. RankLayout(name) = <<u32, str, u8, u8>> \o Normal \o <<List(Normal), u8>>
    BY <1>1 DEF RankLayout
<1>3. \A c, power : Info("NORMAL", c, power) = HeadOf(c, power)
    BY DEF Info, HeadOf
<1> QED BY <1>2, <1>3

LEMMA NormalParts ==
    ASSUME NEW name, kind_of(name) = "NORMAL", NEW layout, layout = RankLayout(name)
    PROVE  Len(layout) = 12 /\ DOMAIN layout = 1..12
           /\ layout[4] = u8 /\ layout[11] = List(Normal) /\ layout[12] = u8
<1> DEFINE a == <<u32, str, u8, u8>>
           c == <<List(Normal), u8>>
           b == Normal
           S == Simples \cup {List(Normal)}
<1>1. u8 \in S /\ u16 \in S /\ u32 \in S /\ u64 \in S /\ str \in S /\ List(Normal) \in S
    BY DEF Simples
<1> HIDE DEF S
<1>2. a \in Seq(S) /\ Len(a) = 4 /\ a[4] = u8
    BY <1>1
<1>3. b \in Seq(S) /\ Len(b) = 6
    BY <1>1 DEF Normal
<1>4. c \in Seq(S) /\ Len(c) = 2 /\ c[1] = List(Normal) /\ c[2] = u8
    BY <1>1
<1>5. layout = a \o b \o c
    BY NormalIs
<1> HIDE DEF a, b, c
<1>7. Three(S, layout, a, b, c) /\ Long(a, b, c)
    BY <1>2, <1>3, <1>4, <1>5 DEF Three, Long
<1>6. /\ layout \in Seq(S) /\ Len(layout) = 12 /\ layout[4] = a[4] /\ layout[11] = c[1]
      /\ layout[12] = c[2]
    BY <1>7, FourSixTwo
<1> QED BY <1>2, <1>4, <1>6, LenProperties

\* Where index, entries and last page stand in a board's message.
LEMMA MeantParts ==
    ASSUME NEW name, kind_of(name) = "NORMAL", NEW page, NEW index, NEW mine, NEW entries, NEW last,
           NEW meant, meant = RankMessage(name, page, index, mine, entries, last)
    PROVE  /\ meant[4] = index /\ meant[12] = last
           /\ meant[11] = [i \in DOMAIN entries |-> HeadOf(entries[i], PowerOn(name, entries[i]))]
<1> DEFINE p == IF index = 0 THEN char_power(mine) ELSE PowerOn(name, mine)
           a == <<0, Spelling[name], page, index>>
           b == HeadOf(mine, p)
           es == [i \in DOMAIN entries |-> HeadOf(entries[i], PowerOn(name, entries[i]))]
           c == <<es, last>>
           S == {0, Spelling[name], page, index, mine.pid, p, mine.name, mine.level, <<>>, es, last}
<1>1. meant = a \o b \o c
    BY NormalIs DEF RankMessage
<1> HIDE DEF p, es
<1>2. a \in Seq(S) /\ Len(a) = 4 /\ a[4] = index
    OBVIOUS
<1>3. b \in Seq(S) /\ Len(b) = 6
    BY DEF HeadOf
<1>4. c \in Seq(S) /\ Len(c) = 2 /\ c[1] = es /\ c[2] = last
    OBVIOUS
<1> HIDE DEF a, b, c, S
<1>6. Three(S, meant, a, b, c) /\ Long(a, b, c)
    BY <1>1, <1>2, <1>3, <1>4 DEF Three, Long
<1>5. meant[4] = a[4] /\ meant[11] = c[1] /\ meant[12] = c[2]
    BY <1>6, FourSixTwo
<1> QED BY <1>2, <1>4, <1>5 DEF es

ReadAs(read, name, index, entries, last) ==
    /\ Len(read) = 12 /\ read # <<>> /\ read[4] = index % Byte /\ read[12] = last % Byte
    /\ DOMAIN read[11] = DOMAIN entries
    /\ \A r \in DOMAIN entries : /\ read[11][r][1] = entries[r].pid % Power.u64
                                 /\ read[11][r][2] = PowerOn(name, entries[r]) % Power.u32

LEMMA HeadRead ==
    ASSUME NEW c, NEW power, NEW t, t = FittedStruct(Normal, HeadOf(c, power))
    PROVE  t[1] = c.pid % Power.u64 /\ t[2] = power % Power.u32
<1>1. DOMAIN Normal = 1..6 /\ Normal[1] = u64 /\ Normal[2] = u32
    BY DEF Normal
<1>2. HeadOf(c, power)[1] = c.pid /\ HeadOf(c, power)[2] = power
    BY DEF HeadOf
<1>3. t[1] = FittedSimple(u64, c.pid) /\ t[2] = FittedSimple(u32, power)
    BY <1>1, <1>2 DEF FittedStruct
<1> QED BY <1>3, Marks, Sizes DEF FittedSimple

LEMMA RankRead ==
    ASSUME NEW name, kind_of(name) = "NORMAL", NEW page, NEW index, NEW mine, NEW entries, NEW last,
           NEW read, read = Fitted(RankLayout(name), RankMessage(name, page, index, mine, entries, last))
    PROVE  ReadAs(read, name, index, entries, last)
<1>1. PICK layout, meant : /\ layout = RankLayout(name)
                           /\ meant = RankMessage(name, page, index, mine, entries, last)
    OBVIOUS
<1>2. /\ Len(layout) = 12 /\ DOMAIN layout = 1..12
      /\ layout[4] = u8 /\ layout[11] = List(Normal) /\ layout[12] = u8
    BY <1>1, NormalParts
<1>3. /\ meant[4] = index /\ meant[12] = last
      /\ meant[11] = [i \in DOMAIN entries |-> HeadOf(entries[i], PowerOn(name, entries[i]))]
    BY <1>1, MeantParts
<1>4. read = [i \in 1..12 |-> FittedField(layout[i], meant[i])]
    BY <1>1, <1>2 DEF Fitted
<1>5. Len(read) = 12 /\ read # <<>>
    <2> DEFINE S == {read[i] : i \in 1..12}
    <2>1. read \in [1..12 -> S]
        BY <1>4
    <2> HIDE DEF S
    <2>2. read \in Seq(S) /\ Len(read) = 12
        BY <2>1, FunctionIsSeq
    <2> QED BY <2>2
<1>6. read[4] = index % Byte /\ read[12] = last % Byte
    <2>1. read[4] = FittedField(u8, index) /\ read[12] = FittedField(u8, last)
        BY <1>2, <1>3, <1>4
    <2> QED BY <2>1, Marks, Sizes DEF FittedField, FittedSimple
<1>7. read[11] = [i \in DOMAIN entries |-> FittedStruct(Normal, HeadOf(entries[i], PowerOn(name, entries[i])))]
    <2>1. PICK v : v = meant[11]
        OBVIOUS
    <2>2. read[11] = FittedField(List(Normal), v)
        BY <1>2, <1>4, <2>1
    <2>3. FittedField(List(Normal), v) = [i \in DOMAIN v |-> FittedStruct(Normal, v[i])]
        BY Marks DEF FittedField
    <2>4. DOMAIN v = DOMAIN entries
          /\ \A i \in DOMAIN entries : v[i] = HeadOf(entries[i], PowerOn(name, entries[i]))
        BY <1>3, <2>1
    <2> QED BY <2>2, <2>3, <2>4
<1>8. ASSUME NEW r \in DOMAIN entries
      PROVE  /\ read[11][r][1] = entries[r].pid % Power.u64
             /\ read[11][r][2] = PowerOn(name, entries[r]) % Power.u32
    <2>1. read[11][r] = FittedStruct(Normal, HeadOf(entries[r], PowerOn(name, entries[r])))
        BY <1>7
    <2> QED BY <2>1, HeadRead
<1> QED BY <1>5, <1>6, <1>7, <1>8 DEF ReadAs

-----------------------------------------------------------------------------
(* Places on a board. *)

Distinct(s) == \A i, j \in DOMAIN s : s[i].pid = s[j].pid => i = j

\* How many are ahead of the i-th character on a board.
AheadIn(name, s, i) == Cardinality({j \in DOMAIN s :
                                       \/ Above(Keys(name, s[j]), Keys(name, s[i]))
                                       \/ Keys(name, s[j]) = Keys(name, s[i]) /\ j < i})

LEMMA AheadIs ==
    ASSUME NEW name, NEW s, AllProper(s), NEW i \in DOMAIN s
    PROVE  AheadIn(name, s, i) = Cardinality({j \in 1..Len(s) : Before(KeysOf(name, s), j, i)})
<1>1. DOMAIN s = 1..Len(s)
    BY KeysType
<1>2. ASSUME NEW j \in DOMAIN s
      PROVE  Before(KeysOf(name, s), j, i)
                <=> \/ Above(Keys(name, s[j]), Keys(name, s[i]))
                    \/ Keys(name, s[j]) = Keys(name, s[i]) /\ j < i
    BY DEF Before, KeysOf
<1>3. {j \in DOMAIN s : \/ Above(Keys(name, s[j]), Keys(name, s[i]))
                        \/ Keys(name, s[j]) = Keys(name, s[i]) /\ j < i}
        = {j \in 1..Len(s) : Before(KeysOf(name, s), j, i)}
    BY <1>1, <1>2
<1> QED BY <1>3 DEF AheadIn

\* Everybody is on the board once, behind those that are ahead.
LEMMA PlaceIs ==
    ASSUME NEW name, NEW s, AllProper(s), Distinct(s), NEW i \in DOMAIN s
    PROVE  \E r \in 1..Len(s) :
              /\ Ranked(name, s)[r] = s[i] /\ AheadIn(name, s, i) = r - 1
              /\ \A q \in 1..Len(s) : Ranked(name, s)[q].pid = s[i].pid => q = r
<1>1. /\ Len(s) \in Nat /\ DOMAIN s = 1..Len(s)
      /\ KeysOf(name, s) \in [1..Len(s) -> Nat \X Nat]
    BY KeysType
<1>2. PICK o : o = OrderOf(name, s)
    OBVIOUS
<1>3. /\ InOrder(KeysOf(name, s), o, Len(s))
      /\ Ranked(name, s) = [r \in 1..Len(s) |-> s[o[r]]]
    BY <1>2, RankedIs
<1>4. /\ \A k \in 1..Len(s) : \E r \in 1..Len(s) : o[r] = k
      /\ \A r \in 1..Len(s) : /\ o[r] \in 1..Len(s)
                              /\ Cardinality({j \in 1..Len(s) : Before(KeysOf(name, s), j, o[r])}) = r - 1
      /\ \A q, r \in 1..Len(s) : o[q] = o[r] => q = r
    BY <1>1, <1>3, Places
<1>5. PICK r \in 1..Len(s) : o[r] = i
    BY <1>1, <1>4
<1>6. Ranked(name, s)[r] = s[i]
    BY <1>3, <1>5
<1>7. AheadIn(name, s, i) = r - 1
    <2>1. Cardinality({j \in 1..Len(s) : Before(KeysOf(name, s), j, i)}) = r - 1
        BY <1>4, <1>5
    <2> QED BY <2>1, AheadIs
<1>8. ASSUME NEW q \in 1..Len(s), Ranked(name, s)[q].pid = s[i].pid PROVE q = r
    <2>1. Ranked(name, s)[q] = s[o[q]] /\ o[q] \in DOMAIN s
        BY <1>1, <1>3, <1>4
    <2>2. o[q] = i
        BY <1>8, <2>1 DEF Distinct
    <2> QED BY <1>4, <1>5, <2>2
<1> QED BY <1>5, <1>6, <1>7, <1>8

\* The place on a page: a page from a on holds what a and the places on it make up.
AtPlace(page, p, r, k) == page * p + k = r <=> (r - 1) \div p = page /\ (r - 1) % p = k - 1

\* A place is on one page, and there at one line.
LEMMA OnPage ==
    ASSUME NEW page \in Nat, NEW p \in Nat \ {0}, NEW r \in Nat \ {0}, NEW k \in 1..p
    PROVE  AtPlace(page, p, r, k)
<1> SUFFICES page * p + k = r <=> (r - 1) \div p = page /\ (r - 1) % p = k - 1
    BY DEF AtPlace
<1>1. PICK n \in Nat : n = r - 1
    OBVIOUS
<1>2. PICK m \in Nat : m = k - 1
    OBVIOUS
<1>3. PICK q, t : q = n \div p /\ t = n % p
    OBVIOUS
<1>4. q \in Nat /\ t \in Nat /\ t < p /\ n = p * q + t
    BY <1>3, Divided
<1>5. PICK a : a = p * page /\ a = page * p
    OBVIOUS
<1>6. a \in Nat
    BY <1>5
<1>7. CASE page * p + k = r
    <2>1. n = p * page + m /\ m < p
        BY <1>1, <1>2, <1>5, <1>6, <1>7
    <2>2. n % p = m /\ n \div p = page
        BY <1>2, <2>1, ModIs
    <2> QED BY <1>1, <1>2, <1>7, <2>2
<1>8. CASE n \div p = page /\ n % p = m
    <2>1. n = a + m
        BY <1>3, <1>4, <1>5, <1>8
    <2> QED BY <1>1, <1>2, <1>5, <1>6, <1>8, <2>1
<1> QED BY <1>1, <1>2, <1>7, <1>8

\* Who is shown on a page.
PlaceOnPage(ahead, page) == IF ahead \div RANK_PAGE_SIZE = page THEN {(ahead % RANK_PAGE_SIZE) + 1} ELSE {}

\* A page shows a character where its place is on the page, and nowhere else.
LEMMA ShownIs ==
    ASSUME NEW name, NEW s, AllProper(s), Distinct(s), NEW page \in Nat,
           NEW shown, shown = PageOf(Ranked(name, s), page), NEW i \in DOMAIN s
    PROVE  {k \in DOMAIN shown : shown[k].pid = s[i].pid} = PlaceOnPage(AheadIn(name, s, i), page)
<1>1. PICK e : e = Ranked(name, s)
    OBVIOUS
<1>2. e \in Seq(Characters) /\ Len(e) = Len(s) /\ Len(s) \in Nat
    BY <1>1, RankedIs, KeysType
<1>3. PICK from : from = page * RANK_PAGE_SIZE
    OBVIOUS
<1>4. IsPage(shown, e, from)
    BY <1>1, <1>2, <1>3, PageIs
<1>5. PICK r \in 1..Len(s) : /\ e[r] = s[i] /\ AheadIn(name, s, i) = r - 1
                              /\ \A q \in 1..Len(s) : e[q].pid = s[i].pid => q = r
    BY <1>1, PlaceIs
<1>6. PICK p \in Nat \ {0} : p = RANK_PAGE_SIZE
    BY RankingAssumption
<1>7. r \in Nat \ {0} /\ from \in Nat
    BY <1>2, <1>4, <1>5 DEF IsPage
<1>8. ASSUME NEW k \in 1..p
      PROVE  from + k = r <=> (r - 1) \div p = page /\ (r - 1) % p = k - 1
    <2>1. page \in Nat /\ p \in Nat \ {0} /\ r \in Nat \ {0} /\ k \in 1..p
        BY <1>6, <1>7
    <2>2. AtPlace(page, p, r, k)
        BY <2>1, OnPage
    <2>3. page * p + k = r <=> (r - 1) \div p = page /\ (r - 1) % p = k - 1
        BY <2>2 DEF AtPlace
    <2> QED BY <1>3, <1>6, <2>3
<1>9. DOMAIN shown \subseteq 1..p /\ DOMAIN shown = 1..Len(shown) /\ Len(shown) \in Nat
    <2>1. DOMAIN shown = 1..Len(shown) /\ Len(shown) \in Nat
        BY <1>4 DEF IsPage
    <2>2. ASSUME NEW k \in 1..Len(shown) PROVE k \in 1..p
        <3>1. from + k \in 1..Len(e)
            BY <1>4 DEF IsPage
        <3>2. (from + k) - from = k
            BY <1>7
        <3> QED BY <1>4, <1>6, <3>1, <3>2 DEF IsPage
    <2> QED BY <2>1, <2>2
<1>10. ASSUME NEW k \in DOMAIN shown PROVE shown[k].pid = s[i].pid <=> from + k = r
    <2>1. from + k \in 1..Len(s) /\ shown[k] = e[from + k]
        BY <1>2, <1>4, <1>9 DEF IsPage
    <2> QED BY <1>5, <2>1
<1>11. ASSUME NEW k \in 1..p, from + k = r PROVE k \in DOMAIN shown
    <2>1. r - from = k
        BY <1>7, <1>11
    <2>2. r \in 1..Len(e)
        BY <1>2, <1>5
    <2> QED BY <1>4, <1>6, <1>9, <2>1, <2>2 DEF IsPage
<1>12. PICK n \in Nat : n = r - 1
    BY <1>7
<1>13. n % p \in 0..(p - 1)
    BY <1>12, Quotient
<1>14. CASE n \div p = page
    <2>1. PICK m \in 0..(p - 1) : m = n % p
        BY <1>13
    <2>2. m + 1 \in 1..p /\ (m + 1) - 1 = m
        OBVIOUS
    <2>3. from + (m + 1) = r
        BY <1>8, <1>12, <1>14, <2>1, <2>2
    <2>4. m + 1 \in DOMAIN shown /\ shown[m + 1].pid = s[i].pid
        BY <1>10, <1>11, <2>2, <2>3
    <2>5. \A k \in DOMAIN shown : shown[k].pid = s[i].pid => k = m + 1
        BY <1>7, <1>9, <1>10, <2>3
    <2>6. {k \in DOMAIN shown : shown[k].pid = s[i].pid} = {m + 1}
        BY <2>4, <2>5
    <2> QED BY <1>5, <1>6, <1>12, <1>14, <2>1, <2>6 DEF PlaceOnPage
<1>15. CASE n \div p # page
    <2>1. \A k \in DOMAIN shown : shown[k].pid # s[i].pid
        BY <1>8, <1>9, <1>10, <1>12, <1>15
    <2> QED BY <1>5, <1>6, <1>12, <1>15, <2>1 DEF PlaceOnPage
<1> QED BY <1>14, <1>15

\* Where a search finds a character of the board.
LEMMA IndexIs ==
    ASSUME NEW name, NEW s, AllProper(s), Distinct(s), NEW i \in DOMAIN s, NEW index,
           index = FoundIn(Ranked(name, s), s[i].pid)
    PROVE  index = AheadIn(name, s, i) + 1
<1>1. PICK e : e = Ranked(name, s)
    OBVIOUS
<1>2. Len(e) = Len(s) /\ Len(s) \in Nat
    BY <1>1, RankedIs, KeysType
<1>3. PICK r \in 1..Len(s) : /\ e[r] = s[i] /\ AheadIn(name, s, i) = r - 1
                              /\ \A q \in 1..Len(s) : e[q].pid = s[i].pid => q = r
    BY <1>1, PlaceIs
<1>4. PICK p : p = s[i].pid
    OBVIOUS
<1>5. /\ index \in Nat /\ (index # 0 => index \in 1..Len(e) /\ e[index].pid = p)
      /\ index = 0 => \A q \in 1..Len(e) : e[q].pid # p
    <2>1. index = FoundIn(e, p) /\ Len(e) \in Nat
        BY <1>1, <1>2, <1>4
    <2> QED BY <2>1, FoundIs
<1>6. index # 0
    BY <1>2, <1>3, <1>4, <1>5
<1>7. index = r
    BY <1>2, <1>3, <1>4, <1>5, <1>6
<1> QED BY <1>2, <1>3, <1>7

LEMMA WrittenRank ==
    ASSUME Game, Written, NEW name \in DOMAIN Spelling, kind_of(name) = "NORMAL", NEW page \in Nat,
           reply.kind = <<"rank", name, page>>,
           NEW read, read = Parsed(reply.layout, reply.body)
    PROVE  ReadAs(read, name, FoundIn(Ranked(name, chars), Me), PageOf(Ranked(name, chars), page),
                  MaxPage(Ranked(name, chars)))
<1>1. reply.layout = RankLayout(name) /\ reply.meant = MeantIn(name, page, chars)
    BY DEF Written, MeantRank
<1>2. read = Fitted(RankLayout(name), MeantIn(name, page, chars))
    BY <1>1, WrittenRead
<1>3. PICK e : e = Ranked(name, chars)
    OBVIOUS
<1>4. PICK index, mine, shown, last :
          /\ index = FoundIn(e, Me) /\ mine = RowOf(chars)
          /\ shown = PageOf(e, page) /\ last = MaxPage(e)
    OBVIOUS
<1>5. MeantIn(name, page, chars) = RankMessage(name, page, index, mine, shown, last)
    BY <1>3, <1>4 DEF MeantIn, Entries, FoundIn
<1>6. ReadAs(read, name, index, shown, last)
    BY <1>2, <1>5, RankRead
<1> QED BY <1>3, <1>4, <1>6

\* An id is not too large for its field.
LEMMA PidFits == ASSUME Game, NEW i \in DOMAIN chars PROVE chars[i].pid % Power.u64 = chars[i].pid
<1>1. PICK n \in Nat : n = Len(chars)
    BY LenNat
<1>2. PICK w \in Nat : w = Power.u64
    BY WideNat
<1>3. PICK p : p = chars[i].pid
    OBVIOUS
<1>4. p \in 1..n
    BY <1>1, <1>3 DEF Game
<1>5. n < w
    <2>1. changes \in 0..MaxChanges /\ n + (MaxChanges - changes) < w /\ MaxChanges \in Nat
        BY <1>1, <1>2, RepliesAssumption DEF Game
    <2>2. PICK m \in Nat : m = MaxChanges - changes
        BY <2>1
    <2> QED BY <2>1, <2>2
<1>6. p % w = p
    BY <1>4, <1>5, ModIs
<1> QED BY <1>2, <1>3, <1>6

\* A page of a board is read with its ids as they are.
LEMMA ShownRead ==
    ASSUME Game, NEW name, NEW page \in Nat, NEW shown, shown = PageOf(Ranked(name, chars), page),
           NEW k \in DOMAIN shown
    PROVE  /\ shown[k] \in Range(chars) /\ shown[k].pid % Power.u64 = shown[k].pid
<1>1. PICK e : e = Ranked(name, chars)
    OBVIOUS
<1>2. /\ e \in Seq(Characters) /\ Len(e) = Len(chars)
      /\ e = [r \in 1..Len(chars) |-> chars[OrderOf(name, chars)[r]]]
      /\ \A r \in 1..Len(chars) : OrderOf(name, chars)[r] \in 1..Len(chars)
    BY <1>1, RankedIs DEF Game
<1>3. PICK from : from = page * RANK_PAGE_SIZE
    OBVIOUS
<1>4. IsPage(shown, e, from)
    BY <1>1, <1>2, <1>3, PageIs
<1>5. from + k \in 1..Len(e) /\ shown[k] = e[from + k]
    BY <1>4 DEF IsPage
<1>6. PICK i : i = OrderOf(name, chars)[from + k]
    OBVIOUS
<1>7. i \in DOMAIN chars /\ shown[k] = chars[i]
    BY <1>2, <1>5, <1>6, LenNat
<1> QED BY <1>7, PidFits DEF Range

\* What RankTrue says of one board and page.
LEMMA RankIsTrue ==
    ASSUME Game, Written, NEW name \in DOMAIN Spelling, kind_of(name) = "NORMAL", NEW page \in Nat,
           reply.kind = <<"rank", name, page>>,
           NEW read, read = Parsed(reply.layout, reply.body), NEW shown, shown = read[Len(read) - 1]
    PROVE  /\ \A i \in DOMAIN chars :
                 /\ chars[i].pid = Me /\ AheadIn(name, chars, i) + 1 < Byte
                       => read[4] = AheadIn(name, chars, i) + 1
                 /\ {k \in DOMAIN shown : shown[k][1] = chars[i].pid}
                       = PlaceOnPage(AheadIn(name, chars, i), page)
           /\ \A k \in DOMAIN shown : \E c \in Range(chars) :
                 c.pid = shown[k][1] /\ shown[k][2] = PowerOn(name, c) % Power.u32
<1>1. PICK e : e = Ranked(name, chars)
    OBVIOUS
<1>2. PICK index, rows, last : index = FoundIn(e, Me) /\ rows = PageOf(e, page) /\ last = MaxPage(e)
    OBVIOUS
<1>3. ReadAs(read, name, index, rows, last)
    BY <1>1, <1>2, WrittenRank
<1>4. /\ Len(read) - 1 = 11 /\ read[4] = index % Byte /\ shown = read[11] /\ DOMAIN shown = DOMAIN rows
      /\ \A r \in DOMAIN rows : /\ shown[r][1] = rows[r].pid % Power.u64
                                /\ shown[r][2] = PowerOn(name, rows[r]) % Power.u32
    BY <1>3 DEF ReadAs
<1>5. \A r \in DOMAIN rows : rows[r] \in Range(chars) /\ shown[r][1] = rows[r].pid
    BY <1>1, <1>2, <1>4, ShownRead
<1>6. AllProper(chars) /\ Distinct(chars)
    BY DEF Game, Distinct
<1>7. ASSUME NEW i \in DOMAIN chars, chars[i].pid = Me, AheadIn(name, chars, i) + 1 < Byte
      PROVE  read[4] = AheadIn(name, chars, i) + 1
    <2>1. index = AheadIn(name, chars, i) + 1
        BY <1>1, <1>2, <1>6, <1>7, IndexIs
    <2>2. AheadIn(name, chars, i) \in Nat
        <3>1. PICK r \in 1..Len(chars) :
                  /\ Ranked(name, chars)[r] = chars[i] /\ AheadIn(name, chars, i) = r - 1
                  /\ \A q \in 1..Len(chars) : Ranked(name, chars)[q].pid = chars[i].pid => q = r
            BY <1>6, PlaceIs
        <3> QED BY <3>1, LenNat
    <2>3. index \in Nat /\ index < Byte /\ Byte \in Nat
        BY <1>7, <2>1, <2>2, CodecAssumption
    <2>4. index % Byte = index
        BY <2>3, ModIs
    <2> QED BY <1>4, <2>1, <2>4
<1>8. ASSUME NEW i \in DOMAIN chars
      PROVE  {k \in DOMAIN shown : shown[k][1] = chars[i].pid} = PlaceOnPage(AheadIn(name, chars, i), page)
    <2>1. {k \in DOMAIN rows : rows[k].pid = chars[i].pid} = PlaceOnPage(AheadIn(name, chars, i), page)
        BY <1>1, <1>2, <1>6, ShownIs
    <2>2. {k \in DOMAIN shown : shown[k][1] = chars[i].pid} = {k \in DOMAIN rows : rows[k].pid = chars[i].pid}
        BY <1>4, <1>5
    <2> QED BY <2>1, <2>2
<1>9. ASSUME NEW k \in DOMAIN shown
      PROVE  \E c \in Range(chars) : c.pid = shown[k][1] /\ shown[k][2] = PowerOn(name, c) % Power.u32
    <2>1. k \in DOMAIN rows
        BY <1>4
    <2> QED BY <1>4, <1>5, <2>1
<1> QED BY <1>7, <1>8, <1>9

\* Everybody is on a board once, at the place that those ahead of it leave it, on the
\* one page this place is on, with its own power; ties keep the store's order.  For
\* every number of characters, every page and every size of page.
THEOREM RanksAreTrue == Spec => []RankTrue
<1>1. IInv => RankTrue
    <2> SUFFICES ASSUME Game, Answer, NEW name \in {n \in DOMAIN Spelling : kind_of(n) = "NORMAL"},
                        NEW page \in 0..(Byte - 1), reply.kind = <<"rank", name, page>>
                 PROVE  LET read == Parsed(reply.layout, reply.body)
                            shown == read[Len(read) - 1]
                            Ahead(i) == Cardinality({j \in DOMAIN chars :
                                \/ Above(Keys(name, chars[j]), Keys(name, chars[i]))
                                \/ Keys(name, chars[j]) = Keys(name, chars[i]) /\ j < i})
                        IN  /\ \A i \in DOMAIN chars :
                                  /\ chars[i].pid = Me /\ Ahead(i) + 1 < Byte => read[4] = Ahead(i) + 1
                                  /\ {k \in DOMAIN shown : shown[k][1] = chars[i].pid}
                                        = IF Ahead(i) \div RANK_PAGE_SIZE = page
                                          THEN {(Ahead(i) % RANK_PAGE_SIZE) + 1} ELSE {}
                            /\ \A k \in DOMAIN shown : \E c \in Range(chars) :
                                  c.pid = shown[k][1] /\ shown[k][2] = PowerOn(name, c) % Power.u32
        BY DEF IInv, RankTrue
    <2>1. page \in Nat /\ name \in DOMAIN Spelling /\ kind_of(name) = "NORMAL"
        BY CodecAssumption
    <2>2. Written
        <3>1. Told
            BY KindMarks DEF Told
        <3> QED BY <3>1, AnswerTold
    <2>3. PICK read, shown : read = Parsed(reply.layout, reply.body) /\ shown = read[Len(read) - 1]
        OBVIOUS
    <2>4. /\ \A i \in DOMAIN chars :
                /\ chars[i].pid = Me /\ AheadIn(name, chars, i) + 1 < Byte
                      => read[4] = AheadIn(name, chars, i) + 1
                /\ {k \in DOMAIN shown : shown[k][1] = chars[i].pid}
                      = PlaceOnPage(AheadIn(name, chars, i), page)
          /\ \A k \in DOMAIN shown : \E c \in Range(chars) :
                c.pid = shown[k][1] /\ shown[k][2] = PowerOn(name, c) % Power.u32
        BY <2>1, <2>2, <2>3, RankIsTrue
    <2> QED BY <2>3, <2>4 DEF AheadIn, PlaceOnPage
<1> QED BY <1>1, IInvHolds, PTL

-----------------------------------------------------------------------------
(* Going up a board. *)

NotBelow(x, y) == Above(x, y) \/ x = y

LEMMA TiersGrow ==
    ASSUME NEW sid \in Range(ATTIRE_TYPES), NEW l \in 1..Len(ShowAttr[sid]), NEW m \in {l, l + 1},
           m \in 1..Len(ShowAttr[sid])
    PROVE  /\ Total(TierPower(sid), 1..l) \in Nat /\ Total(TierPower(sid), 1..m) \in Nat
           /\ Total(TierPower(sid), 1..l) <= Total(TierPower(sid), 1..m)
<1>1. l \in Nat /\ IsFiniteSet(1..l) /\ \A tier \in 1..l : tier \in 1..Len(ShowAttr[sid])
    <2>1. l \in Nat /\ \A tier \in 1..l : tier \in 1..Len(ShowAttr[sid])
        BY TiersNat
    <2> QED BY <2>1, FS_Interval
<1>2. \A tier \in 1..Len(ShowAttr[sid]) : TierPower(sid)[tier] \in Nat
    BY TiersNat
<1>3. Total(TierPower(sid), 1..l) \in Nat
    BY <1>1, <1>2, TotalNat
<1>4. CASE m = l
    BY <1>3, <1>4
<1>5. CASE m = l + 1
    <2>1. 1..m = (1..l) \cup {m}
        BY <1>1, <1>5
    <2>2. \A y \in (1..l) \cup {m} : TierPower(sid)[y] \in Nat
        BY <1>1, <1>2
    <2>3. Total(TierPower(sid), (1..l) \cup {m}) \in Nat
          /\ Total(TierPower(sid), 1..l) <= Total(TierPower(sid), (1..l) \cup {m})
        BY <1>1, <2>2, TotalGrows
    <2> QED BY <1>3, <2>1, <2>3
<1> QED BY <1>4, <1>5

\* Who is no worse in gear, tiers and quality has no less power.
LEMMA PowerGrows ==
    ASSUME NEW c, Proper(c), NEW d, Better(d, c)
    PROVE  /\ char_power(d) >= char_power(c)
           /\ \A sid \in Range(ATTIRE_TYPES) : attire_power(d, sid) >= attire_power(c, sid)
<1>1. Proper(d)
    BY DEF Better
<1>2. compute_power(BaseAttrs) \in Nat
    BY RankingAssumption, ComputePowerNat
<1>3. c.gear \subseteq Equipment /\ IsFiniteSet(c.gear) /\ \A x \in Equipment : Score[x] \in Nat
    <2>1. c.gear \in SUBSET Equipment
        BY ProperIs
    <2> QED BY <2>1, RepliesAssumption, FS_Subset
<1>4. Total(Score, c.gear) \in Nat /\ Total(Score, d.gear) \in Nat
      /\ Total(Score, c.gear) <= Total(Score, d.gear)
    <2>1. CASE d.gear = c.gear
        <3>1. Total(Score, c.gear) \in Nat
            BY <1>3, TotalNat
        <3> QED BY <2>1, <3>1
    <2>2. ASSUME NEW item \in Equipment, d.gear = c.gear \cup {item}
          PROVE  Total(Score, c.gear) \in Nat /\ Total(Score, d.gear) \in Nat
                 /\ Total(Score, c.gear) <= Total(Score, d.gear)
        <3>1. \A y \in c.gear \cup {item} : Score[y] \in Nat
            BY <1>3
        <3> QED BY <1>3, <2>2, <3>1, TotalGrows
    <2> QED BY <2>1, <2>2 DEF Better
<1>5. char_power(d) >= char_power(c)
    BY <1>2, <1>4 DEF char_power
<1>6. ASSUME NEW sid \in Range(ATTIRE_TYPES) PROVE attire_power(d, sid) >= attire_power(c, sid)
    <2>1. PICK l, m, p, q : /\ l = c.exterior[sid].level /\ m = d.exterior[sid].level
                            /\ p = c.exterior[sid].quality /\ q = d.exterior[sid].quality
        OBVIOUS
    <2>2. l \in 1..Len(ShowAttr[sid]) /\ m \in 1..Len(ShowAttr[sid])
        BY <1>1, <2>1, ProperIs
    <2>3. p \in Nat /\ q \in Nat
        BY <1>1, <2>1, ProperIs DEF Slots
    <2>4. m \in {l, l + 1} /\ q >= p
        BY <2>1 DEF Better
    <2>5. PICK t, u, v : /\ t = Total(TierPower(sid), 1..l) /\ u = Total(TierPower(sid), 1..m)
                         /\ v = compute_power(QualityAttr[sid])
        OBVIOUS
    <2>6. t \in Nat /\ u \in Nat /\ t <= u
        BY <2>2, <2>4, <2>5, TiersGrow
    <2>7. v \in Nat
        BY <2>5, TiersNat
    <2>8. p * v <= q * v /\ p * v \in Nat /\ q * v \in Nat
        <3>1. PICK e \in Nat : q = p + e
            BY <2>3, <2>4
        <3>2. q * v = p * v + e * v /\ e * v \in Nat /\ p * v \in Nat
            BY <2>3, <2>7, <3>1
        <3> QED BY <3>2
    <2>9. attire_power(c, sid) = t + p * v /\ attire_power(d, sid) = u + q * v
        BY <2>1, <2>5 DEF attire_power, TierPower
    <2> QED BY <2>6, <2>8, <2>9
<1> QED BY <1>5, <1>6

\* Nor is its key below.
LEMMA KeysRise ==
    ASSUME NEW name, NEW c, Proper(c), NEW d, Better(d, c)
    PROVE  NotBelow(Keys(name, d), Keys(name, c))
<1>1. Proper(d) /\ d.level >= c.level /\ c.level \in Nat /\ d.level \in Nat
    BY ProperIs DEF Better
<1>2. /\ char_power(d) >= char_power(c)
      /\ \A sid \in Range(ATTIRE_TYPES) : attire_power(d, sid) >= attire_power(c, sid)
    BY PowerGrows
<1>3. /\ char_power(c) \in Nat /\ char_power(d) \in Nat
      /\ PowerOn(name, c) \in Nat /\ PowerOn(name, d) \in Nat
    BY <1>1, PowersNat
<1>4. PowerOn(name, d) >= PowerOn(name, c)
    BY <1>2, RankingAssumption DEF PowerOn
<1>5. PICK a, b, x, y, g, h : /\ a = d.level /\ b = c.level /\ x = char_power(d) /\ y = char_power(c)
                              /\ g = PowerOn(name, d) /\ h = PowerOn(name, c)
    OBVIOUS
<1>6. /\ a \in Nat /\ b \in Nat /\ x \in Nat /\ y \in Nat /\ g \in Nat /\ h \in Nat
      /\ a >= b /\ x >= y /\ g >= h
    BY <1>1, <1>2, <1>3, <1>4, <1>5
<1>7. NotBelow(<<a, x>>, <<b, y>>) /\ NotBelow(<<g, 0>>, <<h, 0>>)
    BY <1>6 DEF NotBelow, Above
<1> QED BY <1>5, <1>7 DEF Keys

\* Taking off gear changes no place on a board by attire, nor does it where no power is lost.
LEMMA KeysKept ==
    ASSUME NEW name, NEW c, Proper(c), NEW d, Proper(d), d.level = c.level, d.exterior = c.exterior,
           ~(char_power(d) < char_power(c) /\ name \notin DOMAIN ATTIRE_BOARDS)
    PROVE  NotBelow(Keys(name, d), Keys(name, c))
<1>1. char_power(c) \in Nat /\ char_power(d) \in Nat /\ c.level \in Nat
    BY PowersNat, ProperIs
<1>2. PICK x, y, l : x = char_power(d) /\ y = char_power(c) /\ l = c.level
    OBVIOUS
<1>3. CASE name \in DOMAIN ATTIRE_BOARDS
    <2>1. name # "level_ranking"
        BY <1>3, RankingAssumption
    <2>2. PowerOn(name, d) = PowerOn(name, c)
        BY <1>3 DEF PowerOn, attire_power
    <2> QED BY <2>1, <2>2 DEF Keys, NotBelow
<1>4. CASE name \notin DOMAIN ATTIRE_BOARDS
    <2>1. x \in Nat /\ y \in Nat /\ l \in Nat /\ x >= y
        BY <1>1, <1>2, <1>4
    <2>2. NotBelow(<<l, x>>, <<l, y>>) /\ NotBelow(<<x, 0>>, <<y, 0>>)
        BY <2>1 DEF NotBelow, Above
    <2>3. PowerOn(name, d) = x /\ PowerOn(name, c) = y
        BY <1>2, <1>4 DEF PowerOn
    <2> QED BY <1>2, <2>2, <2>3 DEF Keys
<1> QED BY <1>3, <1>4

AheadSet(name, s, i) == {j \in DOMAIN s : \/ Above(Keys(name, s[j]), Keys(name, s[i]))
                                          \/ Keys(name, s[j]) = Keys(name, s[i]) /\ j < i}

\* Those ahead are finitely many.
LEMMA AheadFinite ==
    ASSUME NEW name, NEW s, AllProper(s), NEW i
    PROVE  /\ IsFiniteSet(AheadSet(name, s, i)) /\ AheadIn(name, s, i) = Cardinality(AheadSet(name, s, i))
           /\ AheadIn(name, s, i) \in Nat
<1>1. IsFiniteSet(DOMAIN s)
    BY KeysType, FS_Interval
<1>2. AheadSet(name, s, i) \subseteq DOMAIN s
    BY DEF AheadSet
<1>3. IsFiniteSet(AheadSet(name, s, i))
    BY <1>1, <1>2, FS_Subset
<1>4. AheadIn(name, s, i) = Cardinality(AheadSet(name, s, i))
    BY DEF AheadIn, AheadSet
<1> QED BY <1>3, <1>4, FS_CardinalityType

LEMMA KeyIs ==
    ASSUME NEW name, NEW s, AllProper(s), NEW i \in DOMAIN s
    PROVE  Keys(name, s[i]) \in Nat \X Nat
BY KeysType DEF KeysOf

\* One character goes up: who was ahead of another is so still.
LEMMA RiseAhead ==
    ASSUME NEW name, NEW s, AllProper(s), NEW t, AllProper(t), Len(t) = Len(s), NEW i \in DOMAIN s,
           \A j \in DOMAIN s : j # i => t[j] = s[j], NotBelow(Keys(name, t[i]), Keys(name, s[i])),
           NEW k \in DOMAIN s, k # i
    PROVE  AheadIn(name, t, k) >= AheadIn(name, s, k)
<1>1. DOMAIN s = DOMAIN t
    BY KeysType
<1>2. AheadSet(name, s, k) \subseteq AheadSet(name, t, k)
    <2> SUFFICES ASSUME NEW j \in AheadSet(name, s, k) PROVE j \in AheadSet(name, t, k)
        OBVIOUS
    <2>1. j \in DOMAIN s /\ (\/ Above(Keys(name, s[j]), Keys(name, s[k]))
                             \/ Keys(name, s[j]) = Keys(name, s[k]) /\ j < k)
        BY DEF AheadSet
    <2>2. t[k] = s[k]
        OBVIOUS
    <2>3. CASE j # i
        <3>1. t[j] = s[j]
            BY <2>1, <2>3
        <3> QED BY <1>1, <2>1, <2>2, <3>1 DEF AheadSet
    <2>4. CASE j = i
        <3>1. PICK x, y, z : x = Keys(name, t[i]) /\ y = Keys(name, s[i]) /\ z = Keys(name, s[k])
            OBVIOUS
        <3>2. x \in Nat \X Nat /\ y \in Nat \X Nat /\ z \in Nat \X Nat
            BY <1>1, <3>1, KeyIs
        <3>3. (Above(x, y) \/ x = y) /\ (Above(y, z) \/ (y = z /\ i < k))
            BY <2>1, <2>4, <3>1 DEF NotBelow
        <3>4. Above(x, z) \/ (x = z /\ i < k)
            <4>1. Above(x, y) /\ Above(y, z) => Above(x, z)
                BY <3>2, AboveOrders
            <4> QED BY <3>3, <4>1
        <3>5. j \in DOMAIN t /\ (\/ Above(Keys(name, t[j]), Keys(name, t[k]))
                                 \/ Keys(name, t[j]) = Keys(name, t[k]) /\ j < k)
            BY <1>1, <2>2, <2>4, <3>1, <3>4
        <3> QED BY <3>5 DEF AheadSet
    <2> QED BY <2>3, <2>4
<1>3. /\ IsFiniteSet(AheadSet(name, t, k)) /\ AheadIn(name, t, k) = Cardinality(AheadSet(name, t, k))
      /\ AheadIn(name, s, k) = Cardinality(AheadSet(name, s, k))
      /\ AheadIn(name, t, k) \in Nat /\ AheadIn(name, s, k) \in Nat
    BY AheadFinite
<1>4. Cardinality(AheadSet(name, s, k)) <= Cardinality(AheadSet(name, t, k))
    BY <1>2, <1>3, FS_Subset
<1> QED BY <1>3, <1>4

\* Another character comes: the same.
LEMMA CreateAhead ==
    ASSUME NEW name, NEW s, AllProper(s), NEW t, AllProper(t), NEW a \in 1..(Len(s) + 1), NEW e,
           HasMore(t, s, a, e), NEW k \in DOMAIN s, NEW l, l = IF k < a THEN k ELSE k + 1
    PROVE  AheadIn(name, t, l) >= AheadIn(name, s, k) /\ l \in DOMAIN t /\ t[l] = s[k]
<1>1. PICK n \in Nat : n = Len(s) /\ DOMAIN s = 1..n
    BY KeysType
<1>2. /\ DOMAIN t = 1..(n + 1) /\ a \in 1..(n + 1)
      /\ \A r \in 1..(n + 1) : t[r] = IF r < a THEN s[r] ELSE IF r = a THEN e ELSE s[r - 1]
    BY <1>1, KeysType DEF HasMore
<1> DEFINE to(j) == IF j < a THEN j ELSE j + 1
<1>3. ASSUME NEW j \in 1..n PROVE to(j) \in 1..(n + 1) /\ t[to(j)] = s[j]
    <2>1. CASE j < a
        <3>1. to(j) = j /\ j \in 1..(n + 1)
            BY <2>1
        <3> QED BY <1>2, <2>1, <3>1
    <2>2. CASE ~(j < a)
        <3>1. PICK r : r = j + 1
            OBVIOUS
        <3>2. to(j) = r /\ r \in 1..(n + 1) /\ ~(r < a) /\ r # a /\ r - 1 = j
            BY <1>2, <2>2, <3>1
        <3> QED BY <1>2, <3>2
    <2> QED BY <2>1, <2>2
<1>4. \A i, j \in 1..n : /\ to(i) = to(j) => i = j
                         /\ i < j => to(i) < to(j)
    BY <1>2
<1>5. l = to(k) /\ k \in 1..n
    BY <1>1
<1> DEFINE A == AheadSet(name, s, k)
           B == AheadSet(name, t, l)
           f == [j \in A |-> to(j)]
<1>6. ASSUME NEW j \in A PROVE to(j) \in B /\ j \in 1..n
    <2>1. j \in 1..n /\ (\/ Above(Keys(name, s[j]), Keys(name, s[k]))
                         \/ Keys(name, s[j]) = Keys(name, s[k]) /\ j < k)
        BY <1>1 DEF AheadSet
    <2>2. to(j) \in 1..(n + 1) /\ t[to(j)] = s[j] /\ t[l] = s[k] /\ (j < k => to(j) < l)
        BY <1>3, <1>4, <1>5, <2>1
    <2> HIDE DEF to
    <2> QED BY <1>2, <2>1, <2>2 DEF AheadSet
<1>7. f \in [A -> B] /\ \A i, j \in A : f[i] = f[j] => i = j
    BY <1>4, <1>6
<1> HIDE DEF A, B, f, to
<1>8. f \in Injection(A, B)
    BY <1>7 DEF Injection, IsInjective
<1>9. /\ IsFiniteSet(B) /\ AheadIn(name, t, l) = Cardinality(B) /\ AheadIn(name, s, k) = Cardinality(A)
      /\ AheadIn(name, t, l) \in Nat /\ AheadIn(name, s, k) \in Nat
    BY AheadFinite DEF A, B
<1>10. Cardinality(A) <= Cardinality(B)
    BY <1>8, <1>9, FS_Injection
<1> QED BY <1>2, <1>3, <1>5, <1>9, <1>10

-----------------------------------------------------------------------------
(* A sweep over a board. *)

\* Who is still to be seen is on the board behind the pages read, and so are more pages.
Waits(board, next, last, s, p) ==
    /\ board \in DOMAIN Spelling /\ kind_of(board) = "NORMAL" /\ next \in Nat /\ last \in Nat
    /\ \E i \in DOMAIN s : s[i].pid = p /\ AheadIn(board, s, i) >= next * RANK_PAGE_SIZE
    /\ Len(s) <= Byte * RANK_PAGE_SIZE => next <= last

Sweeps(sw, s) ==
    /\ sw = [board |-> sw.board, next |-> sw.next, last |-> sw.last, waiting |-> sw.waiting]
    /\ \A p \in sw.waiting : Waits(sw.board, sw.next, sw.last, s, p)

\* Nobody waits for a client that is not on a sweep.
LEMMA IdleSweeps == ASSUME NEW s PROVE Sweeps(Idle, s)
BY DEF Idle, Sweeps

\* Whether a quotient reaches q.
Reaches(n, p, q) == q * p <= n <=> q <= n \div p

LEMMA QuotientReaches ==
    ASSUME NEW n \in Nat, NEW p \in Nat \ {0}, NEW q \in Nat
    PROVE  Reaches(n, p, q)
<1>1. PICK d, r : d = n \div p /\ r = n % p
    OBVIOUS
<1>2. d \in Nat /\ r \in Nat /\ r < p /\ n = p * d + r
    BY <1>1, Divided
<1>3. PICK a, b : a = p * d /\ b = q * p
    OBVIOUS
<1>4. a \in Nat /\ b \in Nat
    BY <1>2, <1>3
<1>5. CASE q <= d
    <2>1. PICK e \in Nat : d = q + e
        BY <1>2, <1>5
    <2>2. p * d = q * p + p * e /\ p * e \in Nat
        BY <2>1
    <2>3. b <= n
        BY <1>2, <1>3, <1>4, <2>2
    <2> QED BY <1>1, <1>3, <1>5, <2>3 DEF Reaches
<1>6. CASE ~(q <= d)
    <2>1. PICK e \in Nat : q = d + 1 + e
        BY <1>2, <1>6
    <2>2. q * p = p * d + p + p * e /\ p * e \in Nat
        BY <1>2, <2>1
    <2>3. ~(b <= n)
        BY <1>2, <1>3, <1>4, <2>2
    <2> QED BY <1>1, <1>3, <1>6, <2>3 DEF Reaches
<1> QED BY <1>5, <1>6

\* Who was behind the pages before this one and is not on it is behind it as well, and
\* the last page told is not before the one that follows.
LEMMA BehindPage ==
    ASSUME NEW name \in DOMAIN Spelling, kind_of(name) = "NORMAL", NEW s, AllProper(s), Distinct(s),
           NEW page \in Nat, NEW i \in DOMAIN s, PlaceOnPage(AheadIn(name, s, i), page) = {},
           AheadIn(name, s, i) >= page * RANK_PAGE_SIZE,
           NEW last, last = MaxPage(Ranked(name, s)) % Byte
    PROVE  Waits(name, page + 1, last, s, s[i].pid)
<1>1. PICK r \in 1..Len(s) :
          /\ Ranked(name, s)[r] = s[i] /\ AheadIn(name, s, i) = r - 1
          /\ \A q \in 1..Len(s) : Ranked(name, s)[q].pid = s[i].pid => q = r
    BY PlaceIs
<1>2. PICK n \in Nat : n = Len(s)
    BY KeysType
<1>3. PICK a \in Nat : a = AheadIn(name, s, i) /\ a < n
    BY <1>1, <1>2
<1>4. PICK p \in Nat \ {0} : p = RANK_PAGE_SIZE
    BY RankingAssumption
<1>5. PICK next \in Nat : next = page + 1
    OBVIOUS
<1>6. a \div p # page
    BY <1>3, <1>4 DEF PlaceOnPage
<1>7. a \div p \in Nat
    BY <1>3, <1>4, Quotient
<1>8. page <= a \div p
    <2>1. Reaches(a, p, page) /\ page * p <= a
        BY <1>3, <1>4, QuotientReaches
    <2> QED BY <2>1 DEF Reaches
<1>9. next * p <= a
    <2>1. next <= a \div p
        BY <1>5, <1>6, <1>7, <1>8
    <2>2. Reaches(a, p, next)
        BY <1>3, <1>4, <1>5, QuotientReaches
    <2> QED BY <2>1, <2>2 DEF Reaches
<1>10. PICK m \in Nat : m = n - 1 /\ a <= m
    BY <1>2, <1>3
<1>11. PICK b : b = m \div p
    OBVIOUS
<1>12. b \in Nat
    BY <1>4, <1>10, <1>11, Quotient
<1>13. MaxPage(Ranked(name, s)) = b
    <2>1. Ranked(name, s) \in Seq(Characters) /\ Len(Ranked(name, s)) = n
        BY <1>2, RankedIs
    <2>2. Ranked(name, s) # <<>>
        BY <1>3, <2>1, EmptySeq
    <2> QED BY <1>4, <1>10, <1>11, <2>1, <2>2 DEF MaxPage
<1>14. next <= b
    <2>1. PICK c : c = next * p
        OBVIOUS
    <2>2. c \in Nat /\ c <= m
        BY <1>3, <1>4, <1>5, <1>9, <1>10, <2>1
    <2>3. Reaches(m, p, next)
        BY <1>4, <1>5, <1>10, QuotientReaches
    <2> QED BY <1>11, <2>1, <2>2, <2>3 DEF Reaches
<1>15. Byte \in Nat \ {0}
    BY CodecAssumption
<1>16. ASSUME n <= Byte * p PROVE b < Byte
    <2>1. PICK c : c = Byte * p
        OBVIOUS
    <2>2. c \in Nat /\ ~(c <= m)
        BY <1>4, <1>10, <1>15, <1>16, <2>1
    <2>3. Reaches(m, p, Byte)
        BY <1>4, <1>10, <1>15, QuotientReaches
    <2>4. ~(Byte <= b)
        BY <1>11, <2>1, <2>2, <2>3 DEF Reaches
    <2> QED BY <1>12, <1>15, <2>4
<1>17. last \in Nat
    BY <1>12, <1>13, <1>15, Quotient
<1>18. n <= Byte * p => next <= last
    <2> SUFFICES ASSUME n <= Byte * p PROVE next <= last
        OBVIOUS
    <2>1. b < Byte
        BY <1>16
    <2>2. b % Byte = b
        BY <1>12, <1>15, <2>1, ModIs
    <2> QED BY <1>13, <1>14, <2>2
<1>19. AheadIn(name, s, i) >= next * RANK_PAGE_SIZE
    BY <1>3, <1>4, <1>5, <1>9
<1>20. Waits(name, next, last, s, s[i].pid)
    BY <1>2, <1>4, <1>17, <1>18, <1>19 DEF Waits
<1> QED BY <1>5, <1>20

\* The bytes of a board's page, read.
LEMMA BodyRead ==
    ASSUME Game, NEW name \in DOMAIN Spelling, kind_of(name) = "NORMAL", NEW page \in Nat,
           NEW body, body = Write(RankLayout(name), MeantRank(name, page)), Len(body) <= MaxBody,
           NEW read, read = Parsed(RankLayout(name), body)
    PROVE  ReadAs(read, name, FoundIn(Ranked(name, chars), Me), PageOf(Ranked(name, chars), page),
                  MaxPage(Ranked(name, chars)))
<1>1. PICK layout, meant : layout = RankLayout(name) /\ meant = MeantIn(name, page, chars)
    OBVIOUS
<1>2. Fits(layout, meant) /\ body = Write(layout, meant)
    BY <1>1, MeantFits DEF Matches, MeantRank
<1>3. Len(body) < Power.u32
    <2>1. PICK n \in Nat : n = Len(body)
        BY <1>2, WriteType
    <2>2. PICK w \in Nat : w = Power.u32
        BY Sizes
    <2>3. MaxBody \in Nat /\ MaxBody < w /\ n <= MaxBody
        BY <1>2, <2>1, <2>2, RepliesAssumption
    <2> QED BY <2>1, <2>2, <2>3
<1>4. read = Fitted(layout, meant)
    BY <1>1, <1>2, <1>3, MessageRead
<1>5. PICK e : e = Ranked(name, chars)
    OBVIOUS
<1>6. PICK index, mine, shown, last :
          /\ index = FoundIn(e, Me) /\ mine = RowOf(chars)
          /\ shown = PageOf(e, page) /\ last = MaxPage(e)
    OBVIOUS
<1>7. MeantIn(name, page, chars) = RankMessage(name, page, index, mine, shown, last)
    BY <1>5, <1>6 DEF MeantIn, Entries, FoundIn
<1>8. ReadAs(read, name, index, shown, last)
    BY <1>1, <1>4, <1>7, RankRead
<1> QED BY <1>5, <1>6, <1>8

SeenIn(read) == {e[1] : e \in Range(read[Len(read) - 1])}

\* A page read takes from those that wait who is on it.
LEMMA PageSweeps ==
    ASSUME Game, NEW name \in DOMAIN Spelling, kind_of(name) = "NORMAL", NEW page \in Nat,
           NEW read,
           ReadAs(read, name, FoundIn(Ranked(name, chars), Me), PageOf(Ranked(name, chars), page),
                  MaxPage(Ranked(name, chars))),
           NEW i \in DOMAIN chars, chars[i].pid \notin SeenIn(read),
           AheadIn(name, chars, i) >= page * RANK_PAGE_SIZE
    PROVE  Waits(name, page + 1, read[Len(read)], chars, chars[i].pid)
<1>1. PICK rows, last : rows = PageOf(Ranked(name, chars), page) /\ last = MaxPage(Ranked(name, chars))
    OBVIOUS
<1>2. PICK shown : shown = read[11]
    OBVIOUS
<1>3. /\ Len(read) - 1 = 11 /\ read[Len(read)] = last % Byte /\ DOMAIN shown = DOMAIN rows
      /\ \A r \in DOMAIN rows : shown[r][1] = rows[r].pid % Power.u64
    BY <1>1, <1>2 DEF ReadAs
<1>4. \A r \in DOMAIN rows : shown[r][1] = rows[r].pid
    BY <1>1, <1>3, ShownRead
<1>5. \A r \in DOMAIN rows : rows[r].pid # chars[i].pid
    BY <1>2, <1>3, <1>4 DEF SeenIn, Range
<1>6. AllProper(chars) /\ Distinct(chars)
    BY DEF Game, Distinct
<1>7. {k \in DOMAIN rows : rows[k].pid = chars[i].pid} = PlaceOnPage(AheadIn(name, chars, i), page)
    BY <1>1, <1>6, ShownIs
<1>8. PlaceOnPage(AheadIn(name, chars, i), page) = {}
    BY <1>5, <1>7
<1> QED BY <1>1, <1>3, <1>6, <1>8, BehindPage

\* A page that is read takes those who are on it off those who wait.
LEMMA QuerySweeps ==
    ASSUME Game, Sweeps(sweep, chars), NEW name \in DOMAIN Spelling, NEW page \in Pages(name),
           QueryRanking(name, page)
    PROVE  Sweeps(sweep', chars')
<1>0. page \in Nat
    BY PagesNat
<1>1. /\ Tell(<<"rank", name, page>>, RankLayout(name), MeantRank(name, page),
              Write(RankLayout(name), MeantRank(name, page)))
      /\ chars' = chars
      /\ sweep' = IF Quiet' THEN Idle
                  ELSE Swept(name, page, Parsed(RankLayout(name), reply'.body))
    BY QueryTells
<1>2. PICK body, read : /\ body = Write(RankLayout(name), MeantRank(name, page))
                        /\ read = Parsed(RankLayout(name), body)
    OBVIOUS
<1>3. sweep' = Idle \/ (Len(body) <= MaxBody /\ sweep' = Swept(name, page, read))
    <2>1. PICK kind, layout, meant : /\ kind = <<"rank", name, page>> /\ layout = RankLayout(name)
                                     /\ meant = MeantRank(name, page)
        OBVIOUS
    <2>2. reply' = IF Len(body) = MaxBody THEN Waiting
                   ELSE IF Len(body) < MaxBody /\ reply = Nothing
                   THEN [kind |-> kind, layout |-> layout, meant |-> meant, body |-> body]
                   ELSE Nothing
        BY <1>1, <1>2, <2>1 DEF Tell
    <2>3. CASE reply' = Nothing \/ reply' = Waiting
        BY <1>1, <2>3 DEF Quiet
    <2>4. CASE /\ Len(body) < MaxBody
               /\ reply' = [kind |-> kind, layout |-> layout, meant |-> meant, body |-> body]
        <3>1. reply'.body = body
            BY <2>4
        <3>2. Len(body) <= MaxBody
            <4>1. Len(body) \in Nat /\ MaxBody \in Nat
                <5>1. Fits(layout, meant) /\ body = Write(layout, meant)
                    BY <1>0, <1>2, <2>1, MeantFits DEF Matches
                <5> QED BY <5>1, WriteType, RepliesAssumption
            <4> QED BY <2>4, <4>1
        <3> QED BY <1>1, <1>2, <3>1, <3>2
    <2> QED BY <2>2, <2>3, <2>4
<1>4. CASE sweep' = Idle
    BY <1>1, <1>4, IdleSweeps
<1>5. CASE Len(body) <= MaxBody /\ sweep' = Swept(name, page, read)
    <2> DEFINE Walk(waiting) == [board |-> name, next |-> page + 1, last |-> read[Len(read)],
                                 waiting |-> waiting \ SeenIn(read)]
               goal == IF kind_of(name) = "NORMAL" THEN Pids ELSE {}
               Behind(waiting) == \A p \in waiting :
                   /\ kind_of(name) = "NORMAL"
                   /\ \E i \in DOMAIN chars :
                         chars[i].pid = p /\ AheadIn(name, chars, i) >= page * RANK_PAGE_SIZE
    <2>1. \/ sweep' = Idle
          \/ page = 0 /\ sweep' = Walk(goal)
          \/ page # 0 /\ name = sweep.board /\ page = sweep.next /\ sweep' = Walk(sweep.waiting)
        BY <1>5 DEF Swept, SeenIn
    <2>2. ASSUME NEW waiting, sweep' = Walk(waiting), Behind(waiting)
          PROVE  Sweeps(sweep', chars)
        <3>1. PICK w : w = sweep'
            OBVIOUS
        <3>2. /\ w.board = name /\ w.next = page + 1 /\ w.last = read[Len(read)]
              /\ w.waiting = waiting \ SeenIn(read)
              /\ w = [board |-> w.board, next |-> w.next, last |-> w.last, waiting |-> w.waiting]
            BY <2>2, <3>1
        <3>3. ASSUME NEW p \in waiting \ SeenIn(read)
              PROVE  Waits(name, page + 1, read[Len(read)], chars, p)
            <4>1. PICK i \in DOMAIN chars :
                      chars[i].pid = p /\ AheadIn(name, chars, i) >= page * RANK_PAGE_SIZE
                BY <2>2
            <4>2. kind_of(name) = "NORMAL"
                BY <2>2
            <4>3. ReadAs(read, name, FoundIn(Ranked(name, chars), Me), PageOf(Ranked(name, chars), page),
                         MaxPage(Ranked(name, chars)))
                BY <1>0, <1>2, <1>5, <4>2, BodyRead
            <4> QED BY <1>0, <4>1, <4>2, <4>3, PageSweeps
        <3> QED BY <3>1, <3>2, <3>3 DEF Sweeps
    <2> HIDE DEF Walk, Behind
    <2>3. CASE sweep' = Idle
        BY <1>1, <2>3, IdleSweeps
    <2>4. CASE page = 0 /\ sweep' = Walk(goal)
        <3>1. PICK g : g = goal
            OBVIOUS
        <3>2. ASSUME NEW p \in g
              PROVE  /\ kind_of(name) = "NORMAL"
                     /\ \E i \in DOMAIN chars :
                           chars[i].pid = p /\ AheadIn(name, chars, i) >= page * RANK_PAGE_SIZE
            <4>1. kind_of(name) = "NORMAL" /\ p \in Pids
                BY <3>1
            <4>2. PICK i \in DOMAIN chars : chars[i].pid = p
                BY <4>1 DEF Pids, Range
            <4>3. AheadIn(name, chars, i) \in Nat
                BY AheadFinite DEF Game
            <4>4. page * RANK_PAGE_SIZE = 0
                BY <2>4, RankingAssumption
            <4> QED BY <4>1, <4>2, <4>3, <4>4
        <3>3. Behind(g)
            BY <3>2 DEF Behind
        <3> QED BY <1>1, <2>2, <2>4, <3>1, <3>3
    <2>5. CASE page # 0 /\ name = sweep.board /\ page = sweep.next /\ sweep' = Walk(sweep.waiting)
        <3>1. ASSUME NEW p \in sweep.waiting
              PROVE  /\ kind_of(name) = "NORMAL"
                     /\ \E i \in DOMAIN chars :
                           chars[i].pid = p /\ AheadIn(name, chars, i) >= page * RANK_PAGE_SIZE
            <4>1. Waits(name, page, sweep.last, chars, p)
                BY <2>5 DEF Sweeps
            <4> QED BY <4>1 DEF Waits
        <3>2. PICK g : g = sweep.waiting
            OBVIOUS
        <3>3. Behind(g)
            BY <3>1, <3>2 DEF Behind
        <3> QED BY <1>1, <2>2, <2>5, <3>2, <3>3
    <2> QED BY <2>1, <2>3, <2>4, <2>5
<1> QED BY <1>3, <1>4, <1>5

\* What a change of the characters does to a sweep.
LEMMA ChangedSweeps ==
    ASSUME Sweeps(sweep, chars), NEW new, NEW waiting, Changed(new, waiting), waiting \subseteq sweep.waiting,
           \A p \in waiting : Waits(sweep.board, sweep.next, sweep.last, chars, p)
                                => Waits(sweep.board, sweep.next, sweep.last, new, p)
    PROVE  Sweeps(sweep', chars')
<1>1. PICK b, n, l, v : b = sweep.board /\ n = sweep.next /\ l = sweep.last /\ v = sweep.waiting
    OBVIOUS
<1>2. sweep = [board |-> b, next |-> n, last |-> l, waiting |-> v]
    BY <1>1 DEF Sweeps
<1>3. sweep' = [board |-> b, next |-> n, last |-> l, waiting |-> waiting] /\ chars' = new
    BY <1>2 DEF Changed
<1>4. PICK w : w = sweep'
    OBVIOUS
<1>5. /\ w.board = b /\ w.next = n /\ w.last = l /\ w.waiting = waiting
      /\ w = [board |-> w.board, next |-> w.next, last |-> w.last, waiting |-> w.waiting]
    BY <1>3, <1>4
<1>6. ASSUME NEW p \in waiting PROVE Waits(b, n, l, new, p)
    <2>1. Waits(b, n, l, chars, p)
        BY <1>1 DEF Sweeps
    <2> QED BY <1>1, <2>1
<1>7. Sweeps(w, new)
    BY <1>5, <1>6 DEF Sweeps
<1> QED BY <1>3, <1>4, <1>7

\* Who waits goes on waiting when another one rises,
LEMMA RiseWaits ==
    ASSUME NEW board, NEW next, NEW last, NEW s, AllProper(s), NEW t, AllProper(t), Len(t) = Len(s),
           NEW i \in DOMAIN s, \A j \in DOMAIN s : j # i => t[j] = s[j],
           NotBelow(Keys(board, t[i]), Keys(board, s[i])),
           NEW p, p # s[i].pid, Waits(board, next, last, s, p)
    PROVE  Waits(board, next, last, t, p)
<1>1. PICK k \in DOMAIN s : s[k].pid = p /\ AheadIn(board, s, k) >= next * RANK_PAGE_SIZE
    BY DEF Waits
<1>2. k # i
    BY <1>1
<1>3. AheadIn(board, t, k) >= AheadIn(board, s, k)
    BY <1>2, RiseAhead
<1>4. AheadIn(board, t, k) \in Nat /\ AheadIn(board, s, k) \in Nat
    BY AheadFinite
<1>5. next \in Nat /\ RANK_PAGE_SIZE \in Nat
    BY RankingAssumption DEF Waits
<1>6. AheadIn(board, t, k) >= next * RANK_PAGE_SIZE
    <2>1. PICK m \in Nat : m = next * RANK_PAGE_SIZE
        BY <1>5
    <2> QED BY <1>1, <1>3, <1>4, <2>1
<1>7. t[k] = s[k] /\ k \in DOMAIN t
    BY <1>1, <1>2, KeysType
<1> QED BY <1>1, <1>6, <1>7 DEF Waits

\* and when a character is created.
LEMMA CreateWaits ==
    ASSUME NEW board, NEW next, NEW last, NEW s, AllProper(s), NEW t, AllProper(t),
           NEW a \in 1..(Len(s) + 1), NEW e, HasMore(t, s, a, e), NEW p, Waits(board, next, last, s, p)
    PROVE  Waits(board, next, last, t, p)
<1>1. PICK k \in DOMAIN s : s[k].pid = p /\ AheadIn(board, s, k) >= next * RANK_PAGE_SIZE
    BY DEF Waits
<1>2. PICK l : l = IF k < a THEN k ELSE k + 1
    OBVIOUS
<1>3. AheadIn(board, t, l) >= AheadIn(board, s, k) /\ l \in DOMAIN t /\ t[l] = s[k]
    BY <1>1, <1>2, CreateAhead
<1>4. AheadIn(board, t, l) \in Nat /\ AheadIn(board, s, k) \in Nat
    BY AheadFinite
<1>5. next \in Nat /\ RANK_PAGE_SIZE \in Nat /\ Byte \in Nat
    BY RankingAssumption, CodecAssumption DEF Waits
<1>6. AheadIn(board, t, l) >= next * RANK_PAGE_SIZE
    <2>1. PICK m \in Nat : m = next * RANK_PAGE_SIZE
        BY <1>5
    <2> QED BY <1>1, <1>3, <1>4, <2>1
<1>7. Len(t) <= Byte * RANK_PAGE_SIZE => next <= last
    <2>1. PICK m \in Nat : m = Byte * RANK_PAGE_SIZE
        BY <1>5
    <2>2. PICK n \in Nat : n = Len(s) /\ Len(t) = n + 1
        BY KeysType DEF HasMore
    <2>3. n <= m => next <= last
        BY <2>1, <2>2 DEF Waits
    <2>4. n + 1 <= m => n <= m
        BY <2>1, <2>2
    <2> QED BY <2>1, <2>2, <2>3, <2>4
<1> QED BY <1>1, <1>3, <1>6, <1>7 DEF Waits

LEMMA RisesSweeps ==
    ASSUME Game, Sweeps(sweep, chars), NEW i \in DOMAIN chars, NEW c, Proper(c), c.pid = chars[i].pid,
           NotBelow(Keys(sweep.board, c), Keys(sweep.board, chars[i])), Rises(i, c)
    PROVE  Sweeps(sweep', chars')
<1>1. PICK t, v : t = [chars EXCEPT ![i] = c] /\ v = sweep.waiting \ {c.pid}
    OBVIOUS
<1>2. Changed(t, v)
    BY <1>1 DEF Rises
<1>3. chars' = [chars EXCEPT ![i] = c] /\ changes < MaxChanges /\ changes' = changes + 1 /\ chars' = t
    BY <1>1, <1>2, ChangedAnswers
<1>4. /\ Game' /\ Len(chars') = Len(chars)
      /\ \A j \in DOMAIN chars : chars'[j] = IF j = i THEN c ELSE chars[j]
    BY <1>3, RiseGame
<1>5. AllProper(chars) /\ AllProper(t)
    BY <1>3, <1>4 DEF Game, AllProper
<1>6. Len(t) = Len(chars) /\ t[i] = c /\ \A j \in DOMAIN chars : j # i => t[j] = chars[j]
    BY <1>3, <1>4
<1>7. ASSUME NEW p \in v, Waits(sweep.board, sweep.next, sweep.last, chars, p)
      PROVE  Waits(sweep.board, sweep.next, sweep.last, t, p)
    <2>1. p # chars[i].pid
        BY <1>1
    <2>2. NotBelow(Keys(sweep.board, t[i]), Keys(sweep.board, chars[i]))
        BY <1>6
    <2> QED BY <1>5, <1>6, <1>7, <2>1, <2>2, RiseWaits
<1>8. v \subseteq sweep.waiting
    BY <1>1
<1> QED BY <1>2, <1>7, <1>8, ChangedSweeps

LEMMA RaisesSweeps ==
    ASSUME Game, Sweeps(sweep, chars), NEW i \in DOMAIN chars, Raises(i)
    PROVE  Sweeps(sweep', chars')
<1>1. PICK c : Better(c, chars[i]) /\ Rises(i, c)
    BY RiseBetter DEF Raises
<1>2. Proper(c) /\ c.pid = chars[i].pid
    BY <1>1 DEF Better
<1>3. Proper(chars[i])
    BY DEF Game, AllProper
<1>4. NotBelow(Keys(sweep.board, c), Keys(sweep.board, chars[i]))
    BY <1>1, <1>3, KeysRise
<1> QED BY <1>1, <1>2, <1>4, RisesSweeps

LEMMA TakeOffSweeps ==
    ASSUME Game, Sweeps(sweep, chars), NEW i \in DOMAIN chars, NEW item \in Equipment, TakeOff(i, item)
    PROVE  Sweeps(sweep', chars')
<1>1. PICK c : /\ Proper(c) /\ c.pid = chars[i].pid /\ c.level = chars[i].level
               /\ c.exterior = chars[i].exterior /\ c.gear = chars[i].gear \ {item}
               /\ IF char_power(c) < char_power(chars[i]) /\ sweep.board \notin DOMAIN ATTIRE_BOARDS
                  THEN Changed([chars EXCEPT ![i] = c], {}) ELSE Rises(i, c)
    BY TakeOffIs
<1>2. Proper(chars[i])
    BY DEF Game, AllProper
<1>3. CASE char_power(c) < char_power(chars[i]) /\ sweep.board \notin DOMAIN ATTIRE_BOARDS
    <2>1. Changed([chars EXCEPT ![i] = c], {})
        BY <1>1, <1>3
    <2> QED BY <2>1, ChangedSweeps
<1>4. CASE ~(char_power(c) < char_power(chars[i]) /\ sweep.board \notin DOMAIN ATTIRE_BOARDS)
    <2>1. Rises(i, c)
        BY <1>1, <1>4
    <2>2. PICK b : b = chars[i]
        OBVIOUS
    <2>3. NotBelow(Keys(sweep.board, c), Keys(sweep.board, b))
        BY <1>1, <1>2, <1>4, <2>2, KeysKept
    <2> QED BY <1>1, <2>1, <2>2, <2>3, RisesSweeps
<1> QED BY <1>3, <1>4

LEMMA CreateSweeps ==
    ASSUME Game, Sweeps(sweep, chars), NEW account \in Accounts, NEW name \in Names, Create(account, name)
    PROVE  Sweeps(sweep', chars')
<1>1. PICK t : t = chars'
    OBVIOUS
<1>2. Changed(t, sweep.waiting)
    BY <1>1 DEF Create, Changed
<1>3. /\ changes < MaxChanges /\ changes' = changes + 1 /\ account \in Nat /\ Text(name)
      /\ \E a \in 1..(Len(chars) + 1) : chars' = InsertAt(chars, a, NewRow(Len(chars) + 1, account, name))
    BY CreateIs
<1>4. PICK a \in 1..(Len(chars) + 1) : chars' = InsertAt(chars, a, NewRow(Len(chars) + 1, account, name))
    BY <1>3
<1>5. PICK e : e = NewRow(Len(chars) + 1, account, name)
    OBVIOUS
<1>6. Game' /\ HasMore(chars', chars, a, e)
    BY <1>3, <1>4, <1>5, CreateGame
<1>7. AllProper(chars) /\ AllProper(t) /\ HasMore(t, chars, a, e)
    BY <1>1, <1>6 DEF Game, AllProper
<1>8. ASSUME NEW p \in sweep.waiting, Waits(sweep.board, sweep.next, sweep.last, chars, p)
      PROVE  Waits(sweep.board, sweep.next, sweep.last, t, p)
    BY <1>4, <1>7, <1>8, CreateWaits
<1> QED BY <1>2, <1>8, ChangedSweeps

LEMMA RequestSweeps == ASSUME Game, Sweeps(sweep, chars), Requests PROVE Sweeps(sweep', chars')
<1>1. CASE chars' = chars /\ sweep' = sweep
    BY <1>1
<1>2. CASE sweep' = Idle
    BY <1>2, IdleSweeps
<1>3. CASE ServerList \/ LoginGame
    BY <1>1, <1>3 DEF ServerList, LoginGame
<1>4. CASE \E a, b \in Tokens, o, i \in {1, 2, 9}, pad \in Pads : ApiLogin(a, b, o, i, pad)
    BY <1>1, <1>4 DEF ApiLogin
<1>5. CASE \E name \in DOMAIN Spelling : \E page \in Pages(name) : QueryRanking(name, page)
    BY <1>5, QuerySweeps
<1>6. CASE ShowQuery \/ ShopQuery \/ EquipInfo
    BY <1>2, <1>6 DEF ShowQuery, ShopQuery, EquipInfo, Ask
<1>7. CASE \E item \in Items, count \in Counts, worn \in BOOLEAN :
              AddItem(Len(chars), item, count, worn)
    BY <1>2, <1>7 DEF AddItem, Ask
<1>8. CASE \E count \in Counts : CountItem(Len(chars), count)
    BY <1>2, <1>8 DEF CountItem, Ask
<1> QED BY <1>3, <1>4, <1>5, <1>6, <1>7, <1>8 DEF Requests

\* Every step keeps those who wait ahead of the client.
LEMMA StepSweeps == ASSUME Game, Sweeps(sweep, chars), [Next]_vars PROVE Sweeps(sweep', chars')
<1>1. CASE Receive \/ UNCHANGED vars
    BY <1>1 DEF Receive, vars
<1>2. CASE Requests
    BY <1>2, RequestSweeps
<1>3. CASE \E account \in Accounts, name \in Names : Create(account, name)
    BY <1>3, CreateSweeps
<1>4. CASE \E i \in DOMAIN chars : Raises(i) \/ \E item \in Equipment : TakeOff(i, item)
    BY <1>4, RaisesSweeps, TakeOffSweeps
<1> QED BY <1>1, <1>2, <1>3, <1>4, NextIs

\* A whole sweep misses nobody who was there at its start and has not risen since,
\* whatever is created and gained meanwhile, for every number of characters the last
\* page's byte can tell.  The invariant behind it: each of those that wait has as many
\* ahead as the pages read hold, and the last page told is not yet read.
THEOREM NobodyIsMissed == Spec => []NoneMissed
<1>1. Init => Sweeps(sweep, chars)
    BY IdleSweeps DEF Init
<1>2. Sweeps(sweep, chars) /\ Game /\ [Next]_vars => Sweeps(sweep, chars)'
    <2> SUFFICES ASSUME Sweeps(sweep, chars), Game, [Next]_vars PROVE Sweeps(sweep, chars)'
        OBVIOUS
    <2>1. Sweeps(sweep', chars')
        BY StepSweeps
    <2> QED BY <2>1 DEF Sweeps, Waits, AheadIn
<1>3. Sweeps(sweep, chars) => NoneMissed
    <2> SUFFICES ASSUME Sweeps(sweep, chars), sweep.next > sweep.last, Len(chars) <= Byte * RANK_PAGE_SIZE,
                        NEW p \in sweep.waiting
                 PROVE  FALSE
        BY DEF NoneMissed
    <2>1. sweep.next \in Nat /\ sweep.last \in Nat /\ sweep.next <= sweep.last
        BY DEF Sweeps, Waits
    <2> QED BY <2>1
<1>4. IInv => Game
    BY DEF IInv
<1> QED BY <1>1, <1>2, <1>3, <1>4, IInvHolds, PTL DEF Spec
=============================================================================
