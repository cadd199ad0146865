----------------------------- MODULE FieldProofs -----------------------------
(***************************************************************************)
(* What is proved of the fight (Field), for every set of monsters, every   *)
(* place they are born at and the player goes to, and every radius.        *)
(*                                                                         *)
(* FInv holds of the session's tables: the order of s.monsters repeats no  *)
(* uid, positions are positions, and a sleeping spawn_world or             *)
(* kill_and_respawn means that the player is in the world.  CInv is        *)
(* Combat's agreement of HP, death, HP bar and revival offer, seen through *)
(* the mapping of Field's distances to zones.  DropInv is Loot's: a uid    *)
(* handed out has its bag in s.dropbags or its item with the player.       *)
(*                                                                         *)
(* The sections: sorting a finite set (dict order, near.sort); the steps   *)
(* of combat_loop in whole numbers; Combat alone; Loot alone; a round of   *)
(* combat_loop, monster after monster; _pick_victims; the field's steps    *)
(* and the theorems.                                                       *)
(***************************************************************************)
EXTENDS Field, SequenceTheorems, FiniteSetTheorems, WellFoundedInduction, TLAPS
-----------------------------------------------------------------------------
(* Sorting: what InOrder and Keep return. *)

\* A non-empty family of finite sets has a member none of whose subsets is in it.
LEMMA LeastSet ==
    ASSUME NEW S, NEW F \in SUBSET FiniteSubsetsOf(S), F # {}
    PROVE  \E X \in F : \A Y \in F : Y \subseteq X => Y = X
<1> DEFINE R == StrictSubsetOrdering(S)
<1>1. IsWellFoundedOn(R, FiniteSubsetsOf(S))
    BY FS_StrictSubsetOrderingWellFounded
<1>2. \A X, Y \in F : Y \subseteq X /\ Y # X => <<Y, X>> \in R
    BY DEF StrictSubsetOrdering, FiniteSubsetsOf
<1> HIDE DEF R
<1>3. \E X \in F : \A Y \in F : ~(<<Y, X>> \in R)
    BY <1>1, WFMin
<1> QED BY <1>2, <1>3

\* Induction over the natural numbers, for a set of them.
LEMMA SetInduction ==
    ASSUME NEW T \in SUBSET Nat, 0 \in T, \A n \in T : n + 1 \in T
    PROVE  T = Nat
<1> SUFFICES ASSUME NEW k \in Nat, k \notin T PROVE FALSE
    OBVIOUS
<1> DEFINE F == {1..n : n \in Nat \ T}
<1>1. F \in SUBSET FiniteSubsetsOf(Nat) /\ F # {}
    <2>1. ASSUME NEW n \in Nat PROVE 1..n \in FiniteSubsetsOf(Nat)
        BY FS_Interval DEF FiniteSubsetsOf
    <2> QED BY <2>1
<1>2. PICK X \in F : \A Y \in F : Y \subseteq X => Y = X
    <2> HIDE DEF F
    <2> QED BY <1>1, LeastSet
<1>3. PICK m \in Nat \ T : X = 1..m
    BY <1>2
<1>4. m # 0 /\ m - 1 \in Nat
    BY <1>3
<1>5. m - 1 \notin T
    BY <1>3, <1>4
<1>6. 1..(m - 1) \in F /\ 1..(m - 1) \subseteq X /\ m \in X /\ m \notin 1..(m - 1)
    BY <1>3, <1>4, <1>5
<1> QED BY <1>2, <1>6

\* The same for the subsets of a finite set: the least that is not in F.
LEMMA LeastSubset ==
    ASSUME NEW S, IsFiniteSet(S), NEW F, \E X \in SUBSET S : X \notin F
    PROVE  \E X \in SUBSET S : X \notin F /\ \A Y \in SUBSET X : Y # X => Y \in F
<1> DEFINE G == (SUBSET S) \ F
<1>1. G \in SUBSET FiniteSubsetsOf(S) /\ G # {}
    BY FS_FiniteSubsetsOfFinite
<1>2. \A X \in G : \A Y \in SUBSET X : Y \notin F => Y \in G
    OBVIOUS
<1>3. G \subseteq SUBSET S /\ G \cap F = {}
    OBVIOUS
<1> HIDE DEF G
<1>4. PICK X \in G : \A Y \in G : Y \subseteq X => Y = X
    BY <1>1, LeastSet
<1> QED BY <1>2, <1>3, <1>4

-----------------------------------------------------------------------------
\* R puts the members of S in a row.
StrictOrder(R, S) ==
    /\ \A x \in S : <<x, x>> \notin R
    /\ \A x, y, z \in S : <<x, y>> \in R /\ <<y, z>> \in R => <<x, z>> \in R
    /\ \A x, y \in S : x = y \/ <<x, y>> \in R \/ <<y, x>> \in R

Last(m, S, R) == m \in S /\ \A x \in S \ {m} : <<x, m>> \in R

\* A finite set that is not empty has a last member.
LEMMA LastExists ==
    ASSUME NEW S, IsFiniteSet(S), NEW R, StrictOrder(R, S), NEW X \in SUBSET S, X # {}
    PROVE  \E m : Last(m, X, R)
<1> DEFINE F == {Y \in SUBSET S : Y = {} \/ \E m : Last(m, Y, R)}
<1> SUFFICES ASSUME X \notin F PROVE FALSE
    OBVIOUS
<1>1. \E Y \in SUBSET S : Y \notin F
    OBVIOUS
<1>2. \A Y \in SUBSET S : Y \notin F <=> Y # {} /\ ~ \E m : Last(m, Y, R)
    OBVIOUS
<1> HIDE DEF F
<1>3. PICK Y \in SUBSET S : Y \notin F /\ \A Z \in SUBSET Y : Z # Y => Z \in F
    BY <1>1, LeastSubset
<1>4. PICK x \in Y : TRUE
    BY <1>2, <1>3
<1>5. Y \ {x} \in SUBSET S /\ Y \ {x} \in F
    BY <1>3, <1>4
<1>6. CASE Y \ {x} = {}
    <2>1. Last(x, Y, R)
        BY <1>4, <1>6 DEF Last
    <2> QED BY <1>2, <1>3, <2>1
<1>7. CASE Y \ {x} # {}
    <2>1. PICK m : Last(m, Y \ {x}, R)
        BY <1>2, <1>5, <1>7
    <2>2. m \in S /\ x \in S /\ m # x /\ m \in Y
        BY <1>3, <1>4, <2>1 DEF Last
    <2>3. CASE <<x, m>> \in R
        <3>1. Last(m, Y, R)
            BY <2>1, <2>2, <2>3 DEF Last
        <3> QED BY <1>2, <1>3, <3>1
    <2>4. CASE <<m, x>> \in R
        <3>1. \A y \in Y \ {x} : <<y, x>> \in R
            BY <1>3, <2>1, <2>2, <2>4 DEF Last, StrictOrder
        <3>2. Last(x, Y, R)
            BY <1>4, <3>1 DEF Last
        <3> QED BY <1>2, <1>3, <3>2
    <2> QED BY <2>2, <2>3, <2>4 DEF StrictOrder
<1> QED BY <1>6, <1>7

Sorts(q, S, R) ==
    /\ q \in [1..Cardinality(S) -> S]
    /\ \A i, j \in 1..Cardinality(S) : i < j => <<q[i], q[j]>> \in R

\* A finite set can be sorted: its last member after the others.
LEMMA SortedExists ==
    ASSUME NEW S, IsFiniteSet(S), NEW R, StrictOrder(R, S)
    PROVE  \E q : Sorts(q, S, R)
<1> DEFINE F == {X \in SUBSET S : \E q : Sorts(q, X, R)}
<1> SUFFICES ASSUME S \notin F PROVE FALSE
    OBVIOUS
<1>1. \E X \in SUBSET S : X \notin F
    OBVIOUS
<1>2. \A X \in SUBSET S : X \in F <=> \E q : Sorts(q, X, R)
    OBVIOUS
<1> HIDE DEF F
<1>3. PICK X \in SUBSET S : X \notin F /\ \A Z \in SUBSET X : Z # X => Z \in F
    BY <1>1, LeastSubset
<1>4. X # {}
    <2> SUFFICES ASSUME X = {} PROVE FALSE
        OBVIOUS
    <2>1. Cardinality(X) = 0
        BY FS_EmptySet
    <2> DEFINE q == [i \in 1..0 |-> i]
    <2>2. 1..0 = {}
        OBVIOUS
    <2>3. q \in [1..0 -> X]
        BY <2>2
    <2> HIDE DEF q
    <2>4. Sorts(q, X, R)
        BY <2>1, <2>2, <2>3 DEF Sorts
    <2> QED BY <1>2, <1>3, <2>4
<1>5. PICK m : Last(m, X, R)
    BY <1>4, LastExists
<1>6. m \in X
    BY <1>5 DEF Last
<1> DEFINE Y == X \ {m}
           n == Cardinality(Y)
<1>7. IsFiniteSet(X) /\ IsFiniteSet(Y)
    BY FS_Subset
<1>8. n \in Nat /\ Cardinality(X) = n + 1
    <2>1. n \in Nat /\ Cardinality(X) \in Nat
        BY <1>7, FS_CardinalityType
    <2>2. Cardinality(X \ {m}) = IF m \in X THEN Cardinality(X) - 1 ELSE Cardinality(X)
        BY <1>7, FS_RemoveElement
    <2> QED BY <1>6, <2>1, <2>2
<1>9. Y \in SUBSET S /\ Y \in F
    BY <1>3, <1>6
<1>10. PICK p : Sorts(p, Y, R)
    BY <1>2, <1>9
<1>11. p \in [1..n -> Y] /\ \A i, j \in 1..n : i < j => <<p[i], p[j]>> \in R
    BY <1>10 DEF Sorts
<1> DEFINE q == [i \in 1..(n + 1) |-> IF i = n + 1 THEN m ELSE p[i]]
<1>12. \A i \in 1..(n + 1) : i = n + 1 \/ i \in 1..n
    BY <1>8
<1>13. \A y \in Y : <<y, m>> \in R /\ y \in X
    BY <1>5 DEF Last
<1> HIDE DEF Y, n
<1>14. q \in [1..(n + 1) -> X]
    BY <1>6, <1>11, <1>12, <1>13
<1>15. ASSUME NEW i \in 1..(n + 1), NEW j \in 1..(n + 1), i < j PROVE <<q[i], q[j]>> \in R
    <2>1. i \in 1..n /\ i # n + 1
        BY <1>8, <1>15
    <2>2. q[i] = p[i] /\ p[i] \in Y
        BY <1>11, <2>1
    <2>3. CASE j = n + 1
        BY <1>13, <2>2, <2>3
    <2>4. CASE j # n + 1
        <3>1. j \in 1..n
            BY <1>12, <2>4
        <3> QED BY <1>11, <1>15, <2>1, <2>2, <2>4, <3>1
    <2> QED BY <2>3, <2>4
<1> HIDE DEF q
<1>16. Sorts(q, X, R)
    BY <1>8, <1>14, <1>15 DEF Sorts
<1> QED BY <1>2, <1>3, <1>16

\* q is a sequence of members of S, each at most once.
Once(q, S) == q \in Seq(S) /\ \A i, j \in 1..Len(q) : q[i] = q[j] => i = j

\* A function on 1..n is a sequence of length n.
LEMMA FunctionIsSeq ==
    ASSUME NEW n \in Nat, NEW S, NEW q \in [1..n -> S]
    PROVE  q \in Seq(S) /\ Len(q) = n /\ DOMAIN q = 1..n
<1>1. q \in Seq(S)
    BY SeqDef
<1>2. Len(q) \in Nat /\ DOMAIN q = 1..Len(q)
    BY <1>1, LenProperties
<1>3. 1..n = 1..Len(q)
    BY <1>2
<1>4. Len(q) = n
    <2>1. CASE Len(q) > n
        <3>1. Len(q) \in 1..Len(q)
            BY <1>2, <2>1
        <3> QED BY <1>3, <2>1, <3>1
    <2>2. CASE n > Len(q)
        <3>1. n \in 1..n
            BY <1>2, <2>2
        <3> QED BY <1>2, <1>3, <2>2, <3>1
    <2> QED BY <1>2, <2>1, <2>2
<1> QED BY <1>1, <1>2, <1>4

\* What InOrder returns.
LEMMA InOrderIs ==
    ASSUME NEW S, IsFiniteSet(S), NEW R, StrictOrder(R, S)
    PROVE  /\ Once(InOrder(S, R), S) /\ Len(InOrder(S, R)) = Cardinality(S)
           /\ Cardinality(S) \in Nat /\ DOMAIN InOrder(S, R) = 1..Cardinality(S)
           /\ \A i, j \in 1..Cardinality(S) : i < j => <<InOrder(S, R)[i], InOrder(S, R)[j]>> \in R
           /\ \A x \in S : \E i \in 1..Cardinality(S) : InOrder(S, R)[i] = x
<1> DEFINE n == Cardinality(S)
           q == InOrder(S, R)
<1>1. n \in Nat
    BY FS_CardinalityType
<1>2. q \in [1..n -> S] /\ \A i, j \in 1..n : i < j => <<q[i], q[j]>> \in R
    <2>1. PICK p : Sorts(p, S, R)
        BY SortedExists
    <2>2. \E k \in [1..n -> S] : \A i, j \in DOMAIN k : i < j => <<k[i], k[j]>> \in R
        <3>1. p \in [1..n -> S] /\ \A i, j \in DOMAIN p : i < j => <<p[i], p[j]>> \in R
            BY <2>1 DEF Sorts
        <3> QED BY <3>1
    <2>3. q \in [1..n -> S] /\ \A i, j \in DOMAIN q : i < j => <<q[i], q[j]>> \in R
        BY <2>2 DEF InOrder
    <2>4. DOMAIN q = 1..n
        BY <2>3
    <2> QED BY <2>3, <2>4
<1> HIDE DEF q, n
<1>3. q \in Seq(S) /\ Len(q) = n /\ DOMAIN q = 1..n
    BY <1>1, <1>2, FunctionIsSeq
<1>4. ASSUME NEW i \in 1..n, NEW j \in 1..n, q[i] = q[j] PROVE i = j
    <2>1. q[i] \in S /\ q[j] \in S
        BY <1>2
    <2>2. ~(i < j) /\ ~(j < i)
        BY <1>2, <1>4, <2>1 DEF StrictOrder
    <2> QED BY <1>1, <2>2
<1>5. Once(q, S)
    BY <1>3, <1>4 DEF Once
<1>6. IsFiniteSet(1..n) /\ Cardinality(1..n) = n
    <2>1. IsFiniteSet(1..n)
        BY <1>1, FS_Interval
    <2>2. Cardinality(1..n) = IF 1 > n THEN 0 ELSE n - 1 + 1
        BY <1>1, FS_Interval
    <2> QED BY <1>1, <2>1, <2>2
<1>7. q \in Injection(1..n, S)
    <2>1. IsInjective(q)
        BY <1>3, <1>4 DEF IsInjective
    <2> QED BY <1>2, <2>1 DEF Injection
<1>8. q \in Surjection(1..n, S)
    <2>1. Cardinality(1..n) = Cardinality(S)
        BY <1>6 DEF n
    <2> QED BY <1>7, <2>1, FS_Injection
<1>9. \A x \in S : \E i \in 1..n : q[i] = x
    BY <1>8 DEF Surjection
<1> QED BY <1>1, <1>2, <1>3, <1>5, <1>9 DEF q, n

\* Numbers are in a row.
LEMMA AscendingOrder ==
    ASSUME NEW S \in SUBSET Int
    PROVE  StrictOrder(Ascending(S), S)
BY DEF StrictOrder, Ascending

\* What Keep leaves of a sequence without repetitions.
LEMMA KeepIs ==
    ASSUME NEW S, NEW T, NEW q, Once(q, T)
    PROVE  /\ Once(Keep(q, S), T)
           /\ Range(Keep(q, S)) = Range(q) \cap S
<1> DEFINE kept == {i \in DOMAIN q : q[i] \in S}
           nth == InOrder(kept, Ascending(kept))
           k == Keep(q, S)
           n == Cardinality(kept)
<1>1. q \in Seq(T) /\ Len(q) \in Nat /\ DOMAIN q = 1..Len(q) /\ \A i \in 1..Len(q) : q[i] \in T
    BY LenProperties, ElementOfSeq DEF Once
<1>2. kept \in SUBSET (1..Len(q)) /\ kept \in SUBSET Int
    BY <1>1
<1>3. IsFiniteSet(kept)
    <2>1. IsFiniteSet(1..Len(q))
        BY <1>1, FS_Interval
    <2> QED BY <1>2, <2>1, FS_Subset
<1>4. \A i \in kept : i \in 1..Len(q) /\ q[i] \in S /\ q[i] \in T
    BY <1>1
<1>5. \A i \in 1..Len(q) : q[i] \in S => i \in kept
    BY <1>1
<1>6. k = [i \in DOMAIN nth |-> q[nth[i]]]
    BY DEF Keep
<1> HIDE DEF kept, k
<1>7. StrictOrder(Ascending(kept), kept)
    BY <1>2, AscendingOrder
<1>8. /\ Once(nth, kept) /\ Len(nth) = n /\ n \in Nat /\ DOMAIN nth = 1..n
      /\ \A x \in kept : \E i \in 1..n : nth[i] = x
    BY <1>3, <1>7, InOrderIs
<1> HIDE DEF nth, n
<1>9. \A i \in 1..n : nth[i] \in kept
    BY <1>8, ElementOfSeq DEF Once
<1>10. /\ k \in [1..n -> T] /\ \A i \in 1..n : k[i] = q[nth[i]]
    BY <1>4, <1>6, <1>8, <1>9
<1>11. k \in Seq(T) /\ Len(k) = n /\ DOMAIN k = 1..n
    BY <1>8, <1>10, FunctionIsSeq
<1>12. ASSUME NEW i \in 1..n, NEW j \in 1..n, k[i] = k[j] PROVE i = j
    <2>1. nth[i] \in 1..Len(q) /\ nth[j] \in 1..Len(q) /\ q[nth[i]] = q[nth[j]]
        BY <1>4, <1>9, <1>10, <1>12
    <2>2. nth[i] = nth[j]
        BY <2>1 DEF Once
    <2> QED BY <1>8, <2>2 DEF Once
<1>13. Range(k) = Range(q) \cap S
    <2>1. ASSUME NEW x \in Range(k) PROVE x \in Range(q) \cap S
        <3>1. PICK i \in 1..n : x = k[i]
            BY <1>11 DEF Range
        <3> QED BY <1>1, <1>4, <1>9, <1>10, <3>1 DEF Range
    <2>2. ASSUME NEW x \in Range(q) \cap S PROVE x \in Range(k)
        <3>1. PICK i \in 1..Len(q) : x = q[i]
            BY <1>1 DEF Range
        <3>2. PICK j \in 1..n : nth[j] = i
            BY <1>5, <1>8, <3>1
        <3> QED BY <1>10, <1>11, <3>1, <3>2 DEF Range
    <2> QED BY <2>1, <2>2
<1> QED BY <1>11, <1>12, <1>13 DEF Once, k

-----------------------------------------------------------------------------
(* Whole-number geometry: a chasing monster does not fall back. *)

\* Products of whole numbers, as far as the distances need them.
LEMMA SquareGrows ==
    /\ \A a, b \in Nat : a <= b <=> Sq(a) <= Sq(b)
    /\ \A a \in Int : Sq(a) \in Nat /\ Sq(-a) = Sq(a)
<1>1. ASSUME NEW a \in Nat, NEW b \in Nat PROVE a <= b <=> Sq(a) <= Sq(b)
    <2>1. CASE a <= b
        <3>1. a * a <= a * b /\ a * b <= b * b
            BY <2>1
        <3>2. a * a \in Nat /\ a * b \in Nat /\ b * b \in Nat
            OBVIOUS
        <3> QED BY <2>1, <3>1, <3>2 DEF Sq
    <2>2. CASE b < a
        <3>1. b * b <= a * b /\ a * b < a * a
            BY <2>2
        <3>2. a * a \in Nat /\ a * b \in Nat /\ b * b \in Nat
            OBVIOUS
        <3> QED BY <2>2, <3>1, <3>2 DEF Sq
    <2> QED BY <2>1, <2>2
<1>2. \A a \in Int : Sq(a) \in Nat /\ Sq(-a) = Sq(a)
    BY DEF Sq
<1> QED BY <1>1, <1>2

\* Root is the integer square root, as far as the step needs it.
LEMMA RootIs ==
    ASSUME NEW x \in 0..Sq(MONSTER_MOVE_STEP)
    PROVE  /\ Root[x] \in 0..MONSTER_MOVE_STEP
           /\ Sq(Root[x]) <= x /\ x < Sq(Root[x] + 1)
<1> DEFINE M == MONSTER_MOVE_STEP
           IsRoot(r) == Sq(r) <= x /\ x < Sq(r + 1)
<1>1. M \in Nat /\ Sq(M) \in Nat /\ x \in Nat /\ x <= Sq(M) /\ M + 1 \in Nat /\ Sq(M + 1) \in Nat
    BY FieldAssumption, SquareGrows
<1>2. \E r \in 0..M : IsRoot(r)
    <2> SUFFICES ASSUME \A r \in 0..M : ~IsRoot(r) PROVE FALSE
        OBVIOUS
    <2> DEFINE T == {n \in Nat : n <= M + 1 => Sq(n) <= x}
    <2>1. 0 \in T
        BY <1>1 DEF Sq
    <2>2. ASSUME NEW n \in T PROVE n + 1 \in T
        <3>1. CASE n + 1 <= M + 1
            <4>1. n \in 0..M /\ n <= M + 1
                BY <1>1, <3>1
            <4>2. Sq(n) <= x /\ ~(x < Sq(n + 1))
                BY <2>2, <4>1
            <4>3. Sq(n + 1) \in Nat
                BY SquareGrows
            <4> QED BY <1>1, <4>2, <4>3
        <3> QED BY <3>1
    <2>3. T = Nat
        <3>1. T \in SUBSET Nat
            OBVIOUS
        <3> HIDE DEF T
        <3> QED BY <2>1, <2>2, <3>1, SetInduction
    <2>4. Sq(M + 1) <= x
        BY <1>1, <2>3
    <2>5. M + 1 <= M <=> Sq(M + 1) <= Sq(M)
        BY <1>1, SquareGrows
    <2> QED BY <1>1, <2>4, <2>5
<1>3. Root[x] = CHOOSE r \in 0..M : IsRoot(r)
    BY DEF Root
<1> HIDE DEF IsRoot
<1>4. Root[x] \in 0..M /\ IsRoot(Root[x])
    BY <1>2, <1>3
<1> QED BY <1>4 DEF IsRoot

\* n * o / sqrt(d2) lies between 0 and o, rounded down or not, if n is below the distance.
LEMMA PartBetween ==
    ASSUME NEW n \in 0..MONSTER_MOVE_STEP, NEW o \in Int, NEW d2 \in Nat,
           Sq(o) <= d2, Sq(n) < d2
    PROVE  /\ Part(n, o, d2) \in Int
           /\ o >= 0 => 0 <= Part(n, o, d2) /\ Part(n, o, d2) <= o
           /\ o < 0 => o <= Part(n, o, d2) /\ Part(n, o, d2) <= 0
<1> DEFINE N == Sq(n)
           O == Sq(o)
           x == Sq(n * o) \div d2
           k == Root[x]
           K == Sq(k)
           b == IF o >= 0 THEN o ELSE -o
<1>1. N \in Nat /\ O \in Nat /\ n \in Nat /\ b \in Nat /\ Sq(b) = O /\ n * o \in Int
    BY SquareGrows, FieldAssumption
<1>2. Sq(n * o) = N * O /\ Sq(n * o) \in Nat
    BY <1>1, SquareGrows DEF Sq
<1>3. N \in 0..Sq(MONSTER_MOVE_STEP)
    BY <1>1, SquareGrows, FieldAssumption
<1> HIDE DEF N, O, b
<1>4. N * O <= N * d2 /\ N * d2 \in Nat /\ N * O \in Nat
    <2>1. O <= d2
        BY DEF O
    <2> QED BY <1>1, <2>1
<1>5. d2 > 0 /\ N < d2 /\ O <= d2
    BY <1>1 DEF N, O
<1>6. x \in Nat /\ x * d2 <= N * O
    <2>1. \A c \in Nat : (c \div d2) \in Nat /\ (c \div d2) * d2 <= c
        BY <1>5
    <2> QED BY <1>2, <2>1
<1> HIDE DEF x
<1>7. x <= N
    <2> SUFFICES ASSUME x > N PROVE FALSE
        BY <1>1, <1>6
    <2>1. x * d2 >= (N + 1) * d2
        BY <1>1, <1>6, <1>5
    <2>2. (N + 1) * d2 = N * d2 + d2
        BY <1>1
    <2> QED BY <1>4, <1>5, <1>6, <2>1, <2>2
<1>8. x \in 0..Sq(MONSTER_MOVE_STEP)
    <2>1. Sq(MONSTER_MOVE_STEP) \in Nat /\ N <= Sq(MONSTER_MOVE_STEP)
        BY <1>3, SquareGrows, FieldAssumption
    <2> QED BY <1>1, <1>6, <1>7, <2>1
<1>9. k \in Nat /\ K \in Nat /\ K <= x
    BY <1>8, RootIs, SquareGrows, FieldAssumption
<1> HIDE DEF k, K
<1>10. K * d2 <= N * O
    <2>1. K * d2 <= x * d2 /\ K * d2 \in Nat /\ x * d2 \in Nat
        BY <1>9, <1>6
    <2> QED BY <1>4, <1>6, <2>1
<1>11. K <= O
    <2> SUFFICES ASSUME K > O PROVE FALSE
        BY <1>1, <1>9
    <2>1. K * d2 > O * d2 /\ O * d2 >= O * N
        BY <1>1, <1>5, <1>9
    <2>2. K * d2 \in Nat /\ O * d2 \in Nat /\ O * N \in Nat /\ O * N = N * O
        BY <1>1, <1>9
    <2> QED BY <1>10, <2>1, <2>2
<1>12. k <= b
    BY <1>1, <1>9, <1>11, SquareGrows DEF K
<1>13. ASSUME k = b, b # 0 PROVE FALSE
    <2>1. K = O
        BY <1>13, <1>1 DEF K
    <2>2. O > 0
        <3>1. Sq(b) > 0
            BY <1>13, <1>1 DEF Sq
        <3> QED BY <1>1, <3>1
    <2>3. O * d2 > O * N
        BY <2>2, <1>1, <1>5
    <2>4. O * d2 \in Nat /\ O * N \in Nat /\ O * N = N * O
        BY <1>1
    <2> QED BY <1>10, <2>1, <2>3, <2>4
<1>14. Part(n, o, d2) = IF o >= 0 THEN k ELSE IF K * d2 = Sq(n * o) THEN -k ELSE -k - 1
    BY DEF Part, k, K, x
<1>15. CASE o >= 0
    <2>1. Part(n, o, d2) = k /\ b = o
        BY <1>14, <1>15 DEF b
    <2> QED BY <1>9, <1>12, <1>15, <2>1
<1>16. CASE o < 0
    <2>1. b = -o /\ b # 0
        BY <1>16 DEF b
    <2>2. k < b
        BY <1>1, <1>9, <1>12, <1>13, <2>1
    <2>3. Part(n, o, d2) = -k \/ Part(n, o, d2) = -k - 1
        BY <1>14, <1>16
    <2> QED BY <1>1, <1>9, <1>16, <2>1, <2>2, <2>3
<1> QED BY <1>15, <1>16

\* One coordinate of a step brings the monster no farther from the player's.
LEMMA ApproachCloser ==
    ASSUME NEW m \in Int, NEW a \in Int, NEW d2 \in Nat,
           Sq(a - m) <= d2, Sq(MONSTER_ATTACK_RANGE) < d2
    PROVE  /\ Approach(m, a - m, d2) \in Int
           /\ Sq(Approach(m, a - m, d2) - a) <= Sq(m - a)
<1> DEFINE rest == MONSTER_ATTACK_RANGE \div 2
           M == MONSTER_MOVE_STEP
           o == a - m
           new == Approach(m, o, d2)
<1>1. o \in Int /\ M \in Nat /\ MONSTER_ATTACK_RANGE \in Nat /\ MONSTER_ATTACK_RANGE <= M
    BY FieldAssumption
<1>2. rest \in Nat /\ rest <= MONSTER_ATTACK_RANGE /\ rest \in 0..M
    BY <1>1
<1>3. Sq(rest) < d2
    <2>1. Sq(rest) <= Sq(MONSTER_ATTACK_RANGE) /\ Sq(rest) \in Nat /\ Sq(MONSTER_ATTACK_RANGE) \in Nat
        BY <1>1, <1>2, SquareGrows
    <2> QED BY <2>1
<1>4. new = IF d2 > Sq(M + rest) THEN m + Part(M, o, d2) ELSE m + o + Part(rest, -o, d2)
    BY DEF Approach
<1> HIDE DEF rest, M, new
<1>5. \E p \in Int : new = a + p /\ (o >= 0 => -o <= p /\ p <= o) /\ (o < 0 => o <= p /\ p <= -o)
    <2>1. CASE d2 > Sq(M + rest)
        <3>1. Sq(M) <= Sq(M + rest) /\ Sq(M) \in Nat /\ Sq(M + rest) \in Nat
            BY <1>1, <1>2, SquareGrows
        <3>2. Sq(M) < d2 /\ M \in 0..M
            BY <1>1, <2>1, <3>1
        <3>3. /\ Part(M, o, d2) \in Int
              /\ o >= 0 => 0 <= Part(M, o, d2) /\ Part(M, o, d2) <= o
              /\ o < 0 => o <= Part(M, o, d2) /\ Part(M, o, d2) <= 0
            BY <1>1, <3>2, PartBetween DEF M
        <3> DEFINE p == Part(M, o, d2) - o
        <3>4. new = a + p /\ p \in Int
            BY <1>4, <2>1, <3>3
        <3>5. (o >= 0 => -o <= p /\ p <= o) /\ (o < 0 => o <= p /\ p <= -o)
            BY <1>1, <3>3
        <3> QED BY <3>4, <3>5
    <2>2. CASE ~(d2 > Sq(M + rest))
        <3>1. -o \in Int /\ Sq(-o) <= d2
            BY <1>1, SquareGrows
        <3> DEFINE p == Part(rest, -o, d2)
        <3>2. /\ p \in Int
              /\ -o >= 0 => 0 <= p /\ p <= -o
              /\ -o < 0 => -o <= p /\ p <= 0
            BY <1>2, <1>3, <3>1, PartBetween DEF M
        <3>3. new = a + p
            BY <1>4, <2>2, <3>2
        <3> HIDE DEF p
        <3>4. (o >= 0 => -o <= p /\ p <= o) /\ (o < 0 => o <= p /\ p <= -o)
            BY <1>1, <3>2
        <3> QED BY <3>2, <3>3, <3>4
    <2> QED BY <2>1, <2>2
<1>6. PICK p \in Int : new = a + p /\ (o >= 0 => -o <= p /\ p <= o) /\ (o < 0 => o <= p /\ p <= -o)
    BY <1>5
<1> DEFINE P == IF p >= 0 THEN p ELSE -p
           B == IF o >= 0 THEN o ELSE -o
<1>7. P \in Nat /\ B \in Nat /\ P <= B
    BY <1>1, <1>6
<1>8. Sq(P) <= Sq(B)
    BY <1>7, SquareGrows
<1>9. Sq(P) = Sq(p) /\ Sq(B) = Sq(m - a)
    <2>1. Sq(-p) = Sq(p)
        BY <1>6, SquareGrows
    <2>2. -o = m - a /\ Sq(-o) = Sq(o)
        BY <1>1, SquareGrows
    <2> QED BY <2>1, <2>2
<1>10. new - a = p /\ new \in Int
    BY <1>6
<1> QED BY <1>8, <1>9, <1>10 DEF new

Places == Int \X Int

\* A chasing monster does not get farther from the player, whatever the rounding does.
LEMMA StepCloser ==
    ASSUME at \in Places, NEW m \in Places, Zone(m) = "chase"
    PROVE  Step(m) \in Places /\ Zone(Step(m)) \in {"chase", "strike"}
<1> DEFINE d2 == Dist2(m, at)
           x == m[1] - at[1]
           y == m[2] - at[2]
           nx == Approach(m[1], at[1] - m[1], d2)
           ny == Approach(m[2], at[2] - m[2], d2)
<1>1. m[1] \in Int /\ m[2] \in Int /\ at[1] \in Int /\ at[2] \in Int
    BY DEF Places
<1>2. /\ Sq(x) \in Nat /\ Sq(y) \in Nat /\ d2 = Sq(x) + Sq(y)
      /\ Sq(at[1] - m[1]) = Sq(x) /\ Sq(at[2] - m[2]) = Sq(y)
    <2>1. at[1] - m[1] = -x /\ at[2] - m[2] = -y /\ x \in Int /\ y \in Int
        BY <1>1
    <2> QED BY <2>1, SquareGrows DEF Dist2
<1>3. ~(d2 > Sq(AGGRO_RADIUS)) /\ d2 > Sq(MONSTER_ATTACK_RANGE)
    BY DEF Zone
<1>4. Sq(AGGRO_RADIUS) \in Nat /\ Sq(MONSTER_ATTACK_RANGE) \in Nat
    BY SquareGrows, FieldAssumption
<1>5. d2 \in Nat /\ Sq(at[1] - m[1]) <= d2 /\ Sq(at[2] - m[2]) <= d2 /\ Sq(MONSTER_ATTACK_RANGE) < d2
    BY <1>2, <1>3, <1>4
<1>6. Step(m) = <<nx, ny>>
    BY DEF Step
<1> HIDE DEF d2
<1>7. nx \in Int /\ Sq(nx - at[1]) <= Sq(x)
    BY <1>1, <1>5, ApproachCloser
<1>8. ny \in Int /\ Sq(ny - at[2]) <= Sq(y)
    BY <1>1, <1>5, ApproachCloser
<1> HIDE DEF nx, ny, x, y
<1>9. Dist2(Step(m), at) = Sq(nx - at[1]) + Sq(ny - at[2])
    BY <1>6 DEF Dist2
<1>10. Sq(nx - at[1]) \in Nat /\ Sq(ny - at[2]) \in Nat
    BY <1>1, <1>7, <1>8, SquareGrows
<1>11. ~(Dist2(Step(m), at) > Sq(AGGRO_RADIUS))
    BY <1>2, <1>3, <1>4, <1>7, <1>8, <1>9, <1>10
<1>12. Zone(Step(m)) \in {"chase", "strike"}
    BY <1>11 DEF Zone
<1>13. Step(m) \in Places
    BY <1>6, <1>7, <1>8 DEF Places
<1> QED BY <1>12, <1>13

-----------------------------------------------------------------------------
(* Combat alone, and Loot alone. *)

CInv == C!TypeOK /\ C!DeadAtZero /\ C!BarTrue /\ C!ToldWhenDead

\* Combat's instance counts as this module does.
LEMMA SameCard == \A S : C!Cardinality(S) = Cardinality(S)
BY DEF C!Cardinality, Cardinality

\* How many strike is a number, and 0 when no monster is near enough.
LEMMA AttackersType ==
    ASSUME C!TypeOK, NEW acted \in SUBSET C!Known
    PROVE  /\ C!Attackers(acted) \in Nat
           /\ C!Striking(acted) = {} => C!Attackers(acted) = 0
<1>1. acted \in SUBSET Uids
    BY DEF C!TypeOK
<1>2. C!Striking(acted) \in SUBSET acted
    BY DEF C!Striking
<1>3. IsFiniteSet(C!Striking(acted))
    BY <1>1, <1>2, CombatAssumption, FS_Subset
<1>4. Cardinality(C!Striking(acted)) \in Nat
    BY <1>3, FS_CardinalityType
<1>5. C!Striking(acted) = {} => Cardinality(C!Striking(acted)) = 0
    BY FS_EmptySet
<1> QED BY <1>4, <1>5, CombatAssumption, SameCard DEF C!Attackers

\* n blows take some HP, none when n is 0.
LEMMA BlowsType ==
    ASSUME NEW n \in Nat, NEW d \in C!Blows(n)
    PROVE  d \in Nat /\ (n = 0 => d = 0)
<1>1. n * MaxBlow \in Nat
    BY CombatAssumption
<1>2. n = 0 => n * MaxBlow = 0
    BY CombatAssumption
<1> QED BY <1>1, <1>2 DEF C!Blows

\* Full health is health.
LEMMA FullHp == MaxHp # 0 /\ MaxHp \in 0..MaxHp
BY CombatAssumption

\* Session.__init__.
LEMMA CInvInit == C!Init => CInv
BY FullHp DEF C!Init, CInv, C!TypeOK, C!DeadAtZero, C!BarTrue, C!ToldWhenDead, C!Known, C!Zones

\* A round of combat_loop: HP, death, bar and offer change together.
LEMMA TickStep ==
    ASSUME CInv, NEW acted \in SUBSET C!Known, C!CombatTick(acted)
    PROVE  CInv'
<1>1. PICK d \in C!Blows(C!Attackers(acted)) : C!Hurt(d)
    BY DEF C!CombatTick
<1>2. d \in Nat /\ (C!Striking(acted) = {} => d = 0)
    BY <1>1, AttackersType, BlowsType DEF CInv
<1>3. hp' \in 0..MaxHp /\ (d = 0 => hp' = hp)
    BY <1>1, <1>2, CombatAssumption DEF C!Hurt, CInv, C!TypeOK
<1>4. bar' = hp'
    <2>1. CASE C!Striking(acted) \cup C!Chasing(acted) = {}
        BY <2>1, <1>2, <1>3 DEF C!CombatTick, CInv, C!BarTrue
    <2>2. CASE C!Striking(acted) \cup C!Chasing(acted) # {}
        BY <2>2 DEF C!CombatTick
    <2> QED BY <2>1, <2>2
<1>5. C!DeadAtZero'
    BY DEF C!CombatTick, C!Death, C!DeadAtZero
<1>6. C!ToldWhenDead'
    BY DEF C!CombatTick, C!Death, CInv, C!ToldWhenDead
<1>7. C!TypeOK'
    BY <1>3, <1>4 DEF CInv, C!TypeOK, C!CombatTick, C!Death, C!Known
<1> QED BY <1>4, <1>5, <1>6, <1>7 DEF CInv, C!BarTrue

\* Every handler keeps them in agreement.
LEMMA CInvNext == CInv /\ [C!Next]_(C!vars) => CInv'
<1> SUFFICES ASSUME CInv, [C!Next]_(C!vars) PROVE CInv'
    OBVIOUS
<1> USE DEF CInv, C!DeadAtZero, C!BarTrue, C!ToldWhenDead
<1>1. CASE C!LoginGateway
    BY <1>1, FullHp DEF C!LoginGateway, C!TypeOK, C!Known
<1>2. CASE C!Revive
    BY <1>2, FullHp DEF C!Revive, C!TypeOK, C!Known
<1>3. CASE C!Move
    BY <1>3 DEF C!Move, C!TypeOK, C!Known
<1>4. ASSUME NEW U \in SUBSET Uids, C!Appear(U) PROVE CInv'
    BY <1>4 DEF C!Appear, C!TypeOK, C!Known
<1>5. ASSUME NEW U \in SUBSET Uids, C!Vanish(U) PROVE CInv'
    BY <1>5 DEF C!Vanish, C!TypeOK, C!Known
<1>6. CASE C!Tick
    BY <1>6, TickStep DEF C!Tick
<1>7. CASE C!Disconnect
    BY <1>7 DEF C!Disconnect
<1>8. CASE UNCHANGED C!vars
    BY <1>8 DEF C!vars, C!TypeOK, C!Known
<1> QED BY <1>1, <1>2, <1>3, <1>4, <1>5, <1>6, <1>7, <1>8 DEF C!Next

\* Type correctness of Combat: HP stays in 0..MaxHp whatever the blows take
\* (combat_loop's max(0, ...)).
THEOREM CombatTypeCorrect == C!Spec => []C!TypeOK
<1>1. CInv => C!TypeOK
    BY DEF CInv
<1> QED BY <1>1, CInvInit, CInvNext, PTL DEF C!Spec

\* What the client shows of its life is what the session holds (combat_loop,
\* on_player_revive, on_login_gateway).
THEOREM CombatAgrees == C!Spec => []C!ClientKnows
<1>1. CInv => C!ClientKnows
    BY DEF CInv, C!ClientKnows
<1> QED BY <1>1, CInvInit, CInvNext, PTL DEF C!Spec
-----------------------------------------------------------------------------
Bag(u) == \E d \in dropbags : d.uid = u

\* Bags carry the uids handed out so far, each at most one.
Numbered ==
    /\ \A d \in dropbags : d.uid \in 1..dropbag_uid
    /\ \A d, e \in dropbags : d.uid = e.uid => d = e

\* An item was given for exactly those uids whose bag is gone.
GivenOnce == \A u \in Duids : given[u] = IF u <= dropbag_uid /\ ~Bag(u) THEN 1 ELSE 0

\* The drops of a session, wherever they lie.
DropInv ==
    /\ dropbag_uid \in 0..MaxDrops /\ given \in [Duids -> Nat] /\ ground \subseteq Duids
    /\ Numbered /\ GivenOnce /\ ShownIsThere

\* No drop was handed out yet.
LEMMA DropInvInit ==
    ASSUME dropbag_uid = 0, dropbags = {}, ground = {}, given = [d \in Duids |-> 0]
    PROVE  DropInv
<1>1. dropbag_uid \in 0..MaxDrops
    BY LootAssumption
<1>2. given \in [Duids -> Nat]
    OBVIOUS
<1>3. GivenOnce
    BY LootAssumption DEF GivenOnce, Bag, Duids
<1> QED BY <1>1, <1>2, <1>3 DEF DropInv, Numbered, ShownIsThere

\* A new scene shows no bags, and the session keeps them.
LEMMA DropInvScene ==
    ASSUME DropInv, UNCHANGED <<dropbag_uid, dropbags, given>>, ground' \subseteq ground
    PROVE  DropInv'
BY DEF DropInv, Numbered, GivenOnce, ShownIsThere, Bag

\* Taking bags that are there, whichever they are.
LEMMA DropInvTake ==
    ASSUME DropInv, NEW taken \in SUBSET dropbags, Take(taken), UNCHANGED dropbag_uid
    PROVE  DropInv'
<1>1. given' \in [Duids -> Nat] /\ ground' \subseteq Duids
    BY DEF DropInv, Take
<1>2. Numbered'
    BY DEF DropInv, Numbered, Take
<1>3. GivenOnce'
  <2> SUFFICES ASSUME NEW u \in Duids
               PROVE  given'[u] = IF u <= dropbag_uid /\ ~Bag(u)' THEN 1 ELSE 0
      BY DEF GivenOnce
  <2>1. CASE \E d \in taken : d.uid = u
    <3>1. given[u] = 0 /\ u <= dropbag_uid
        BY <2>1 DEF DropInv, Numbered, GivenOnce, Bag, Duids
    <3>2. ~Bag(u)'
        BY <2>1 DEF DropInv, Numbered, Take, Bag
    <3> QED BY <2>1, <3>1, <3>2 DEF Take
  <2>2. CASE ~ \E d \in taken : d.uid = u
    <3>1. Bag(u)' <=> Bag(u)
        BY <2>2 DEF Take, Bag
    <3>2. given'[u] = given[u]
        BY <2>2 DEF Take
    <3> QED BY <3>1, <3>2 DEF DropInv, GivenOnce
  <2> QED BY <2>1, <2>2
<1>4. ShownIsThere'
    BY DEF DropInv, ShownIsThere, Take
<1> QED BY <1>1, <1>2, <1>3, <1>4 DEF DropInv

\* New bags, with the uids that follow.
LEMMA DropInvKill ==
    ASSUME DropInv, NEW n \in Nat, NEW P, Kill(n, P)
    PROVE  DropInv'
<1> USE LootAssumption
<1> DEFINE New == {[uid |-> dropbag_uid + i, at |-> P[i]] : i \in 1..n}
<1>1. /\ dropbag_uid \in Nat /\ MaxDrops \in Nat
      /\ dropbag_uid' = dropbag_uid + n /\ dropbag_uid' \in 0..MaxDrops
      /\ dropbags' = dropbags \cup New /\ given' = given
    BY DEF DropInv, Kill
<1>2. \A d \in New : d.uid \in (dropbag_uid + 1)..dropbag_uid'
    BY <1>1
<1>3. \A d, e \in New : d.uid = e.uid => d = e
    BY <1>1
<1>4. \A d \in dropbags : d.uid \in 1..dropbag_uid
    BY DEF DropInv, Numbered
<1>5. ground' \subseteq Duids
    BY <1>1 DEF DropInv, Kill, Duids
<1>6. Numbered'
  <2>1. \A d \in dropbags' : d.uid \in 1..dropbag_uid'
      BY <1>1, <1>2, <1>4
  <2>2. ASSUME NEW d \in dropbags', NEW e \in dropbags', d.uid = e.uid PROVE d = e
    <3>1. CASE d \in dropbags /\ e \in dropbags
        BY <2>2, <3>1 DEF DropInv, Numbered
    <3>2. CASE d \in New /\ e \in New
        BY <2>2, <3>2, <1>3
    <3> QED BY <1>1, <1>2, <1>4, <2>2, <3>1, <3>2
  <2> QED BY <2>1, <2>2 DEF Numbered
<1>7. GivenOnce'
  <2> SUFFICES ASSUME NEW u \in Duids
               PROVE  given[u] = IF u <= dropbag_uid' /\ ~Bag(u)' THEN 1 ELSE 0
      BY <1>1 DEF GivenOnce
  <2>1. CASE u <= dropbag_uid
    <3>1. Bag(u)' <=> Bag(u)
        BY <1>1, <1>2, <2>1 DEF Bag, Duids
    <3> QED BY <2>1, <3>1, <1>1 DEF DropInv, GivenOnce, Duids
  <2>2. CASE u > dropbag_uid /\ u <= dropbag_uid'
    <3>1. u - dropbag_uid \in 1..n
        BY <2>2, <1>1 DEF Duids
    <3>2. [uid |-> dropbag_uid + (u - dropbag_uid), at |-> P[u - dropbag_uid]] \in dropbags'
        BY <3>1, <1>1
    <3>3. dropbag_uid + (u - dropbag_uid) = u
        BY <1>1 DEF Duids
    <3>4. [uid |-> u, at |-> P[u - dropbag_uid]] \in dropbags'
        BY <3>2, <3>3
    <3>5. Bag(u)'
        BY <3>4 DEF Bag
    <3> QED BY <2>2, <3>5, <1>1 DEF DropInv, GivenOnce, Duids
  <2>3. CASE u > dropbag_uid'
      BY <2>3, <1>1 DEF DropInv, GivenOnce, Duids
  <2> QED BY <2>1, <2>2, <2>3, <1>1 DEF Duids
<1>8. ShownIsThere'
  <2> SUFFICES ASSUME NEW u \in ground' PROVE Bag(u)'
      BY DEF ShownIsThere, Bag
  <2>1. CASE u \in ground
      BY <2>1, <1>1 DEF DropInv, ShownIsThere, Bag
  <2>2. CASE u \in (dropbag_uid + 1)..(dropbag_uid + n)
    <3>1. u - dropbag_uid \in 1..n /\ dropbag_uid + (u - dropbag_uid) = u
        BY <2>2, <1>1
    <3>2. [uid |-> dropbag_uid + (u - dropbag_uid), at |-> P[u - dropbag_uid]] \in New
        BY <3>1
    <3> QED BY <3>1, <3>2, <1>1 DEF Bag
  <2> QED BY <2>1, <2>2 DEF Kill
<1> QED BY <1>1, <1>5, <1>6, <1>7, <1>8 DEF DropInv

\* One bag or one item, where the invariant says which.
LEMMA DropsCount == DropInv => EachDropOnce
<1> SUFFICES ASSUME DropInv, NEW u \in Duids
             PROVE  Cardinality({d \in dropbags : d.uid = u}) + given[u]
                        = IF u <= dropbag_uid THEN 1 ELSE 0
    BY DEF EachDropOnce
<1>1. CASE Bag(u)
  <2> PICK d \in dropbags : d.uid = u
      BY <1>1 DEF Bag
  <2>1. {e \in dropbags : e.uid = u} = {d}
      BY DEF DropInv, Numbered
  <2>2. Cardinality({d}) = 1
      BY FS_Singleton
  <2>3. u <= dropbag_uid /\ given[u] = 0
      BY <1>1 DEF DropInv, Numbered, GivenOnce, Duids
  <2> QED BY <2>1, <2>2, <2>3
<1>2. CASE ~Bag(u)
  <2>1. {e \in dropbags : e.uid = u} = {}
      BY <1>2 DEF Bag
  <2>2. Cardinality({e \in dropbags : e.uid = u}) = 0
      BY <2>1, FS_EmptySet
  <2>3. given[u] = IF u <= dropbag_uid THEN 1 ELSE 0
      BY <1>2 DEF DropInv, GivenOnce
  <2> QED BY <2>2, <2>3
<1> QED BY <1>1, <1>2

\* Loot alone, with its places.
LEMMA LootInit == Init => TypeOK /\ DropInv
<1> SUFFICES ASSUME Init PROVE TypeOK /\ DropInv
    OBVIOUS
<1>1. DropInv
    BY DropInvInit DEF Init
<1> QED BY <1>1 DEF Init, TypeOK, DropInv

\* Every handler keeps Loot's tables in order.
LEMMA LootNext == TypeOK /\ DropInv /\ [Next]_vars => TypeOK' /\ DropInv'
<1> SUFFICES ASSUME TypeOK, DropInv, [Next]_vars PROVE TypeOK' /\ DropInv'
    OBVIOUS
<1>1. DropInv'
    <2>1. ASSUME NEW m \in Maps, NEW p \in Spots, LoginGateway(m, p) \/ Teleport(m, p) PROVE DropInv'
        BY <2>1, DropInvScene DEF LoginGateway, Teleport
    <2>2. ASSUME NEW n \in 1..MaxDrops, NEW P, Kill(n, P) PROVE DropInv'
        BY <2>2, DropInvKill, LootAssumption
    <2>3. ASSUME NEW p \in Spots, Move(p) PROVE DropInv'
        BY <2>3, DropInvTake DEF Move, Underfoot
    <2>4. ASSUME NEW d \in dropbags, Pickup(d) PROVE DropInv'
        BY <2>4, DropInvTake DEF Pickup
    <2>5. CASE UNCHANGED vars
        BY <2>5, DropInvScene DEF vars
    <2> QED BY <2>1, <2>2, <2>3, <2>4, <2>5 DEF Next
<1>2. in_world' \in BOOLEAN /\ mapid' \in Maps /\ at' \in Spots
    BY DEF Next, LoginGateway, Teleport, Kill, Move, Pickup, TypeOK, vars
<1>3. dropbags' \subseteq Drop
    <2>1. ASSUME NEW n \in 1..MaxDrops, NEW P \in [1..n -> Spots], Kill(n, P) PROVE dropbags' \subseteq Drop
        <3>1. \A i \in 1..n : dropbag_uid + i \in Duids
            BY <2>1, LootAssumption DEF Kill, DropInv, Duids
        <3>2. \A i \in 1..n : [uid |-> dropbag_uid + i, at |-> P[i]] \in Drop
            BY <3>1 DEF Drop
        <3> QED BY <2>1, <3>2 DEF Kill, TypeOK
    <2> QED BY <2>1 DEF Next, LoginGateway, Teleport, Move, Pickup, Take, TypeOK, vars
<1> QED BY <1>1, <1>2, <1>3 DEF TypeOK, DropInv

\* Type correctness of Loot: a uid of a bag is one that was handed out
\* (on_attack's dropbag_uid).
THEOREM LootTypeCorrect == Spec => []TypeOK
<1> QED BY LootInit, LootNext, PTL DEF Spec

\* A drop is in s.dropbags or was given, once, never both (_auto_pickup, on_pickup).
THEOREM LootGivenOnce == Spec => []EachDropOnce
<1> QED BY DropsCount, LootInit, LootNext, PTL DEF Spec

\* A bag in the client's scene can be picked up (on_pickup, on_teleport).
THEOREM LootShownIsThere == Spec => []ShownIsThere
<1>1. DropInv => ShownIsThere
    BY DEF DropInv
<1> QED BY <1>1, LootInit, LootNext, PTL DEF Spec

-----------------------------------------------------------------------------
(* A round of combat_loop. *)

\* Nothing about the life of the player (CInv has that) or the drops (DropInv).
FInv ==
    /\ Once(order, Uids)
    /\ DOMAIN mpos \subseteq Uids /\ mpos \in [DOMAIN mpos -> Places]
    /\ at \in Places
    /\ dying \subseteq Uids /\ spawning \in BOOLEAN
    /\ spawning \/ dying # {} => in_world

Strikers(a) == {u \in a : Zone(mpos[u]) = "strike"}
Chasers(a)  == {u \in a : Zone(mpos[u]) = "chase"}

\* Combat's monsters and zones, seen through the mapping.
LEMMA SameZones ==
    /\ C!Known = Known
    /\ \A a \in SUBSET Known : C!Striking(a) = Strikers(a) /\ C!Chasing(a) = Chasers(a)
BY DEF C!Known, C!Striking, C!Chasing, Strikers, Chasers

Start == [hp |-> hp, pos |-> mpos, attackers |-> 0, events |-> FALSE, over |-> FALSE]

\* h has what the round has done after each monster, up to the n-th.
Turns(h, n, blows) ==
    h = [i \in 0..n |-> IF i = 0 THEN Start ELSE Act(order[i], blows)[h[i - 1]]]

\* There is such an h: monsters act one after the other.
LEMMA TurnsExist == ASSUME NEW blows, NEW n \in Nat PROVE \E h : Turns(h, n, blows)
<1> DEFINE T == {k \in Nat : \E h : Turns(h, k, blows)}
<1>1. 0 \in T
    <2> DEFINE h == [i \in 0..0 |-> Start]
    <2>1. Turns(h, 0, blows)
        BY DEF Turns
    <2> QED BY <2>1
<1>2. ASSUME NEW k \in T PROVE k + 1 \in T
    <2>1. PICK g : Turns(g, k, blows)
        OBVIOUS
    <2> DEFINE h == [i \in 0..(k + 1) |-> IF i <= k THEN g[i] ELSE Act(order[i], blows)[g[k]]]
    <2>2. ASSUME NEW i \in 0..(k + 1)
          PROVE  h[i] = IF i = 0 THEN Start ELSE Act(order[i], blows)[h[i - 1]]
        <3>1. CASE i <= k
            <4>1. i \in 0..k /\ h[i] = g[i]
                BY <3>1
            <4>2. g[i] = IF i = 0 THEN Start ELSE Act(order[i], blows)[g[i - 1]]
                BY <2>1, <4>1 DEF Turns
            <4>3. i # 0 => i - 1 \in 0..(k + 1) /\ i - 1 <= k
                BY <3>1
            <4>4. i # 0 => h[i - 1] = g[i - 1]
                BY <4>3
            <4> QED BY <4>1, <4>2, <4>4
        <3>2. CASE ~(i <= k)
            <4>1. i = k + 1 /\ i # 0 /\ i - 1 = k /\ k \in 0..(k + 1)
                BY <3>2
            <4>2. h[i] = Act(order[i], blows)[g[k]] /\ h[k] = g[k]
                BY <3>2, <4>1
            <4> QED BY <4>1, <4>2
        <3> QED BY <3>1, <3>2
    <2>3. h = [i \in 0..(k + 1) |-> h[i]]
        OBVIOUS
    <2> HIDE DEF h
    <2>4. Turns(h, k + 1, blows)
        BY <2>2, <2>3 DEF Turns
    <2> QED BY <2>4
<1>3. T = Nat
    <2>1. T \in SUBSET Nat
        OBVIOUS
    <2> HIDE DEF T
    <2> QED BY <2>1, <1>1, <1>2, SetInduction
<1> QED BY <1>3

\* Round is what they have done when all had their turn.
LEMMA RoundIs ==
    ASSUME NEW blows, Round(blows), Len(order) \in Nat
    PROVE  \E h : /\ Turns(h, Len(order), blows)
                  /\ hp' = h[Len(order)].hp /\ mpos' = h[Len(order)].pos
                  /\ bar' = IF h[Len(order)].events THEN h[Len(order)].hp ELSE bar
                  /\ player_dead' = h[Len(order)].over
                  /\ told' = (told \/ h[Len(order)].over)
<1> DEFINE n == Len(order)
           h == CHOOSE g : g = [i \in 0..n |-> IF i = 0 THEN Start ELSE Act(order[i], blows)[g[i - 1]]]
<1>1. \E g : g = [i \in 0..n |-> IF i = 0 THEN Start ELSE Act(order[i], blows)[g[i - 1]]]
    BY TurnsExist DEF Turns
<1>2. Turns(h, n, blows)
    BY <1>1 DEF Turns
<1>3. /\ hp' = h[n].hp /\ mpos' = h[n].pos
      /\ bar' = IF h[n].events THEN h[n].hp ELSE bar
      /\ player_dead' = h[n].over
      /\ told' = (told \/ h[n].over)
    BY Zenon DEF Round, Start
<1> QED BY <1>2, <1>3

\* What a round has done when the monsters in a have had their turn.
Did(r, a) ==
    /\ r \in Rounds
    /\ r.attackers = C!Attackers(a)
    /\ \E d \in C!Blows(C!Attackers(a)) : r.hp = IF d < hp THEN hp - d ELSE 0
    /\ r.over <=> r.hp = 0
    /\ r.events <=> Strikers(a) \cup Chasers(a) # {}
    /\ \A u \in DOMAIN mpos : r.pos[u] = IF u \in Chasers(a) THEN Step(mpos[u]) ELSE mpos[u]

\* How many of the monsters in a strike: a number up to MAX_ATTACKERS.
LEMMA AttackersIs ==
    ASSUME FInv, NEW a \in SUBSET Known
    PROVE  /\ IsFiniteSet(Strikers(a)) /\ Cardinality(Strikers(a)) \in Nat
           /\ C!Attackers(a) = IF Cardinality(Strikers(a)) < MAX_ATTACKERS
                               THEN Cardinality(Strikers(a)) ELSE MAX_ATTACKERS
           /\ C!Attackers(a) \in 0..MAX_ATTACKERS
           /\ C!Attackers(a) = 0 <=> Strikers(a) = {}
<1>1. Strikers(a) \in SUBSET Uids
    BY DEF Strikers, Known, FInv
<1>2. IsFiniteSet(Strikers(a))
    BY <1>1, CombatAssumption, FS_Subset
<1>3. Cardinality(Strikers(a)) \in Nat /\ (Cardinality(Strikers(a)) = 0 <=> Strikers(a) = {})
    BY <1>2, FS_CardinalityType, FS_EmptySet
<1>4. C!Attackers(a) = IF Cardinality(Strikers(a)) < MAX_ATTACKERS
                       THEN Cardinality(Strikers(a)) ELSE MAX_ATTACKERS
    BY SameZones, SameCard DEF C!Attackers
<1> QED BY <1>2, <1>3, <1>4, CombatAssumption

\* Before the first monster.
LEMMA DidNothing ==
    ASSUME FInv, CInv, ~player_dead
    PROVE  Did(Start, {})
<1>1. hp \in 1..MaxHp
    BY CombatAssumption DEF CInv, C!TypeOK, C!DeadAtZero
<1>2. Start \in Rounds
    BY <1>1, CombatAssumption DEF Start, Rounds, FInv, Places
<1>3. C!Attackers({}) = 0
    BY AttackersIs DEF Strikers
<1>4. 0 \in C!Blows(0)
    BY CombatAssumption DEF C!Blows
<1>5. hp = IF 0 < hp THEN hp - 0 ELSE 0
    BY <1>1
<1> QED BY <1>1, <1>2, <1>3, <1>4, <1>5 DEF Did, Start, Strikers, Chasers

\* A blow more.
LEMMA BlowAdds ==
    ASSUME NEW n \in Nat, NEW d \in C!Blows(n), NEW blow \in Blows
    PROVE  d \in Nat /\ blow \in Nat /\ d + blow \in C!Blows(n + 1)
<1>1. n * MaxBlow \in Nat /\ (n + 1) * MaxBlow = n * MaxBlow + MaxBlow
    BY CombatAssumption
<1> QED BY <1>1, CombatAssumption DEF C!Blows, Blows

\* One monster more.
LEMMA DidOneMore ==
    ASSUME FInv, CInv, NEW a \in SUBSET Known, NEW r, Did(r, a), NEW u \in Known \ a, ~r.over,
           NEW blows \in [1..MAX_ATTACKERS -> Blows]
    PROVE  Did(Act(u, blows)[r], a \cup {u})
<1> DEFINE z == Zone(mpos[u])
           b == a \cup {u}
           q == Act(u, blows)[r]
<1>1. /\ r \in Rounds /\ r.attackers = C!Attackers(a) /\ r.hp # 0
      /\ r.hp \in 0..MaxHp /\ r.pos \in [DOMAIN mpos -> Places] /\ r.attackers \in 0..MAX_ATTACKERS
      /\ r.events \in BOOLEAN /\ r.over \in BOOLEAN
    BY DEF Did, Rounds, Places
<1>2. q = IF z = "far" THEN r
          ELSE IF z = "chase" THEN [r EXCEPT !.pos[u] = Step(mpos[u]), !.events = TRUE]
          ELSE IF r.attackers >= MAX_ATTACKERS THEN r
          ELSE LET blow == blows[r.attackers + 1]
                   left == IF blow < r.hp THEN r.hp - blow ELSE 0
               IN  [r EXCEPT !.attackers = @ + 1, !.hp = left, !.events = TRUE,
                             !.over = (left = 0)]
    BY <1>1 DEF Act
<1>3. z \in {"far", "chase", "strike"} /\ u \in DOMAIN mpos /\ b \in SUBSET Known /\ u \notin a
    BY DEF Zone, Known
<1>4. /\ Strikers(b) = IF z = "strike" THEN Strikers(a) \cup {u} ELSE Strikers(a)
      /\ Chasers(b) = IF z = "chase" THEN Chasers(a) \cup {u} ELSE Chasers(a)
      /\ u \notin Strikers(a) /\ u \notin Chasers(a)
    BY <1>3 DEF Strikers, Chasers
<1>5. /\ C!Attackers(a) = IF Cardinality(Strikers(a)) < MAX_ATTACKERS
                          THEN Cardinality(Strikers(a)) ELSE MAX_ATTACKERS
      /\ C!Attackers(b) = IF Cardinality(Strikers(b)) < MAX_ATTACKERS
                          THEN Cardinality(Strikers(b)) ELSE MAX_ATTACKERS
      /\ Cardinality(Strikers(a)) \in Nat /\ IsFiniteSet(Strikers(a))
      /\ C!Attackers(a) = 0 <=> Strikers(a) = {}
    BY <1>3, AttackersIs
<1>6. r.pos[u] = mpos[u]
    BY <1>3, <1>4 DEF Did
<1> HIDE DEF z, b, q
<1>7. CASE z = "far"
    <2>1. q = r /\ C!Attackers(b) = C!Attackers(a) /\ Strikers(b) = Strikers(a) /\ Chasers(b) = Chasers(a)
        BY <1>2, <1>4, <1>5, <1>7
    <2>2. Did(q, b)
        BY <2>1 DEF Did
    <2> QED BY <2>2 DEF q, b
<1>8. CASE z = "chase"
    <2>1. /\ C!Attackers(b) = C!Attackers(a) /\ Strikers(b) = Strikers(a)
          /\ Chasers(b) = Chasers(a) \cup {u}
        BY <1>4, <1>5, <1>8
    <2>2. Step(mpos[u]) \in Places
        BY <1>3, <1>8, StepCloser DEF FInv, z
    <2>3. q = [r EXCEPT !.pos[u] = Step(mpos[u]), !.events = TRUE]
        BY <1>2, <1>8
    <2>4. /\ q.hp = r.hp /\ q.attackers = r.attackers /\ q.over = r.over /\ q.events = TRUE
          /\ q.pos = [r.pos EXCEPT ![u] = Step(mpos[u])]
        BY <1>1, <2>3 DEF Rounds
    <2>5. q \in Rounds
        BY <1>1, <2>2, <2>3 DEF Rounds, Places
    <2>6. \A v \in DOMAIN mpos : q.pos[v] = IF v \in Chasers(b) THEN Step(mpos[v]) ELSE mpos[v]
        BY <1>1, <2>1, <2>4 DEF Did
    <2>7. Did(q, b)
        BY <2>1, <2>4, <2>5, <2>6 DEF Did
    <2> QED BY <2>7 DEF q, b
<1>9. CASE z = "strike"
    <2>1. Strikers(b) = Strikers(a) \cup {u} /\ Chasers(b) = Chasers(a)
        BY <1>4, <1>9
    <2>2. Cardinality(Strikers(b)) = Cardinality(Strikers(a)) + 1
        BY <1>4, <1>5, <2>1, FS_AddElement
    <2>3. CASE r.attackers >= MAX_ATTACKERS
        <3>1. C!Attackers(b) = C!Attackers(a) /\ C!Attackers(a) # 0
            BY <1>1, <1>5, <2>2, <2>3, CombatAssumption
        <3>2. q = r
            BY <1>2, <1>9, <2>3
        <3>3. r.events
            BY <1>5, <3>1 DEF Did
        <3>4. Did(q, b)
            BY <2>1, <3>1, <3>2, <3>3 DEF Did
        <3> QED BY <3>4 DEF q, b
    <2>4. CASE ~(r.attackers >= MAX_ATTACKERS)
        <3> DEFINE n == C!Attackers(a)
                   blow == blows[r.attackers + 1]
                   left == IF blow < r.hp THEN r.hp - blow ELSE 0
        <3>1. n \in Nat /\ r.attackers = n /\ n < MAX_ATTACKERS /\ C!Attackers(b) = n + 1
            BY <1>1, <1>5, <2>2, <2>4, CombatAssumption
        <3>2. blow \in Blows
            BY <3>1, CombatAssumption
        <3>3. q = [r EXCEPT !.attackers = @ + 1, !.hp = left, !.events = TRUE, !.over = (left = 0)]
            BY <1>2, <1>9, <2>4
        <3>4. PICK d \in C!Blows(n) : r.hp = IF d < hp THEN hp - d ELSE 0
            BY DEF Did
        <3> HIDE DEF n, blow
        <3>5. d \in Nat /\ blow \in Nat /\ d + blow \in C!Blows(n + 1)
            BY <3>1, <3>2, <3>4, BlowAdds
        <3>6. hp \in 0..MaxHp
            BY DEF CInv, C!TypeOK
        <3>7. left = (IF d + blow < hp THEN hp - (d + blow) ELSE 0) /\ left \in 0..MaxHp
            BY <1>1, <3>4, <3>5, <3>6, CombatAssumption
        <3> HIDE DEF left
        <3>8. (left = 0) \in BOOLEAN /\ r.attackers + 1 \in 0..MAX_ATTACKERS
            BY <1>1, <3>1, CombatAssumption
        <3>9. /\ q.attackers = n + 1 /\ q.hp = left /\ q.events = TRUE /\ q.over = (left = 0)
              /\ q.pos = r.pos
            BY <1>1, <3>1, <3>3 DEF Rounds
        <3>10. q \in Rounds
            BY <1>1, <3>3, <3>7, <3>8 DEF Rounds
        <3>11. Did(q, b)
            <4>1. \E e \in C!Blows(C!Attackers(b)) : q.hp = IF e < hp THEN hp - e ELSE 0
                BY <3>1, <3>5, <3>7, <3>9
            <4>2. Strikers(b) \cup Chasers(b) # {}
                BY <2>1
            <4>3. \A v \in DOMAIN mpos : q.pos[v] = IF v \in Chasers(b) THEN Step(mpos[v]) ELSE mpos[v]
                BY <2>1, <3>9 DEF Did
            <4> QED BY <3>1, <3>9, <3>10, <4>1, <4>2, <4>3 DEF Did
        <3> QED BY <3>11 DEF q, b
    <2> QED BY <2>3, <2>4
<1> QED BY <1>3, <1>7, <1>8, <1>9

\* The whole round: some monsters act, all of them unless the player dies.
LEMMA RoundDid ==
    ASSUME FInv, CInv, ~player_dead, NEW blows \in [1..MAX_ATTACKERS -> Blows],
           NEW h, Turns(h, Len(order), blows)
    PROVE  \E a \in SUBSET Known : Did(h[Len(order)], a) /\ (~h[Len(order)].over => a = Known)
<1> DEFINE n == Len(order)
           Upto(i) == {u \in Known : \E j \in 1..i : order[j] = u}
           P(i) == \E a \in SUBSET Upto(i) : Did(h[i], a) /\ (~h[i].over => a = Upto(i))
           T == {i \in Nat : i <= n => P(i)}
<1>1. n \in Nat /\ order \in Seq(Uids) /\ DOMAIN order = 1..n
    BY LenProperties DEF FInv, Once
<1>2. 0 \in T
    <2>1. h[0] = Start
        BY <1>1 DEF Turns
    <2>2. Did(h[0], {})
        BY <2>1, DidNothing
    <2>3. Upto(0) = {}
        OBVIOUS
    <2> QED BY <2>2, <2>3
<1>3. ASSUME NEW i \in T PROVE i + 1 \in T
    <2> SUFFICES ASSUME i + 1 <= n PROVE P(i + 1)
        OBVIOUS
    <2>1. i \in 0..n /\ i + 1 \in 0..n /\ i + 1 \in 1..n /\ i <= n /\ i + 1 # 0 /\ (i + 1) - 1 = i
        BY <1>1
    <2>2. PICK a \in SUBSET Upto(i) : Did(h[i], a) /\ (~h[i].over => a = Upto(i))
        BY <1>3, <2>1
    <2> DEFINE u == order[i + 1]
    <2>3. h[i + 1] = Act(u, blows)[h[i]]
        BY <2>1 DEF Turns
    <2>4. h[i] \in Rounds
        BY <2>2 DEF Did
    <2>5. Upto(i + 1) = IF u \in Known THEN Upto(i) \cup {u} ELSE Upto(i)
        <3>1. \A j \in 1..(i + 1) : j = i + 1 \/ j \in 1..i
            BY <1>1
        <3>2. \A j \in 1..i : j \in 1..(i + 1)
            BY <1>1
        <3>3. i + 1 \in 1..(i + 1)
            BY <1>1
        <3> QED BY <3>1, <3>2, <3>3
    <2>6. u \notin Upto(i)
        <3> SUFFICES ASSUME NEW j \in 1..i, order[j] = u PROVE FALSE
            OBVIOUS
        <3>1. j \in 1..n /\ j # i + 1
            BY <2>1, <1>1
        <3> QED BY <2>1, <3>1 DEF FInv, Once
    <2>7. a \in SUBSET Known
        OBVIOUS
    <2> HIDE DEF u, Upto
    <2>8. CASE u \notin Known \/ h[i].over
        <3>1. h[i + 1] = h[i]
            BY <2>3, <2>4, <2>8 DEF Act
        <3>2. a \in SUBSET Upto(i + 1) /\ (~h[i].over => a = Upto(i + 1))
            BY <2>2, <2>5, <2>8
        <3> QED BY <2>2, <3>1, <3>2
    <2>9. CASE u \in Known /\ ~h[i].over
        <3>1. u \in Known \ a
            BY <2>2, <2>6, <2>9
        <3>2. Did(h[i + 1], a \cup {u})
            BY <2>2, <2>3, <2>7, <2>9, <3>1, DidOneMore
        <3>3. a \cup {u} = Upto(i + 1)
            BY <2>2, <2>5, <2>9
        <3> QED BY <3>2, <3>3
    <2> QED BY <2>8, <2>9
<1>4. T = Nat
    <2>1. T \in SUBSET Nat
        OBVIOUS
    <2> HIDE DEF T
    <2> QED BY <2>1, <1>2, <1>3, SetInduction
<1>5. P(n)
    <2>1. n \in Nat /\ n <= n
        BY <1>1
    <2> HIDE DEF n, P
    <2>2. n \in T
        <3> HIDE DEF T
        <3> QED BY <2>1, <1>4
    <2> QED BY <2>1, <2>2
<1>6. Upto(n) = Known
    BY <1>1 DEF Known, Live, Range
<1> QED BY <1>5, <1>6

-----------------------------------------------------------------------------
(* _pick_victims. *)

\* As many members as places.
LEMMA OnceCounts ==
    ASSUME NEW S, NEW q, Once(q, S)
    PROVE  Cardinality(Range(q)) = Len(q) /\ IsFiniteSet(Range(q))
<1>1. Len(q) \in Nat /\ DOMAIN q = 1..Len(q) /\ q \in [1..Len(q) -> S]
    BY LenProperties DEF Once
<1>2. q \in [1..Len(q) -> Range(q)]
    BY <1>1 DEF Range
<1>3. q \in Injection(1..Len(q), Range(q))
    <2>1. IsInjective(q)
        BY <1>1 DEF IsInjective, Once
    <2> QED BY <1>2, <2>1 DEF Injection
<1>4. q \in Surjection(1..Len(q), Range(q))
    BY <1>1, <1>2 DEF Surjection, Range
<1>5. ExistsBijection(1..Len(q), Range(q))
    BY <1>3, <1>4 DEF ExistsBijection, Bijection
<1>6. IsFiniteSet(1..Len(q))
    BY <1>1, FS_Interval
<1> QED BY <1>1, <1>5, <1>6, FS_CountingElements, FS_Bijection

\* The parts of PickVictims by name.
Centre(target) == IF target \in Known THEN mpos[target] ELSE at
Away(target, u) == Dist2(mpos[u], Centre(target))
InArea(target) == {u \in Known : Away(target, u) <= Sq(AOE_RADIUS)}
Others(target) == {u \in Known \ {target} : Away(target, u) <= Sq(AOE_RADIUS)}
Nearer(target) == {p \in Others(target) \X Others(target) :
                      \/ Away(target, p[1]) < Away(target, p[2])
                      \/ Away(target, p[1]) = Away(target, p[2]) /\ p[1] < p[2]}
Locked(target) == IF target \in Known THEN <<target>> ELSE <<>>
AllHit(target) == Locked(target) \o InOrder(Others(target), Nearer(target))

\* _pick_victims cuts the candidates at the number the skill can hit.
LEMMA PickIsPart ==
    ASSUME NEW target, NEW cap
    PROVE  PickVictims(target, cap)
             = SubSeq(AllHit(target), 1, Min({cap, Len(AllHit(target))}))
BY DEF PickVictims, AllHit, Locked, Others, Nearer, Away, Centre

\* The candidates, all of them: the target first, then the nearest.
Candidates(q, target) ==
    /\ Once(q, Known) /\ Range(q) = InArea(target)
    /\ target \in Known => Len(q) >= 1 /\ q[1] = target
    /\ \A i, j \in 1..Len(q) : i < j /\ q[i] # target => Away(target, q[i]) <= Away(target, q[j])

\* AllHit is such a sequence: near.sort by distance, the locked target in front.
LEMMA AllHitIs ==
    ASSUME FInv, NEW target \in Uids \cup {0}
    PROVE  Candidates(AllHit(target), target)
<1> DEFINE S == Others(target)
           R == Nearer(target)
           q == InOrder(S, R)
           l == Locked(target)
           all == AllHit(target)
<1>1. Known \in SUBSET Uids /\ S \in SUBSET Known /\ target \notin S /\ Uids \in SUBSET Nat
    BY FieldAssumption DEF Others, Known, FInv
<1>2. Centre(target) \in Places /\ \A u \in Known : mpos[u] \in Places
    BY DEF Centre, FInv, Known
<1>3. \A u \in Known : Away(target, u) \in Nat
    <2> SUFFICES ASSUME NEW u \in Known PROVE Away(target, u) \in Nat
        OBVIOUS
    <2> DEFINE x == mpos[u][1] - Centre(target)[1]
               y == mpos[u][2] - Centre(target)[2]
    <2>1. mpos[u] \in Places /\ Centre(target) \in Places
        BY <1>2
    <2>2. x \in Int /\ y \in Int
        BY <2>1 DEF Places
    <2>3. Away(target, u) = Sq(x) + Sq(y)
        BY DEF Away, Dist2
    <2> HIDE DEF x, y
    <2>4. Sq(x) \in Nat /\ Sq(y) \in Nat
        BY <2>2, SquareGrows
    <2> QED BY <2>3, <2>4
<1>4. IsFiniteSet(S)
    BY <1>1, CombatAssumption, FS_Subset
<1>5. StrictOrder(R, S)
    <2> DEFINE d(u) == Away(target, u)
    <2>1. \A u \in S : d(u) \in Nat /\ u \in Nat
        BY <1>1, <1>3
    <2>2. R = {p \in S \X S : d(p[1]) < d(p[2]) \/ (d(p[1]) = d(p[2]) /\ p[1] < p[2])}
        BY DEF Nearer
    <2> HIDE DEF d, S, R
    <2>3. \A x, y \in S : <<x, y>> \in R <=> d(x) < d(y) \/ (d(x) = d(y) /\ x < y)
        BY <2>2
    <2>4. \A x \in S : <<x, x>> \notin R
        BY <2>1, <2>3
    <2>5. ASSUME NEW x \in S, NEW y \in S, NEW z \in S, <<x, y>> \in R, <<y, z>> \in R
          PROVE  <<x, z>> \in R
        <3>1. d(x) \in Nat /\ d(y) \in Nat /\ d(z) \in Nat /\ x \in Nat /\ y \in Nat /\ z \in Nat
            BY <2>1
        <3>2. d(x) < d(y) \/ (d(x) = d(y) /\ x < y)
            BY <2>3, <2>5
        <3>3. d(y) < d(z) \/ (d(y) = d(z) /\ y < z)
            BY <2>3, <2>5
        <3>4. d(x) < d(z) \/ (d(x) = d(z) /\ x < z)
            BY <3>1, <3>2, <3>3
        <3> QED BY <2>3, <3>4
    <2>6. ASSUME NEW x \in S, NEW y \in S, x # y PROVE <<x, y>> \in R \/ <<y, x>> \in R
        <3>1. d(x) \in Nat /\ d(y) \in Nat /\ x \in Nat /\ y \in Nat
            BY <2>1
        <3>2. d(x) < d(y) \/ (d(x) = d(y) /\ x < y) \/ d(y) < d(x) \/ (d(y) = d(x) /\ y < x)
            BY <2>6, <3>1
        <3> QED BY <2>3, <3>2
    <2> QED BY <2>4, <2>5, <2>6 DEF StrictOrder
<1>6. /\ Once(q, S) /\ Len(q) = Cardinality(S)
      /\ Cardinality(S) \in Nat /\ DOMAIN q = 1..Cardinality(S)
      /\ \A i, j \in 1..Cardinality(S) : i < j => <<q[i], q[j]>> \in R
      /\ \A x \in S : \E i \in 1..Cardinality(S) : q[i] = x
    BY <1>4, <1>5, InOrderIs
<1>7. /\ l \in Seq(Known) /\ Len(l) \in {0, 1}
      /\ Len(l) = 1 <=> target \in Known
      /\ \A i \in 1..Len(l) : l[i] = target
    BY DEF Locked
<1>8. q \in Seq(Known) /\ Len(q) \in Nat /\ all = l \o q
    BY <1>1, <1>6 DEF Once, AllHit
<1> HIDE DEF q, S, R, l, all
<1>9. /\ all \in Seq(Known) /\ Len(all) = Len(l) + Len(q) /\ Len(all) \in Nat
      /\ Len(l) \in Nat /\ Len(q) \in Nat /\ (target \in Known => Len(l) = 1)
      /\ \A i \in 1..Len(all) : all[i] = IF i <= Len(l) THEN target ELSE q[i - Len(l)]
    <2>1. /\ all \in Seq(Known) /\ Len(all) = Len(l) + Len(q)
          /\ \A i \in 1..(Len(l) + Len(q)) : all[i] = IF i <= Len(l) THEN l[i] ELSE q[i - Len(l)]
        BY <1>7, <1>8, ConcatProperties
    <2>2. \A i \in 1..(Len(l) + Len(q)) : i <= Len(l) => i \in 1..Len(l)
        BY <1>7, <1>8
    <2> QED BY <1>7, <1>8, <2>1, <2>2
<1>10. DOMAIN all = 1..Len(all)
    BY <1>9, LenProperties
<1>11. \A i \in 1..Len(all) : ~(i <= Len(l)) => i - Len(l) \in 1..Len(q) /\ q[i - Len(l)] \in S
    BY <1>7, <1>8, <1>9, <1>6, ElementOfSeq DEF Once
<1>12. Once(all, Known)
    <2> SUFFICES ASSUME NEW i \in 1..Len(all), NEW j \in 1..Len(all), all[i] = all[j]
                 PROVE  i = j
        BY <1>9 DEF Once
    <2>1. CASE i <= Len(l) /\ j <= Len(l)
        BY <2>1, <1>7
    <2>2. CASE ~(i <= Len(l)) /\ ~(j <= Len(l))
        <3>1. i - Len(l) \in 1..Len(q) /\ j - Len(l) \in 1..Len(q) /\ q[i - Len(l)] = q[j - Len(l)]
            BY <2>2, <1>9, <1>11
        <3>2. i - Len(l) = j - Len(l)
            BY <3>1, <1>6 DEF Once
        <3> QED BY <3>2, <1>7
    <2>3. CASE i <= Len(l) /\ ~(j <= Len(l))
        BY <2>3, <1>9, <1>11, <1>1 DEF S
    <2>4. CASE ~(i <= Len(l)) /\ j <= Len(l)
        BY <2>4, <1>9, <1>11, <1>1 DEF S
    <2> QED BY <2>1, <2>2, <2>3, <2>4
<1>13. Range(all) = S \cup (IF target \in Known THEN {target} ELSE {})
    <2>1. ASSUME NEW i \in 1..Len(all)
          PROVE  all[i] \in S \cup (IF target \in Known THEN {target} ELSE {})
        BY <1>7, <1>9, <1>11
    <2>2. ASSUME NEW u \in S PROVE \E i \in 1..Len(all) : all[i] = u
        <3>1. PICK k \in 1..Len(q) : q[k] = u
            BY <1>6
        <3>2. k + Len(l) \in 1..Len(all) /\ ~(k + Len(l) <= Len(l)) /\ k + Len(l) - Len(l) = k
            BY <1>9
        <3>3. all[k + Len(l)] = q[k + Len(l) - Len(l)]
            BY <3>2, <1>9
        <3> QED BY <3>1, <3>2, <3>3
    <2>3. target \in Known => \E i \in 1..Len(all) : all[i] = target
        <3> HAVE target \in Known
        <3>1. 1 \in 1..Len(all) /\ 1 <= Len(l)
            BY <1>9
        <3> QED BY <3>1, <1>9
    <2> QED BY <1>10, <2>1, <2>2, <2>3 DEF Range
<1>14. InArea(target) = S \cup (IF target \in Known THEN {target} ELSE {})
    <2>1. target \in Known => Away(target, target) = 0
        <3> HAVE target \in Known
        <3>1. mpos[target] \in Places /\ Centre(target) = mpos[target]
            BY <1>2 DEF Centre
        <3> QED BY <3>1 DEF Away, Dist2, Sq, Places
    <2>2. 0 <= Sq(AOE_RADIUS)
        BY FieldAssumption, SquareGrows
    <2> QED BY <2>1, <2>2 DEF InArea, S, Others
<1>15. target \in Known => Len(all) >= 1 /\ all[1] = target
    <2> HAVE target \in Known
    <2>1. 1 \in 1..Len(all) /\ 1 <= Len(l)
        BY <1>9
    <2> QED BY <2>1, <1>9
<1>16. ASSUME NEW i \in 1..Len(all), NEW j \in 1..Len(all), i < j, all[i] # target
       PROVE  Away(target, all[i]) <= Away(target, all[j])
    <2>1. ~(i <= Len(l)) /\ ~(j <= Len(l))
        BY <1>7, <1>9, <1>16
    <2>2. i - Len(l) \in 1..Len(q) /\ j - Len(l) \in 1..Len(q) /\ i - Len(l) < j - Len(l)
        BY <2>1, <1>7, <1>11, <1>16
    <2>3. <<q[i - Len(l)], q[j - Len(l)]>> \in R
        BY <2>2, <1>6
    <2>4. <<all[i], all[j]>> \in R
        BY <2>1, <2>3, <1>9
    <2>5. all[i] \in Known /\ all[j] \in Known
        BY <1>9, ElementOfSeq
    <2>6. Away(target, all[i]) < Away(target, all[j]) \/ Away(target, all[i]) = Away(target, all[j])
        BY <2>4 DEF R, Nearer
    <2> QED BY <1>3, <2>5, <2>6
<1>17. Candidates(all, target)
    BY <1>12, <1>13, <1>14, <1>15, <1>16 DEF Candidates
<1> QED BY <1>17 DEF all

\* The victims are the first of them.
LEMMA PickIs ==
    ASSUME FInv, NEW target \in Uids \cup {0}, NEW cap \in Caps
    PROVE  LET victims == PickVictims(target, cap)
               all == AllHit(target)
           IN  /\ Candidates(all, target)
               /\ Once(victims, Known) /\ Len(victims) = Min({cap, Len(all)})
               /\ Len(victims) <= Len(all) /\ Len(all) \in Nat /\ cap >= 1
               /\ Len(victims) < Len(all) => Len(victims) = cap
               /\ \A i \in 1..Len(victims) : victims[i] = all[i]
<1> DEFINE victims == PickVictims(target, cap)
           all == AllHit(target)
           m == Min({cap, Len(all)})
<1>1. Candidates(all, target)
    BY AllHitIs
<1>2. all \in Seq(Known) /\ Len(all) \in Nat /\ DOMAIN all = 1..Len(all)
    BY <1>1, LenProperties DEF Candidates, Once
<1>11. \A i \in 1..Len(all) : all[i] \in Known
    BY <1>2, ElementOfSeq
<1>3. cap \in Nat /\ cap >= 1
    BY FieldAssumption
<1>4. victims = SubSeq(all, 1, m)
    BY PickIsPart
<1> HIDE DEF all, victims
<1>5. m \in {cap, Len(all)} /\ m <= cap /\ m <= Len(all)
    <2>1. \E x \in {cap, Len(all)} : \A y \in {cap, Len(all)} : x <= y
        BY <1>2, <1>3
    <2> QED BY <2>1 DEF Min
<1> HIDE DEF m
<1>6. m \in Nat
    BY <1>2, <1>3, <1>5
<1>12. \A i \in 1..m : i \in 1..Len(all)
    <2> DEFINE k == Len(all)
    <2>1. k \in Nat /\ m <= k
        BY <1>2, <1>5
    <2> HIDE DEF k
    <2>2. \A i \in 1..m : i \in 1..k
        BY <1>6, <2>1
    <2> QED BY <2>2 DEF k
<1>7. \A i \in 1..m : all[i] \in Known
    BY <1>11, <1>12
<1>8. /\ SubSeq(all, 1, m) \in Seq(Known)
      /\ Len(SubSeq(all, 1, m)) = IF 1 <= m THEN m - 1 + 1 ELSE 0
      /\ \A i \in 1..(m - 1 + 1) : SubSeq(all, 1, m)[i] = all[1 + i - 1]
    BY <1>6, <1>7, SubSeqProperties
<1>9. victims \in Seq(Known) /\ Len(victims) = m /\ \A i \in 1..m : victims[i] = all[i]
    BY <1>4, <1>6, <1>8
<1>10. Once(victims, Known)
    <2> SUFFICES ASSUME NEW i \in 1..m, NEW j \in 1..m, victims[i] = victims[j] PROVE i = j
        BY <1>9 DEF Once
    <2>1. i \in 1..Len(all) /\ j \in 1..Len(all) /\ all[i] = all[j]
        BY <1>9, <1>12
    <2> QED BY <1>1, <2>1 DEF Candidates, Once
<1>13. /\ Candidates(all, target)
       /\ Once(victims, Known) /\ Len(victims) = m
       /\ Len(victims) <= Len(all) /\ Len(all) \in Nat /\ cap >= 1
       /\ Len(victims) < Len(all) => Len(victims) = cap
       /\ \A i \in 1..Len(victims) : victims[i] = all[i]
    <2> DEFINE k == Len(all)
    <2>1. m <= k /\ k \in Nat /\ m \in {cap, k}
        BY <1>2, <1>5
    <2> HIDE DEF k
    <2>2. m < k => m = cap
        BY <2>1
    <2>3. m < Len(all) => m = cap
        BY <2>2 DEF k
    <2>4. Len(victims) = m /\ \A i \in 1..m : victims[i] = all[i]
        BY <1>9
    <2> QED BY <1>1, <1>2, <1>3, <1>5, <1>10, <2>3, <2>4
<1> QED BY <1>13 DEF all, victims, m

\* What _pick_victims promises follows from what holds of the tables.
LEMMA PickRight == FInv => VictimsRight
<1> SUFFICES ASSUME FInv, NEW target \in Uids \cup {0}, NEW cap \in Caps
             PROVE  LET victims == PickVictims(target, cap)
                        hit == Range(victims)
                        centre == IF target \in Known THEN mpos[target] ELSE at
                        reach == {u \in Known : Dist2(mpos[u], centre) <= Sq(AOE_RADIUS)}
                    IN  /\ Cardinality(hit) = Len(victims) /\ Len(victims) = Min({cap, Cardinality(reach)})
                        /\ hit \subseteq reach
                        /\ target \in Known => victims[1] = target
                        /\ \A u \in hit \ {target}, v \in reach \ hit :
                               Dist2(mpos[u], centre) <= Dist2(mpos[v], centre)
    BY DEF VictimsRight
<1> DEFINE victims == PickVictims(target, cap)
           all == AllHit(target)
           n == Len(victims)
           hit == Range(victims)
           centre == IF target \in Known THEN mpos[target] ELSE at
           reach == {u \in Known : Dist2(mpos[u], centre) <= Sq(AOE_RADIUS)}
<1>1. /\ Candidates(all, target)
      /\ Once(victims, Known) /\ n = Min({cap, Len(all)})
      /\ n <= Len(all) /\ Len(all) \in Nat /\ cap >= 1 /\ (n < Len(all) => n = cap)
      /\ \A i \in 1..n : victims[i] = all[i]
    BY PickIs
<1>2. reach = InArea(target) /\ \A u \in Known : Dist2(mpos[u], centre) = Away(target, u)
    BY DEF InArea, Away, Centre
<1> HIDE DEF victims, all, reach, centre
<1>3. Cardinality(hit) = n
    BY <1>1, OnceCounts
<1>4. Cardinality(reach) = Len(all)
    BY <1>1, <1>2, OnceCounts DEF Candidates
<1>5. n \in Nat /\ DOMAIN victims = 1..n /\ DOMAIN all = 1..Len(all)
    BY <1>1, LenProperties DEF Once, Candidates
<1>10. \A i \in 1..n : i \in 1..Len(all)
    <2> DEFINE k == Len(all)
    <2>1. k \in Nat /\ n <= k
        BY <1>1
    <2> HIDE DEF k, n
    <2>2. \A i \in 1..n : i \in 1..k
        BY <1>5, <2>1
    <2> QED BY <2>2 DEF k
<1>6. ASSUME NEW u \in hit PROVE \E i \in 1..n : u = all[i] /\ i \in 1..Len(all)
    <2>1. PICK i \in 1..n : u = victims[i]
        BY <1>5 DEF Range
    <2> QED BY <1>1, <1>10, <2>1
<1>7. hit \subseteq reach
    <2> SUFFICES ASSUME NEW u \in hit PROVE u \in Range(all)
        BY <1>1, <1>2 DEF Candidates
    <2> QED BY <1>5, <1>6 DEF Range
<1>8. target \in Known => victims[1] = target
    <2> HAVE target \in Known
    <2>1. Len(all) >= 1 /\ all[1] = target
        BY <1>1 DEF Candidates
    <2>2. 1 \in 1..n
        BY <1>1, <1>5, <2>1
    <2> QED BY <1>1, <2>1, <2>2
<1>9. ASSUME NEW u \in hit \ {target}, NEW v \in reach \ hit
      PROVE  Dist2(mpos[u], centre) <= Dist2(mpos[v], centre)
    <2>1. PICK i \in 1..n : u = all[i] /\ i \in 1..Len(all)
        BY <1>6
    <2>2. v \in Range(all)
        BY <1>1, <1>2 DEF Candidates
    <2>3. PICK j \in 1..Len(all) : v = all[j]
        BY <1>5, <2>2 DEF Range
    <2>4. ~(j <= n)
        <3> SUFFICES ASSUME j <= n PROVE FALSE
            OBVIOUS
        <3>1. j \in 1..n
            BY <1>5
        <3>2. v \in hit
            BY <1>1, <1>5, <2>3, <3>1 DEF Range
        <3> QED BY <3>2
    <2>5. i < j
        BY <1>1, <1>5, <2>1, <2>4
    <2>6. Away(target, u) <= Away(target, v)
        BY <1>1, <2>1, <2>3, <2>5 DEF Candidates
    <2>7. u \in Known /\ v \in Known
        BY <1>7 DEF reach
    <2> QED BY <1>2, <2>6, <2>7
<1> QED BY <1>1, <1>3, <1>4, <1>7, <1>8, <1>9 DEF victims, reach, centre, all

-----------------------------------------------------------------------------
(* The steps of the field. *)

\* Every place is in a zone.
LEMMA ZoneType ==
    \A m : Zone(m) \in C!Zones
BY DEF Zone, C!Zones

\* combat_loop.
LEMMA LoopTicks ==
    ASSUME FInv, CInv, CombatLoop
    PROVE  FInv' /\ (C!Tick \/ UNCHANGED C!vars)
<1>1. PICK blows \in [1..MAX_ATTACKERS -> Blows] : Round(blows)
    BY DEF CombatLoop
<1>2. Len(order) \in Nat
    BY LenProperties DEF FInv, Once
<1>3. PICK h : /\ Turns(h, Len(order), blows)
               /\ hp' = h[Len(order)].hp /\ mpos' = h[Len(order)].pos
               /\ bar' = IF h[Len(order)].events THEN h[Len(order)].hp ELSE bar
               /\ player_dead' = h[Len(order)].over
               /\ told' = (told \/ h[Len(order)].over)
    BY <1>1, <1>2, RoundIs
<1> DEFINE r == h[Len(order)]
<1>4. PICK a \in SUBSET Known : Did(r, a) /\ (~r.over => a = Known)
    BY <1>1, <1>3, RoundDid DEF CombatLoop
<1>5. /\ hp' = r.hp /\ mpos' = r.pos /\ player_dead' = r.over /\ told' = (told \/ r.over)
      /\ bar' = IF r.events THEN r.hp ELSE bar
    BY <1>3
<1> HIDE DEF r
<1>6. /\ in_world /\ ~player_dead /\ in_world' = in_world /\ order' = order /\ at' = at
      /\ dying' = dying /\ spawning' = spawning
    BY DEF CombatLoop, loot
<1>7. mpos' \in [DOMAIN mpos -> Places] /\ DOMAIN mpos' = DOMAIN mpos
    <2>1. r.pos \in [DOMAIN mpos -> Places]
        BY <1>4 DEF Did, Rounds, Places
    <2> QED BY <1>5, <2>1
<1>8. Known' = Known
    BY <1>6, <1>7 DEF Known, Live
<1>9. FInv'
    BY <1>6, <1>7 DEF FInv
<1>10. \A u \in Known : mpos'[u] = IF u \in Chasers(a) THEN Step(mpos[u]) ELSE mpos[u]
    BY <1>4, <1>5 DEF Did, Known
<1> DEFINE now(u) == Zone(mpos[u])
<1>11. \A u \in Known : now(u)' = IF u \in Chasers(a) THEN Zone(Step(mpos[u])) ELSE now(u)
    BY <1>6, <1>10 DEF Zone, Dist2
<1>12. \A u \in Known : /\ now(u)' \in C!Zones
                        /\ IF u \in Chasers(a) THEN now(u)' \in {"chase", "strike"}
                           ELSE now(u)' = now(u)
    <2> SUFFICES ASSUME NEW u \in Known
                 PROVE  /\ now(u)' \in C!Zones
                        /\ IF u \in Chasers(a) THEN now(u)' \in {"chase", "strike"}
                           ELSE now(u)' = now(u)
        OBVIOUS
    <2>1. CASE u \in Chasers(a)
        <3>1. mpos[u] \in Places /\ at \in Places /\ Zone(mpos[u]) = "chase"
            BY <2>1 DEF FInv, Known, Chasers
        <3>2. Zone(Step(mpos[u])) \in {"chase", "strike"}
            BY <3>1, StepCloser
        <3>3. now(u)' = Zone(Step(mpos[u]))
            BY <1>11, <2>1
        <3> QED BY <2>1, <3>2, <3>3, ZoneType
    <2>2. CASE u \notin Chasers(a)
        <3>1. now(u)' = now(u)
            BY <1>11, <2>2
        <3> QED BY <2>2, <3>1, ZoneType
    <2> QED BY <2>1, <2>2
<1>13. (hp' = 0) = r.over /\ (hp' > 0 => a = Known)
    <2>1. r.hp \in Nat /\ r.over \in BOOLEAN /\ (r.over <=> r.hp = 0)
        BY <1>4, CombatAssumption DEF Did, Rounds
    <2> QED BY <1>4, <1>5, <2>1
<1>14. CASE Known # {}
    <2>1. \E d \in C!Blows(C!Attackers(a)) : C!Hurt(d)
        BY <1>4, <1>5 DEF Did, C!Hurt
    <2>2. [u \in Known |-> now(u)]' = [u \in Known |-> now(u)']
        BY <1>8
    <2>3. [u \in Known |-> now(u)]' \in [Known -> C!Zones]
        BY <1>12, <2>2
    <2>4. \A u \in Known : IF u \in C!Chasing(a) THEN [v \in Known |-> now(v)]'[u] \in {"chase", "strike"}
                           ELSE [v \in Known |-> now(v)]'[u] = [v \in Known |-> now(v)][u]
        BY <1>12, <2>2, SameZones
    <2>5. bar' = IF C!Striking(a) \cup C!Chasing(a) # {} THEN hp' ELSE bar
        BY <1>4, <1>5, SameZones DEF Did
    <2>6. C!Death
        BY <1>5, <1>13 DEF C!Death
    <2> HIDE DEF now
    <2>7. C!CombatTick(a)
        BY <1>6, <1>13, <1>14, <2>1, <2>3, <2>4, <2>5, <2>6, SameZones DEF C!CombatTick, now
    <2> QED BY <1>9, <2>7, SameZones DEF C!Tick
<1>15. CASE Known = {}
    <2>1. a = {} /\ Strikers(a) = {} /\ Chasers(a) = {}
        BY <1>15 DEF Strikers, Chasers
    <2>2. C!Attackers(a) = 0
        BY <2>1, AttackersIs
    <2>3. hp \in 1..MaxHp
        BY <1>6 DEF CInv, C!TypeOK, C!DeadAtZero
    <2>4. r.hp = hp
        <3>1. PICK d \in C!Blows(0) : r.hp = IF d < hp THEN hp - d ELSE 0
            BY <1>4, <2>2 DEF Did
        <3>2. d = 0
            BY <3>1, BlowsType
        <3> QED BY <2>3, <3>1, <3>2
    <2>5. ~r.over /\ ~r.events
        BY <1>4, <2>1, <2>3, <2>4 DEF Did
    <2>6. hp' = hp /\ bar' = bar /\ told' = told /\ player_dead' = player_dead
        <3>1. r.over \in BOOLEAN /\ told \in BOOLEAN /\ player_dead \in BOOLEAN
            BY <1>4 DEF Did, Rounds, CInv, C!TypeOK
        <3>2. told' = told /\ player_dead' = player_dead
            BY Zenon, <1>5, <1>6, <2>5, <3>1
        <3> QED BY <1>5, <2>4, <2>5, <3>2
    <2>7. [u \in Known |-> now(u)]' = [u \in Known |-> now(u)]
        BY <1>8, <1>15
    <2>8. UNCHANGED C!vars
        BY <1>6, <2>6, <2>7 DEF C!vars, now
    <2> QED BY <1>9, <2>8
<1> QED BY <1>14, <1>15

\* The zones of the monsters known after a step, seen through the mapping.
LEMMA ZonesAfter ==
    /\ [u \in Known |-> Zone(mpos[u])]' = [u \in Known' |-> Zone(mpos[u])']
    /\ [u \in Known |-> Zone(mpos[u])]' \in [Known' -> C!Zones]
<1>1. \A u \in Known' : Zone(mpos[u])' \in C!Zones
    BY DEF Zone, C!Zones
<1> QED BY <1>1

\* Where neither the player nor a monster that stays has moved, the zones stay.
LEMMA ZonesKept ==
    ASSUME at' = at, mpos' = mpos
    PROVE  \A u \in Known' : [v \in Known |-> Zone(mpos[v])]'[u] = Zone(mpos[u])
BY DEF Zone, Dist2

\* on_login_gateway.
LEMMA EnterStep ==
    ASSUME FInv, NEW p \in Haunts, Enter(p)
    PROVE  FInv' /\ C!LoginGateway
<1>1. Known' = Known /\ p \in Places
    BY FieldAssumption DEF Enter, Known, Live, Places
<1>2. FInv'
    BY <1>1 DEF FInv, Enter, LoginGateway
<1>3. C!LoginGateway
    BY <1>1, ZonesAfter, SameZones DEF C!LoginGateway, Enter, LoginGateway
<1> QED BY <1>2, <1>3

\* on_move.
LEMMA WalkStep ==
    ASSUME FInv, NEW p \in Haunts, Walk(p)
    PROVE  FInv' /\ C!Move
<1>1. Known' = Known /\ p \in Places
    BY FieldAssumption DEF Walk, field, Known, Live, Places
<1>2. FInv'
    BY <1>1 DEF FInv, Walk, Move, field
<1>3. C!Move
    BY <1>1, ZonesAfter, SameZones DEF C!Move, Walk, Move, body
<1> QED BY <1>2, <1>3

\* on_teleport.
LEMMA JumpStep ==
    ASSUME FInv, NEW p \in Haunts, Jump(p)
    PROVE  FInv' /\ (C!Vanish(Known) \/ UNCHANGED C!vars)
<1>1. order' = <<>> /\ mpos' = <<>> /\ p \in Places /\ in_world /\ in_world' = in_world
    BY FieldAssumption DEF Jump, Teleport, Places
<1>2. Known' = {} /\ DOMAIN mpos' = {}
    BY <1>1 DEF Known, Live
<1>3. FInv'
    BY <1>1, <1>2 DEF FInv, Jump, Teleport, Once
<1>4. CASE Known = {}
    BY <1>1, <1>2, <1>3, <1>4, ZonesAfter DEF C!vars, Jump, body
<1>5. CASE Known # {}
    <2>1. [u \in Known |-> Zone(mpos[u])]'
            = [u \in C!Known \ Known |-> [v \in Known |-> Zone(mpos[v])][u]]
        BY <1>2, ZonesAfter, SameZones
    <2> QED BY <1>1, <1>3, <1>5, <2>1, SameZones DEF C!Vanish, Jump, body
<1> QED BY <1>3, <1>4, <1>5

\* spawn_world.
LEMMA SpawnStep ==
    ASSUME FInv, Spawn
    PROVE  FInv' /\ C!Appear(Uids)
<1>1. /\ Once(order', Uids) /\ Range(order') = Uids
    <2>1. StrictOrder(Ascending(Uids), Uids)
        BY FieldAssumption, AscendingOrder
    <2>2. /\ Once(order', Uids) /\ DOMAIN order' = 1..Cardinality(Uids)
          /\ Cardinality(Uids) \in Nat /\ Len(order') = Cardinality(Uids)
          /\ \A x \in Uids : \E i \in 1..Cardinality(Uids) : order'[i] = x
        BY <2>1, CombatAssumption, InOrderIs DEF Spawn
    <2>3. \A i \in DOMAIN order' : order'[i] \in Uids
        BY <2>2, ElementOfSeq DEF Once
    <2> QED BY <2>2, <2>3 DEF Range
<1>2. mpos' \in [Uids -> Places] /\ DOMAIN mpos' = Uids
    BY FieldAssumption DEF Spawn, Places
<1>3. Known' = Uids
    BY <1>1, <1>2 DEF Known, Live
<1>4. in_world /\ in_world' = in_world
    BY DEF FInv, Spawn, loot
<1>5. FInv'
    <2>1. at' = at /\ dying' = dying /\ spawning' = FALSE
        BY DEF Spawn, loot
    <2>2. Once(order', Uids) /\ DOMAIN mpos' \subseteq Uids /\ mpos' \in [DOMAIN mpos' -> Places]
        BY <1>1, <1>2
    <2> QED BY <1>4, <2>1, <2>2 DEF FInv
<1>6. C!Appear(Uids)
    <2>1. C!Known \cup Uids = Uids /\ C!Known \ Uids = {}
        BY SameZones DEF FInv, Known
    <2> QED BY <1>3, <1>4, <2>1, ZonesAfter DEF C!Appear, Spawn, body
<1> QED BY <1>5, <1>6

\* The end of kill_and_respawn.
LEMMA RespawnStep ==
    ASSUME FInv, NEW u \in Uids, Respawn(u)
    PROVE  FInv' /\ (C!Appear({u}) \/ UNCHANGED C!vars)
<1>1. in_world /\ in_world' = in_world /\ mpos' = mpos /\ at' = at
    BY DEF FInv, Respawn, loot
<1>2. Once(order', Uids) /\ Range(order') = Live \cup {u}
    <2>1. order \in Seq(Uids) /\ Len(order) \in Nat /\ DOMAIN order = 1..Len(order)
        BY LenProperties DEF FInv, Once
    <2>2. CASE u \in Live
        BY <2>2 DEF Respawn, FInv, Live
    <2>3. CASE u \notin Live
        <3> DEFINE n == Len(order)
        <3>1. /\ order' \in Seq(Uids) /\ Len(order') = n + 1
              /\ \A i \in 1..n : order'[i] = order[i]
              /\ order'[n + 1] = u
            BY <2>1, <2>3, AppendProperties DEF Respawn
        <3>2. DOMAIN order' = 1..(n + 1)
            BY <3>1, LenProperties
        <3>3. n \in Nat /\ \A i \in 1..(n + 1) : i \in 1..n \/ i = n + 1
            BY <2>1
        <3>4. \A i \in 1..n : order[i] # u
            BY <2>1, <2>3 DEF Live, Range
        <3>5. n + 1 \in 1..(n + 1) /\ \A i \in 1..n : i \in 1..(n + 1)
            BY <3>3
        <3> HIDE DEF n
        <3>6. Once(order', Uids)
            <4> SUFFICES ASSUME NEW i \in 1..(n + 1), NEW j \in 1..(n + 1), order'[i] = order'[j]
                         PROVE  i = j
                BY <3>1 DEF Once
            <4>1. CASE i \in 1..n /\ j \in 1..n
                BY <4>1, <3>1 DEF FInv, Once, n
            <4>2. CASE i = n + 1 /\ j \in 1..n
                BY <4>2, <3>1, <3>4
            <4>3. CASE i \in 1..n /\ j = n + 1
                BY <4>3, <3>1, <3>4
            <4> QED BY <3>3, <4>1, <4>2, <4>3
        <3>7. Range(order') = Live \cup {u}
            <4>1. \A i \in 1..(n + 1) : order'[i] \in Live \cup {u}
                BY <2>1, <3>1, <3>3 DEF Live, Range, n
            <4>2. \A v \in Live : \E i \in 1..(n + 1) : order'[i] = v
                BY <2>1, <3>1, <3>5 DEF Live, Range, n
            <4>3. order'[n + 1] = u /\ n + 1 \in 1..(n + 1)
                BY <3>1, <3>5
            <4> QED BY <3>2, <4>1, <4>2, <4>3 DEF Range
        <3> QED BY <3>6, <3>7
    <2> QED BY <2>2, <2>3
<1>3. FInv'
    BY <1>1, <1>2 DEF FInv, Respawn
<1>4. Known' = (Live \cup {u}) \cap DOMAIN mpos
    BY <1>1, <1>2 DEF Known, Live
<1>5. CASE u \in Known \/ u \notin DOMAIN mpos
    <2>1. Known' = Known
        BY <1>4, <1>5 DEF Known
    <2>2. [v \in Known |-> Zone(mpos[v])]' = [v \in Known |-> Zone(mpos[v])]
        BY <1>1, <2>1 DEF Zone, Dist2
    <2> QED BY <1>1, <1>3, <2>2 DEF C!vars, Respawn, body
<1>6. CASE u \notin Known /\ u \in DOMAIN mpos
    <2>1. Known' = Known \cup {u}
        BY <1>4, <1>6 DEF Known
    <2>2. [v \in Known |-> Zone(mpos[v])]' \in [C!Known \cup {u} -> C!Zones]
        BY <2>1, ZonesAfter, SameZones
    <2>3. \A v \in C!Known \ {u} :
              [w \in Known |-> Zone(mpos[w])]'[v] = [w \in Known |-> Zone(mpos[w])][v]
        BY <1>1, <2>1, ZonesKept, SameZones
    <2> QED BY <1>1, <1>3, <2>2, <2>3 DEF C!Appear, Respawn, body
<1> QED BY <1>3, <1>5, <1>6

\* on_attack.
LEMMA AttackStep ==
    ASSUME FInv, NEW victims \in Aims, Attack(victims)
    PROVE  /\ FInv'
           /\ \E dead \in SUBSET Uids : C!Vanish(dead)
           /\ \E n \in Nat : \E P : Kill(n, P)
<1>1. PICK target \in Uids \cup {0}, cap \in Caps : victims = PickVictims(target, cap)
    BY DEF Aims
<1>2. Once(victims, Known)
    BY <1>1, PickIs
<1>3. Range(victims) \subseteq Known
    BY <1>2, LenProperties, ElementOfSeq DEF Once, Range
<1>4. PICK dead \in (SUBSET (Range(victims) \ dying)) \ {{}} :
            LET dropped == Keep(victims, dead \cap Droppers)
            IN  /\ Kill(Len(dropped), [i \in DOMAIN dropped |-> mpos[dropped[i]]])
                /\ order' = Keep(order, Live \ dead)
                /\ dying' = dying \cup dead
    BY DEF Attack
<1> DEFINE dropped == Keep(victims, dead \cap Droppers)
           P == [i \in DOMAIN dropped |-> mpos[dropped[i]]]
<1>5. Kill(Len(dropped), P) /\ order' = Keep(order, Live \ dead) /\ dying' = dying \cup dead
    BY <1>4
<1>6. Len(dropped) \in Nat
    BY <1>2, KeepIs, LenProperties DEF Once
<1> HIDE DEF dropped, P
<1>7. in_world /\ in_world' = in_world /\ at' = at
    BY <1>5 DEF Kill
<1>8. mpos' = mpos /\ spawning' = spawning /\ UNCHANGED <<hp, player_dead, bar, told>>
    BY DEF Attack, body
<1>9. Once(order', Uids) /\ Range(order') = Live \ dead
    <2> DEFINE S == Live \ dead
    <2>1. Once(order, Uids) /\ order' = Keep(order, S) /\ S \subseteq Range(order)
        BY <1>5 DEF FInv, Live
    <2> HIDE DEF S
    <2>2. Once(order', Uids) /\ Range(order') = Range(order) \cap S
        BY <2>1, KeepIs
    <2> QED BY <2>1, <2>2 DEF S
<1>10. Known' = Known \ dead
    BY <1>8, <1>9 DEF Known, Live
<1>11. dead \in SUBSET Known /\ dead # {} /\ Known \in SUBSET Uids
    <2>1. dead \in SUBSET Range(victims) /\ dead # {}
        OBVIOUS
    <2>2. Known \in SUBSET Uids
        BY DEF Known, FInv
    <2> QED BY <1>3, <2>1, <2>2
<1>12. FInv'
    BY <1>5, <1>7, <1>8, <1>9, <1>11 DEF FInv
<1>13. C!Vanish(dead)
    <2>1. [u \in Known |-> Zone(mpos[u])]' = [u \in Known \ dead |-> Zone(mpos[u])]
        BY <1>7, <1>8, <1>10 DEF Zone, Dist2
    <2>2. [u \in Known |-> Zone(mpos[u])]'
            = [u \in C!Known \ dead |-> [v \in Known |-> Zone(mpos[v])][u]]
        BY <2>1, SameZones
    <2> QED BY <1>7, <1>8, <1>11, <2>2, SameZones DEF C!Vanish
<1> QED BY <1>5, <1>6, <1>11, <1>12, <1>13

\* Session.__init__.
LEMMA FieldStart == FieldInit => FInv /\ C!Init /\ DropInv
<1> SUFFICES ASSUME FieldInit PROVE FInv /\ C!Init /\ DropInv
    OBVIOUS
<1>1. DropInv
    BY DropInvInit DEF FieldInit
<1>2. FInv
    <2>1. at \in Places
        BY FieldAssumption DEF FieldInit, Places
    <2>2. Once(order, Uids) /\ DOMAIN mpos = {}
        BY DEF FieldInit, Once
    <2>3. mpos \in [DOMAIN mpos -> Places] /\ DOMAIN mpos \subseteq Uids
        BY <2>2 DEF FieldInit
    <2>4. spawning = FALSE /\ dying = {}
        BY DEF FieldInit
    <2> QED BY <2>1, <2>2, <2>3, <2>4 DEF FInv
<1>3. C!Init
    <2>1. Known = {}
        BY DEF FieldInit, Known
    <2> QED BY <2>1 DEF C!Init, FieldInit
<1> QED BY <1>1, <1>2, <1>3

\* Every step of the field is one of Combat's, or none of its business.
LEMMA FieldStep ==
    FInv /\ CInv /\ [FieldNext]_fvars => FInv' /\ [C!Next]_(C!vars)
<1> SUFFICES ASSUME FInv, CInv, [FieldNext]_fvars PROVE FInv' /\ [C!Next]_(C!vars)
    OBVIOUS
<1>1. ASSUME NEW p \in Haunts, Enter(p) PROVE FInv' /\ C!Next
    BY <1>1, EnterStep DEF C!Next
<1>2. ASSUME NEW p \in Haunts, Walk(p) PROVE FInv' /\ C!Next
    BY <1>2, WalkStep DEF C!Next
<1>3. ASSUME NEW p \in Haunts, Jump(p) PROVE FInv' /\ (C!Next \/ UNCHANGED C!vars)
    <2>1. Known \in SUBSET Uids
        BY DEF FInv, Known
    <2> QED BY <1>3, <2>1, JumpStep DEF C!Next
<1>4. ASSUME Grab \/ UNCHANGED fvars PROVE FInv' /\ UNCHANGED C!vars
    <2>1. UNCHANGED <<order, mpos, dying, spawning, at, in_world, hp, player_dead, bar, told>>
        BY <1>4 DEF Grab, Pickup, body, field, loot, fvars
    <2>2. Known' = Known
        BY <2>1 DEF Known, Live
    <2>3. [u \in Known |-> Zone(mpos[u])]' = [u \in Known |-> Zone(mpos[u])]
        BY <2>1, <2>2 DEF Zone, Dist2
    <2>4. FInv'
        BY <2>1 DEF FInv
    <2> QED BY <2>1, <2>3, <2>4 DEF C!vars
<1>5. CASE Spawn
    BY <1>5, SpawnStep DEF C!Next
<1>6. CASE Revive
    <2>1. UNCHANGED <<order, mpos, dying, spawning, at, in_world>>
        BY <1>6 DEF Revive, field, loot
    <2>2. Known' = Known
        BY <2>1 DEF Known, Live
    <2>3. [u \in Known |-> Zone(mpos[u])]' = [u \in Known |-> Zone(mpos[u])]
        BY <2>1, <2>2 DEF Zone, Dist2
    <2>4. FInv'
        BY <2>1 DEF FInv
    <2>5. C!Revive
        BY <1>6, <2>1, <2>3 DEF C!Revive, Revive
    <2> QED BY <2>4, <2>5 DEF C!Next
<1>7. CASE CombatLoop
    BY <1>7, LoopTicks DEF C!Next
<1>8. ASSUME NEW u \in Uids, Respawn(u) PROVE FInv' /\ (C!Next \/ UNCHANGED C!vars)
    <2>1. {u} \in SUBSET Uids
        OBVIOUS
    <2> QED BY <1>8, <2>1, RespawnStep DEF C!Next
<1>9. ASSUME NEW victims \in Aims, Attack(victims) PROVE FInv' /\ C!Next
    BY <1>9, AttackStep DEF C!Next
<1> QED BY <1>1, <1>2, <1>3, <1>4, <1>5, <1>6, <1>7, <1>8, <1>9 DEF FieldNext

\* The drops, whatever goes on around them.
LEMMA DropStep ==
    FInv /\ DropInv /\ [FieldNext]_fvars => DropInv'
<1> SUFFICES ASSUME FInv, DropInv, [FieldNext]_fvars PROVE DropInv'
    OBVIOUS
<1>1. ASSUME NEW p \in Haunts, Enter(p) \/ Jump(p) PROVE DropInv'
    BY <1>1, DropInvScene DEF Enter, Jump, LoginGateway, Teleport
<1>2. ASSUME NEW p \in Haunts, Walk(p) PROVE DropInv'
    <2>1. Underfoot(p) \in SUBSET dropbags
        BY DEF Underfoot
    <2> QED BY <1>2, <2>1, DropInvTake DEF Walk, Move
<1>3. CASE Grab
    <2>1. PICK d \in dropbags : Pickup(d)
        BY <1>3 DEF Grab
    <2>2. {d} \in SUBSET dropbags
        OBVIOUS
    <2> QED BY <2>1, <2>2, DropInvTake DEF Pickup
<1>4. ASSUME UNCHANGED loot PROVE DropInv'
    BY <1>4, DropInvScene DEF loot
<1>5. ASSUME NEW victims \in Aims, Attack(victims) PROVE DropInv'
    <2>1. PICK n \in Nat : \E P : Kill(n, P)
        BY <1>5, AttackStep
    <2> QED BY <2>1, DropInvKill
<1> QED BY <1>1, <1>2, <1>3, <1>4, <1>5
        DEF FieldNext, Spawn, Revive, CombatLoop, Respawn, fvars

\* The inductive invariant of the field.
FieldInv == FInv /\ CInv /\ DropInv

\* The three invariants together are inductive.
LEMMA FieldInvAlways == FieldSpec => []FieldInv
<1>1. FieldInit => FieldInv
    BY FieldStart, CInvInit DEF FieldInv
<1>2. FieldInv /\ [FieldNext]_fvars => FieldInv'
    BY FieldStep, CInvNext, DropStep DEF FieldInv
<1> QED BY <1>1, <1>2, PTL DEF FieldSpec

\* The geometry of combat_loop implements Combat: whole-number steps never take a
\* chasing monster out of AGGRO_RADIUS, a round hurts by the blows of at most
\* MAX_ATTACKERS monsters, and nothing else touches the player's life.
THEOREM FieldImplementsCombat == FieldSpec => CombatSpec
<1>1. FieldInit => C!Init
    BY FieldStart
<1>2. FieldInv /\ [FieldNext]_fvars => [C!Next]_(C!vars)
    BY FieldStep DEF FieldInv
<1> QED BY <1>1, <1>2, FieldInvAlways, PTL DEF FieldSpec, CombatSpec, C!Spec

\* So the client's HP bar and revival offer agree with the session's HP and
\* player_dead in the field too (combat_loop, on_player_revive).
THEOREM ClientIsTold == FieldSpec => []ClientKnows
<1>1. FieldInv => ClientKnows
    BY DEF FieldInv, CInv, ClientKnows, C!ClientKnows
<1> QED BY <1>1, FieldInvAlways, PTL

\* Whatever the target and the skill, _pick_victims returns as many as it can, each
\* once, the target first, the nearest before those farther away.
THEOREM NearestAreHit == FieldSpec => []VictimsRight
<1>1. FieldInv => VictimsRight
    BY PickRight DEF FieldInv
<1> QED BY <1>1, FieldInvAlways, PTL

\* However monsters fall, together or one by one, each drop is in s.dropbags or was
\* given once (on_attack, _auto_pickup, on_pickup).
THEOREM FieldGivesOnce == FieldSpec => []EachDropOnce
<1>1. FieldInv => EachDropOnce
    BY DropsCount DEF FieldInv
<1> QED BY <1>1, FieldInvAlways, PTL

\* A bag the client shows is there to be picked up, after any fight and any change of
\* place (on_attack, on_teleport, _auto_pickup).
THEOREM FieldShowsWhatIsThere == FieldSpec => []ShownIsThere
<1>1. FieldInv => ShownIsThere
    BY DEF FieldInv, DropInv
<1> QED BY <1>1, FieldInvAlways, PTL
=============================================================================
