------------------------------ MODULE Serinfo ------------------------------
(***************************************************************************)
(* serinfo.py: the text in two layers of base64, each with a number of     *)
(* junk characters around it and '|' for '='; bytes are numbers.           *)
(***************************************************************************)
EXTENDS Integers, SequencesExt, FiniteSets

Equals == 61
Bar    == 124

\* base64.b64encode: the digits of the standard alphabet ...
Digit(v) == CASE v < 26 -> v + 65 [] v \in 26..51 -> v + 71 [] v \in 52..61 -> v - 4
              [] v = 62 -> 43 [] v = 63 -> 47

Digits == {Digit(v) : v \in 0..63}
Value  == [c \in Digits |-> CHOOSE v \in 0..63 : Digit(v) = c]

\* ... four for every three bytes, with '=' for those that are missing.
B64e(s) ==
    LET b(i) == IF i <= Len(s) THEN s[i] ELSE 0
        Sextet(g, k) == CASE k = 0 -> b(3 * g + 1) \div 4
                          [] k = 1 -> (b(3 * g + 1) % 4) * 16 + (b(3 * g + 2) \div 16)
                          [] k = 2 -> (b(3 * g + 2) % 16) * 4 + (b(3 * g + 3) \div 64)
                          [] k = 3 -> b(3 * g + 3) % 64
        Char(g, k) == IF k > Len(s) - 3 * g THEN Equals ELSE Digit(Sextet(g, k))
    IN  [j \in 1..(4 * ((Len(s) + 2) \div 3)) |-> Char((j - 1) \div 4, (j - 1) % 4)]

\* What of s is in S.
Kept(s, S) == FlattenSeq([i \in DOMAIN s |-> IF s[i] \in S THEN <<s[i]>> ELSE <<>>])

\* base64.b64decode, which skips foreign characters; <<>> where it raises.
B64d(t) ==
    LET d == Kept(t, Digits)
        missing == Cardinality({i \in DOMAIN t : t[i] = Equals})
        v(i) == IF i <= Len(d) THEN Value[d[i]] ELSE 0
        Octet(g, k) == CASE k = 0 -> v(4 * g + 1) * 4 + (v(4 * g + 2) \div 16)
                         [] k = 1 -> (v(4 * g + 2) % 16) * 16 + (v(4 * g + 3) \div 4)
                         [] k = 2 -> (v(4 * g + 3) % 4) * 64 + v(4 * g + 4)
        size == ((Len(d) + missing) \div 4) * 3 - missing
    IN  IF (Len(d) + missing) % 4 # 0 \/ missing > 2 \/ size < 0 THEN <<>>
        ELSE [j \in 1..size |-> Octet((j - 1) \div 3, (j - 1) % 3)]

Swapped(s, c, d) == [i \in DOMAIN s |-> IF s[i] = c THEN d ELSE s[i]]

Junk(pad, n) == [i \in 1..n |-> pad]

encode_serinfo_swapped(text, o, i, pad) ==  \* a bug: the two numbers in each other's place
    LET inner == Swapped(B64e(text), Equals, Bar)
        outer == Swapped(B64e(Junk(pad, o) \o inner \o <<48 + i>>), Equals, Bar)
    IN  <<48 + o>> \o outer \o Junk(pad, i)

encode_serinfo(text, o, i, pad) ==
    LET inner == Swapped(B64e(text), Equals, Bar)
        outer == Swapped(B64e(Junk(pad, i) \o inner \o <<48 + i>>), Equals, Bar)
    IN  <<48 + o>> \o outer \o Junk(pad, o)

decode_serinfo(blob) ==
    LET o == blob[1] - 48
        z == B64d(Swapped(SubSeq(blob, 2, Len(blob) - o), Bar, Equals))
    IN  IF z = <<>> THEN <<>>
        ELSE B64d(Swapped(SubSeq(z, z[Len(z)] - 48 + 1, Len(z) - 1), Bar, Equals))
=============================================================================
