------------------------------- MODULE Codec -------------------------------
(***************************************************************************)
(* codec.py's CByteBuffer: numbers, strings, sizes and arrays written to   *)
(* bytes and read back.  A byte has Byte values; with 256 this is the wire *)
(* format, with 4 the lengths at which sizes and strings change form are 3 *)
(* and 15 instead of 255 and 65535.                                        *)
(*                                                                         *)
(* A message is written and read along its layout, a sequence of fields.   *)
(* Floats and signed numbers occur in no message modelled here, nor does a *)
(* number above 64 bits, on which packing raises.                          *)
(***************************************************************************)
EXTENDS Naturals, SequencesExt

CONSTANT Byte

ASSUME CodecAssumption == Byte \in Nat \ {0, 1}

Word == Byte * Byte

u8  == <<"u8">>
u16 == <<"u16">>
u32 == <<"u32">>
u64 == <<"u64">>
str == <<"str">>
Simples == {u8, u16, u32, u64, str}
List(layout) == <<"list", layout>>      \* of structs, which hold no lists

\* How many numbers a field tells apart.
Power == [u8 |-> Byte, u16 |-> Word, u32 |-> Word * Word, u64 |-> (Word * Word) * (Word * Word)]

\* Little-endian; what does not fit is masked off.
One(n)   == <<n % Byte>>
Two(n)   == <<n % Byte, (n \div Byte) % Byte>>
Four(n)  == Two(n) \o Two(n \div Word)
Eight(n) == Four(n) \o Four(n \div Power.u32)

LengthAtMost(n) ==              \* a bug: the mark itself is taken for a length
    IF n <= Byte - 1 THEN One(n) ELSE One(Byte - 1) \o Two(n)

Length(n) ==
    IF n < Byte - 1 THEN One(n) ELSE One(Byte - 1) \o Two(n)

WriteString(s) == Length(Len(s)) \o s

WriteSize(n) ==
    IF n < Word - 1 THEN Length(n) ELSE One(Byte - 1) \o Two(Word - 1) \o Four(n)

WriteSimple(f, v) ==
    CASE f = u8 -> One(v) [] f = u16 -> Two(v) [] f = u32 -> Four(v) [] f = u64 -> Eight(v)
      [] f = str -> WriteString(v)

WriteStruct(layout, vals) ==
    FlattenSeq([i \in DOMAIN layout |-> WriteSimple(layout[i], vals[i])])

WriteField(f, v) ==
    IF f[1] = "list"
    THEN WriteSize(Len(v)) \o FlattenSeq([i \in DOMAIN v |-> WriteStruct(f[2], v[i])])
    ELSE WriteSimple(f, v)

Write(layout, vals) ==
    FlattenSeq([i \in DOMAIN layout |-> WriteField(layout[i], vals[i])])
-----------------------------------------------------------------------------
\* Reading: pos bytes of b are behind.  Past the end, where the code raises
\* EOFError, there are zeros; pos is then beyond the end, and stays there.
At(b, i) == IF i \in DOMAIN b THEN b[i] ELSE 0

ReadOne(b, pos)   == At(b, pos + 1)
ReadTwo(b, pos)   == At(b, pos + 1) + Byte * At(b, pos + 2)
ReadFour(b, pos)  == ReadTwo(b, pos) + Word * ReadTwo(b, pos + 2)
ReadEight(b, pos) == ReadFour(b, pos) + Power.u32 * ReadFour(b, pos + 4)

\* What was read, and where the next read begins.
Got(v, pos) == [v |-> v, pos |-> pos]

ReadLength(b, pos) ==
    IF ReadOne(b, pos) # Byte - 1 THEN Got(ReadOne(b, pos), pos + 1)
    ELSE Got(ReadTwo(b, pos + 1), pos + 3)

ReadString(b, pos) ==
    LET n == ReadLength(b, pos)
    IN  Got([i \in 1..n.v |-> At(b, n.pos + i)], n.pos + n.v)

ReadSize(b, pos) ==
    LET n == ReadLength(b, pos)
    IN  IF n.v = Word - 1 THEN Got(ReadFour(b, n.pos), n.pos + 4) ELSE n

\* A reader is what it reads at each place; here one after the other.
InTurn(readers, pos) ==
    LET after[k \in 0..Len(readers)] ==
            IF k = 0 THEN Got(<<>>, pos)
            ELSE LET before == after[k - 1]
                     e == readers[k][before.pos]
                 IN  Got(Append(before.v, e.v), e.pos)
    IN  after[Len(readers)]

Simple(f, b) == [pos \in Nat |->
    CASE f = u8 -> Got(ReadOne(b, pos), pos + 1) [] f = u16 -> Got(ReadTwo(b, pos), pos + 2)
      [] f = u32 -> Got(ReadFour(b, pos), pos + 4) [] f = u64 -> Got(ReadEight(b, pos), pos + 8)
      [] f = str -> ReadString(b, pos)]

Struct(layout, b) == [pos \in Nat |-> InTurn([i \in DOMAIN layout |-> Simple(layout[i], b)], pos)]

Reader(f, b) ==
    IF f[1] = "list"
    THEN [pos \in Nat |-> LET n == ReadSize(b, pos)
                          IN  InTurn([i \in 1..n.v |-> Struct(f[2], b)], n.pos)]
    ELSE Simple(f, b)

Read(layout, b, pos) == InTurn([i \in DOMAIN layout |-> Reader(layout[i], b)], pos)

\* What a client reads from a whole body; nothing unless that is exactly all of it.
Parsed(layout, b) == LET r == Read(layout, b, 0) IN IF r.pos = Len(b) THEN r.v ELSE <<>>
=============================================================================
