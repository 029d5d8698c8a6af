----------------------------- MODULE TextCodes -----------------------------
(***************************************************************************)
(* The character codes of CMarkup (src/markup.cpp): code points to and     *)
(* from UTF-8 bytes and UTF-16 units. A decoder reads the character at     *)
(* place i of a sequence and tells its code and the place behind it.       *)
(***************************************************************************)
EXTENDS Integers, Sequences

Bad == -1
Mark == 63 \* '?', put in the place of what cannot be decoded

IsCode(c) == c \in Nat /\ c < 1114112
IsScalar(c) == IsCode(c) /\ ~(55296 <= c /\ c < 57344)

Decoded(code, next) == [code |-> code, next |-> next]

---------------------------------------------------------------------------
EncodeCharUTF8(c) ==
  IF c < 128 THEN <<c>>
  ELSE IF c < 2048 THEN <<192 + ((c \div 64) % 32), 128 + (c % 64)>>
  ELSE IF c < 65536
    THEN <<224 + ((c \div 4096) % 16), 128 + ((c \div 64) % 64), 128 + (c % 64)>>
  ELSE <<240 + ((c \div 262144) % 8), 128 + ((c \div 4096) % 64),
         128 + ((c \div 64) % 64), 128 + (c % 64)>>

\* How many bytes a lead byte announces; it may also be one that never leads.
Extra(b) ==
  IF (b \div 32) % 2 = 0 THEN 1
  ELSE IF (b \div 16) % 2 = 0 THEN 2
  ELSE IF (b \div 8) % 2 = 0 THEN 3
  ELSE 0

Follow(s, i, k) == \A j \in 1..k : i + j <= Len(s) /\ s[i + j] >= 128

\* Only the top bit of the bytes that follow is looked at. A byte that does not follow
\* is left for the next character.
DecodeCharUTF8(s, i) ==
  LET b == s[i]
      n == Extra(b)
      low(j) == s[i + j] % 64
  IN IF b < 128 THEN Decoded(b, i + 1)
     ELSE IF n = 0 THEN Decoded(Bad, i + 1)
     ELSE IF ~Follow(s, i, n)
       THEN Decoded(Bad, i + 1 + (CHOOSE k \in 0..n - 1 : Follow(s, i, k) /\ ~Follow(s, i, k + 1)))
     ELSE Decoded(IF n = 1 THEN (b % 32) * 64 + low(1)
                  ELSE IF n = 2 THEN ((b % 16) * 64 + low(1)) * 64 + low(2)
                  ELSE (((b % 8) * 64 + low(1)) * 64 + low(2)) * 64 + low(3),
                  i + 1 + n)

---------------------------------------------------------------------------
EncodeCharUTF16(c) ==
  IF c < 65536 THEN <<c>>
  ELSE <<55296 + (((c - 65536) \div 1024) % 1024), 56320 + ((c - 65536) % 1024)>>

\* Any surrogate takes the unit that follows it, whatever it is.
DecodeCharUTF16(s, i) ==
  IF s[i] \div 2048 # 27 THEN Decoded(s[i], i + 1)
  ELSE IF i = Len(s) THEN Decoded(Bad, i + 1)
  ELSE IF s[i + 1] = 0 THEN Decoded(Bad, i + 1)
  ELSE Decoded((s[i] % 1024) * 1024 + (s[i + 1] % 1024) + 65536, i + 2)

---------------------------------------------------------------------------
(* Whole texts. *)

OrMark(c) == IF c = Bad THEN Mark ELSE c

CodesOfUTF8(s) ==
  LET from[i \in 1..4 * Len(s) + 5] ==
        IF i > Len(s) THEN <<>>
        ELSE LET d == DecodeCharUTF8(s, i) IN <<OrMark(d.code)>> \o from[d.next]
  IN from[1]

CodesOfUTF16(s) ==
  LET from[i \in 1..2 * Len(s) + 3] ==
        IF i > Len(s) THEN <<>>
        ELSE LET d == DecodeCharUTF16(s, i) IN <<OrMark(d.code)>> \o from[d.next]
  IN from[1]

\* A code in an encoding; ISO-8859-1 has the first 256 of them.
Encode(enc, c) ==
  CASE enc = "UTF-8"      -> EncodeCharUTF8(c)
    [] enc = "UTF-16"     -> EncodeCharUTF16(c)
    [] enc = "ISO-8859-1" -> IF c < 256 THEN <<c>> ELSE <<>>

\* The codes in an encoding, one after the other.
Encoded(enc, codes) ==
  LET upTo[k \in 0..Len(codes)] == IF k = 0 THEN <<>> ELSE upTo[k - 1] \o Encode(enc, codes[k])
  IN upTo[Len(codes)]

\* UTF16To8 into a buffer of count bytes: what is written.
FitsByOne(used, bytes, count) == used + 3 <= count \/ used + bytes <= count
Fits(used, bytes, count) == used + 4 <= count \/ used + bytes <= count

UTF16To8(s, count) ==
  LET codes == CodesOfUTF16(s)
      upTo[k \in 0..Len(codes)] ==
        IF k = 0 THEN [out |-> <<>>, full |-> FALSE]
        ELSE LET r == upTo[k - 1]
                 e == EncodeCharUTF8(codes[k])
             IN IF r.full \/ ~Fits(Len(r.out), Len(e), count) THEN [r EXCEPT !.full = TRUE]
                ELSE [r EXCEPT !.out = @ \o e]
  IN upTo[Len(codes)].out

\* UTF8To16 of at most count bytes, up to a null: what is written. The bytes converted
\* may end within a character, which then becomes a mark.
UTF8To16(s, count) ==
  LET part  == SubSeq(s, 1, IF count < Len(s) THEN count ELSE Len(s))
      codes == CodesOfUTF8(part)
      nulls == {k \in DOMAIN codes : codes[k] = 0}
      stop  == IF nulls = {} THEN Len(codes) ELSE (CHOOSE k \in nulls : \A j \in nulls : k <= j) - 1
  IN Encoded("UTF-16", SubSeq(codes, 1, stop))
=============================================================================
