--------------------------- MODULE Markup_proofs ---------------------------
(***************************************************************************)
(* Proofs about CMarkup. Its character codes, for every code point and     *)
(* every text: a decoder reads back what the encoder wrote, wherever in a  *)
(* text it stands, and goes on by at least one place and not beyond the    *)
(* end, whatever it reads; the bits of a code point are its digits to the  *)
(* base 64 (UTF-8) or 1024 (UTF-16). Its saved positions: one is found     *)
(* again for as long as its element is in the document. Its files: what is *)
(* read from one, whatever its bytes, is UTF-8 without nulls; a file in    *)
(* any of the encodings is read as the text it stands for, and is written  *)
(* back byte for byte. Its buffers: they end between two characters.       *)
(***************************************************************************)
EXTENDS TextFile, SavedPositions, FiniteSetTheorems, SequenceTheorems, TLAPS

\* Every set of natural numbers with an element has a least one.
LEMMA Least ==
  ASSUME NEW T \in SUBSET Nat, T # {}
  PROVE  \E x \in T : \A y \in T : x <= y
<1> DEFINE R == {p \in Nat \X Nat : p[1] < p[2]}
<1>1. R = OpToRel(<, Nat)
  BY DEF OpToRel
<1>2. IsWellFoundedOn(R, Nat)
  BY <1>1, NatLessThanWellFounded, Zenon
<1>3. PICK x \in T : \A y \in T : ~(<<y, x>> \in R)
  <2> HIDE DEF R
  <2> QED BY <1>2, WFMin, Zenon
<1>4. \A a, b \in Nat : a < b => <<a, b>> \in R
  OBVIOUS
<1>5. \A y \in T : x <= y
  <2> HIDE DEF R
  <2> TAKE y \in T
  <2>1. x \in Nat /\ y \in Nat
    OBVIOUS
  <2>2. ~(y < x)
    BY <1>3, <1>4, <2>1
  <2> QED BY <2>1, <2>2
<1> QED BY <1>5

---------------------------------------------------------------------------
(* Digits. *)

\* One digit to the base 64.
LEMMA LowDigit ==
  ASSUME NEW c \in Nat
  PROVE  /\ c % 64 \in 0..63 /\ c \div 64 \in Nat
         /\ c = (c \div 64) * 64 + (c % 64)
  BY SMT

\* Two digits.
LEMMA TwoDigits ==
  ASSUME NEW c \in Nat
  PROVE  /\ (c \div 64) % 64 \in 0..63 /\ c % 64 \in 0..63 /\ c \div 4096 \in Nat
         /\ c = ((c \div 4096) * 64 + ((c \div 64) % 64)) * 64 + (c % 64)
<1>1. (c \div 64) \div 64 = c \div 4096
  BY SMT
<1>2. c \div 64 \in Nat /\ c % 64 \in 0..63 /\ c = (c \div 64) * 64 + (c % 64)
  BY LowDigit
<1>3. /\ (c \div 64) % 64 \in 0..63 /\ (c \div 64) \div 64 \in Nat
      /\ c \div 64 = ((c \div 64) \div 64) * 64 + ((c \div 64) % 64)
  BY <1>2, LowDigit
<1> QED
  BY <1>1, <1>2, <1>3, SMT

\* Three digits.
LEMMA ThreeDigits ==
  ASSUME NEW c \in Nat
  PROVE  /\ (c \div 4096) % 64 \in 0..63 /\ (c \div 64) % 64 \in 0..63
         /\ c % 64 \in 0..63 /\ c \div 262144 \in Nat
         /\ c = (((c \div 262144) * 64 + ((c \div 4096) % 64)) * 64
                   + ((c \div 64) % 64)) * 64 + (c % 64)
<1>1. (c \div 4096) \div 64 = c \div 262144
  BY SMT
<1>2. /\ (c \div 64) % 64 \in 0..63 /\ c % 64 \in 0..63 /\ c \div 4096 \in Nat
      /\ c = ((c \div 4096) * 64 + ((c \div 64) % 64)) * 64 + (c % 64)
  BY TwoDigits
<1>3. /\ (c \div 4096) % 64 \in 0..63 /\ (c \div 4096) \div 64 \in Nat
      /\ c \div 4096 = ((c \div 4096) \div 64) * 64 + ((c \div 4096) % 64)
  BY <1>2, LowDigit
<1> QED
  BY <1>1, <1>2, <1>3, SMT

\* The byte b announces n more, and x is the digit it carries in its low bits.
IsLead(b, n, x) ==
  Extra(b) = n /\ ~(b < 128) /\ x = b % (IF n = 1 THEN 32 ELSE IF n = 2 THEN 16 ELSE 8)

\* The byte b follows another, and x is its digit.
IsFollower(b, x) == b >= 128 /\ x = b % 64

\* The lead bytes EncodeCharUTF8 writes.
LEMMA LeadBytes ==
  /\ \A x \in 0..31 : IsLead(192 + x, 1, x)
  /\ \A x \in 0..15 : IsLead(224 + x, 2, x)
  /\ \A x \in 0..7 : IsLead(240 + x, 3, x)
<1>1. ASSUME NEW x \in 0..31 PROVE IsLead(192 + x, 1, x)
  BY SMT DEF IsLead, Extra
<1>2. ASSUME NEW x \in 0..15 PROVE IsLead(224 + x, 2, x)
  BY SMT DEF IsLead, Extra
<1>3. ASSUME NEW x \in 0..7 PROVE IsLead(240 + x, 3, x)
  BY SMT DEF IsLead, Extra
<1> QED
  BY <1>1, <1>2, <1>3

\* The bytes it writes behind them.
LEMMA Followers ==
  ASSUME NEW x \in 0..63
  PROVE  IsFollower(128 + x, x)
  BY SMT DEF IsFollower

---------------------------------------------------------------------------
(* Where a sequence stands in a text. *)

\* The sequence e stands in s at the place i.
StandsAt(e, s, i) ==
  /\ i + Len(e) - 1 <= Len(s)
  /\ \A j \in 1..Len(e) : s[i + j - 1] = e[j]

\* The places of two, one by one.
LEMMA Stands2 ==
  ASSUME NEW s \in Seq(Nat), NEW i \in Nat \ {0}, NEW a, NEW b, StandsAt(<<a, b>>, s, i)
  PROVE  i + 1 <= Len(s) /\ s[i] = a /\ s[i + 1] = b
<1> DEFINE e == <<a, b>>
<1>1. Len(e) = 2 /\ e[1] = a /\ e[2] = b
  OBVIOUS
<1> HIDE DEF e
<1>2. i + Len(e) - 1 <= Len(s) /\ \A j \in 1..Len(e) : s[i + j - 1] = e[j]
  BY DEF StandsAt, e
<1>3. s[i + 1 - 1] = e[1] /\ s[i + 2 - 1] = e[2]
  BY <1>1, <1>2, SMT
<1>4. i + 1 - 1 = i /\ i + 2 - 1 = i + 1 /\ i + Len(e) - 1 = i + 1
  BY <1>1, SMT
<1> QED
  BY <1>1, <1>2, <1>3, <1>4, Zenon

\* The places of three.
LEMMA Stands3 ==
  ASSUME NEW s \in Seq(Nat), NEW i \in Nat \ {0}, NEW a, NEW b, NEW c,
         StandsAt(<<a, b, c>>, s, i)
  PROVE  i + 2 <= Len(s) /\ s[i] = a /\ s[i + 1] = b /\ s[i + 2] = c
<1> DEFINE e == <<a, b, c>>
<1>1. Len(e) = 3 /\ e[1] = a /\ e[2] = b /\ e[3] = c
  OBVIOUS
<1> HIDE DEF e
<1>2. i + Len(e) - 1 <= Len(s) /\ \A j \in 1..Len(e) : s[i + j - 1] = e[j]
  BY DEF StandsAt, e
<1>3. s[i + 1 - 1] = e[1] /\ s[i + 2 - 1] = e[2] /\ s[i + 3 - 1] = e[3]
  BY <1>1, <1>2, SMT
<1>4. /\ i + 1 - 1 = i /\ i + 2 - 1 = i + 1 /\ i + 3 - 1 = i + 2
      /\ i + Len(e) - 1 = i + 2
  BY <1>1, SMT
<1> QED
  BY <1>1, <1>2, <1>3, <1>4, Zenon

\* The places of four.
LEMMA Stands4 ==
  ASSUME NEW s \in Seq(Nat), NEW i \in Nat \ {0}, NEW a, NEW b, NEW c, NEW d,
         StandsAt(<<a, b, c, d>>, s, i)
  PROVE  /\ i + 3 <= Len(s)
         /\ s[i] = a /\ s[i + 1] = b /\ s[i + 2] = c /\ s[i + 3] = d
<1> DEFINE e == <<a, b, c, d>>
<1>1. Len(e) = 4 /\ e[1] = a /\ e[2] = b /\ e[3] = c /\ e[4] = d
  OBVIOUS
<1> HIDE DEF e
<1>2. i + Len(e) - 1 <= Len(s) /\ \A j \in 1..Len(e) : s[i + j - 1] = e[j]
  BY DEF StandsAt, e
<1>3. /\ s[i + 1 - 1] = e[1] /\ s[i + 2 - 1] = e[2]
      /\ s[i + 3 - 1] = e[3] /\ s[i + 4 - 1] = e[4]
  BY <1>1, <1>2, SMT
<1>4. /\ i + 1 - 1 = i /\ i + 2 - 1 = i + 1 /\ i + 3 - 1 = i + 2 /\ i + 4 - 1 = i + 3
      /\ i + Len(e) - 1 = i + 3
  BY <1>1, SMT
<1> QED
  BY <1>1, <1>2, <1>3, <1>4, Zenon

---------------------------------------------------------------------------
(* UTF-8. *)

\* A lead byte and one that follows.
LEMMA Decode2 ==
  ASSUME NEW s \in Seq(Nat), NEW i \in Nat \ {0}, NEW a, NEW b, NEW x, NEW y,
         StandsAt(<<a, b>>, s, i), IsLead(a, 1, x), IsFollower(b, y)
  PROVE  DecodeCharUTF8(s, i) = Decoded(x * 64 + y, i + 2)
<1>1. i + 1 <= Len(s) /\ s[i] = a /\ s[i + 1] = b
  BY Stands2, Zenon
<1>2. Extra(a) = 1 /\ ~(a < 128) /\ a % 32 = x /\ b >= 128 /\ b % 64 = y
  BY SMT DEF IsLead, IsFollower
<1>3. Follow(s, i, 1)
  BY <1>1, <1>2, SMT DEF Follow
<1>4. DecodeCharUTF8(s, i) = Decoded(x * 64 + y, i + 1 + 1)
  BY <1>1, <1>2, <1>3, SMT DEF DecodeCharUTF8
<1> QED
  BY <1>4, SMT

\* A lead byte and two.
LEMMA Decode3 ==
  ASSUME NEW s \in Seq(Nat), NEW i \in Nat \ {0},
         NEW a, NEW b, NEW c, NEW x, NEW y, NEW z, StandsAt(<<a, b, c>>, s, i),
         IsLead(a, 2, x), IsFollower(b, y), IsFollower(c, z)
  PROVE  DecodeCharUTF8(s, i) = Decoded((x * 64 + y) * 64 + z, i + 3)
<1>1. i + 2 <= Len(s) /\ s[i] = a /\ s[i + 1] = b /\ s[i + 2] = c
  BY Stands3, Zenon
<1>2. /\ Extra(a) = 2 /\ ~(a < 128) /\ a % 16 = x
      /\ b >= 128 /\ b % 64 = y /\ c >= 128 /\ c % 64 = z
  BY SMT DEF IsLead, IsFollower
<1>3. Follow(s, i, 2)
  <2>1. i + 1 <= Len(s) /\ i + 2 <= Len(s)
    BY <1>1, SMT
  <2>2. \A j \in 1..2 : j = 1 \/ j = 2
    BY SMT
  <2> QED
    BY <1>1, <1>2, <2>1, <2>2, Zenon DEF Follow
<1>4. DecodeCharUTF8(s, i) = Decoded((x * 64 + y) * 64 + z, i + 1 + 2)
  BY <1>1, <1>2, <1>3, SMT DEF DecodeCharUTF8
<1> QED
  BY <1>4, SMT

\* A lead byte and three.
LEMMA Decode4 ==
  ASSUME NEW s \in Seq(Nat), NEW i \in Nat \ {0},
         NEW a, NEW b, NEW c, NEW d, NEW w, NEW x, NEW y, NEW z,
         StandsAt(<<a, b, c, d>>, s, i),
         IsLead(a, 3, w), IsFollower(b, x), IsFollower(c, y), IsFollower(d, z)
  PROVE  DecodeCharUTF8(s, i) = Decoded(((w * 64 + x) * 64 + y) * 64 + z, i + 4)
<1>1. i + 3 <= Len(s) /\ s[i] = a /\ s[i + 1] = b /\ s[i + 2] = c /\ s[i + 3] = d
  BY Stands4, Zenon
<1>2. /\ Extra(a) = 3 /\ ~(a < 128) /\ a % 8 = w
      /\ b >= 128 /\ b % 64 = x /\ c >= 128 /\ c % 64 = y /\ d >= 128 /\ d % 64 = z
  BY SMT DEF IsLead, IsFollower
<1>3. Follow(s, i, 3)
  <2>1. i + 1 <= Len(s) /\ i + 2 <= Len(s) /\ i + 3 <= Len(s)
    <3>1. i + 3 <= Len(s)
      BY <1>1, Zenon
    <3>2. Len(s) \in Nat
      OBVIOUS
    <3> QED
      BY <3>1, <3>2, SMT
  <2>2. \A j \in 1..3 : j = 1 \/ j = 2 \/ j = 3
    BY SMT
  <2> QED
    BY <1>1, <1>2, <2>1, <2>2, Zenon DEF Follow
<1>4. DecodeCharUTF8(s, i) = Decoded(((w * 64 + x) * 64 + y) * 64 + z, i + 1 + 3)
  BY <1>1, <1>2, <1>3, SMT DEF DecodeCharUTF8
<1> QED
  BY <1>4, SMT

\* DecodeCharUTF8 reads what EncodeCharUTF8 wrote, for every code point and at every
\* place of a text (markup.cpp:3231, 3310).
THEOREM UTF8RoundTrip ==
  ASSUME NEW c \in Nat, NEW s \in Seq(Nat), NEW i \in Nat \ {0},
         IsCode(c), StandsAt(EncodeCharUTF8(c), s, i)
  PROVE  DecodeCharUTF8(s, i) = Decoded(c, i + Len(EncodeCharUTF8(c)))
<1>1. CASE c < 128
  <2>1. EncodeCharUTF8(c) = <<c>> /\ s[i] = c
    BY <1>1, SMT DEF EncodeCharUTF8, StandsAt
  <2> QED
    BY <1>1, <2>1, SMT DEF DecodeCharUTF8
<1>2. CASE 128 <= c /\ c < 2048
  <2> DEFINE x == c \div 64
             y == c % 64
             a == 192 + x
             b == 128 + y
  <2>1. x \in 0..31 /\ x % 32 = x /\ y \in 0..63 /\ c = x * 64 + y
    BY <1>2, SMT
  <2>2. EncodeCharUTF8(c) = <<a, b>>
    BY <1>2, <2>1, SMT DEF EncodeCharUTF8
  <2>3. IsLead(a, 1, x) /\ IsFollower(b, y)
    BY <2>1, LeadBytes, Followers
  <2> HIDE DEF x, y, a, b
  <2>4. StandsAt(<<a, b>>, s, i) /\ Len(EncodeCharUTF8(c)) = 2
    BY <2>2
  <2>5. DecodeCharUTF8(s, i) = Decoded(x * 64 + y, i + 2)
    BY <2>3, <2>4, Decode2
  <2> QED
    BY <2>1, <2>4, <2>5, Zenon
<1>3. CASE 2048 <= c /\ c < 65536
  <2> DEFINE x == c \div 4096
             y == (c \div 64) % 64
             z == c % 64
             a == 224 + x
             b == 128 + y
             d == 128 + z
  <2>1. y \in 0..63 /\ z \in 0..63 /\ x \in Nat /\ c = (x * 64 + y) * 64 + z
    BY TwoDigits
  <2>2. EncodeCharUTF8(c) = <<224 + (x % 16), b, d>>
    BY <1>3, SMT DEF EncodeCharUTF8
  <2> HIDE DEF x, y, z
  <2>3. x \in 0..15 /\ x % 16 = x
    BY <1>3, <2>1, SMT
  <2>4. IsLead(a, 2, x) /\ IsFollower(b, y) /\ IsFollower(d, z)
    BY <2>1, <2>3, LeadBytes, Followers
  <2>5. EncodeCharUTF8(c) = <<a, b, d>>
    BY <2>2, <2>3, Zenon
  <2> HIDE DEF a, b, d
  <2>6. StandsAt(<<a, b, d>>, s, i) /\ Len(EncodeCharUTF8(c)) = 3
    BY <2>5
  <2>7. DecodeCharUTF8(s, i) = Decoded((x * 64 + y) * 64 + z, i + 3)
    BY <2>4, <2>6, Decode3
  <2> QED
    BY <2>1, <2>6, <2>7, Zenon
<1>4. CASE 65536 <= c
  <2> DEFINE w == c \div 262144
             x == (c \div 4096) % 64
             y == (c \div 64) % 64
             z == c % 64
             a == 240 + w
             b == 128 + x
             d == 128 + y
             e == 128 + z
  <2>1. /\ x \in 0..63 /\ y \in 0..63 /\ z \in 0..63 /\ w \in Nat
        /\ c = ((w * 64 + x) * 64 + y) * 64 + z
    BY ThreeDigits, SMT
  <2>2. EncodeCharUTF8(c) = <<240 + (w % 8), b, d, e>>
    BY <1>4, SMT DEF EncodeCharUTF8
  <2> HIDE DEF w, x, y, z
  <2>3. w \in 0..7 /\ w % 8 = w
    BY <2>1, SMT DEF IsCode
  <2>4. IsLead(a, 3, w) /\ IsFollower(b, x) /\ IsFollower(d, y) /\ IsFollower(e, z)
    <3>1. IsLead(a, 3, w)
      BY <2>3, LeadBytes
    <3>2. IsFollower(b, x) /\ IsFollower(d, y) /\ IsFollower(e, z)
      BY <2>1, Followers
    <3> QED
      BY <3>1, <3>2
  <2>5. EncodeCharUTF8(c) = <<a, b, d, e>>
    BY <2>2, <2>3, Zenon
  <2> HIDE DEF a, b, d, e
  <2>6. StandsAt(<<a, b, d, e>>, s, i) /\ Len(EncodeCharUTF8(c)) = 4
    BY <2>5
  <2>7. DecodeCharUTF8(s, i) = Decoded(((w * 64 + x) * 64 + y) * 64 + z, i + 4)
    BY <2>4, <2>6, Decode4
  <2> QED
    BY <2>1, <2>6, <2>7, Zenon
<1> QED
  BY <1>1, <1>2, <1>3, <1>4, SMT

\* Whatever the bytes are, DecodeCharUTF8 goes on by one place or more and at most to
\* the place behind the text, so that the loops over a text end within it
\* (markup.cpp:3231, 3381).
THEOREM UTF8GoesOn ==
  ASSUME NEW s \in Seq(Nat), NEW i \in 1..Len(s)
  PROVE  DecodeCharUTF8(s, i).next \in i + 1 .. Len(s) + 1
<1> DEFINE n == Extra(s[i])
<1>1. n \in 0..3 /\ Len(s) \in Nat /\ s[i] \in Nat
  BY SMT DEF Extra
<1>2. Follow(s, i, 0)
  BY SMT DEF Follow
<1>3. CASE s[i] < 128 \/ n = 0
  BY <1>3, <1>1, SMT DEF DecodeCharUTF8, Decoded
<1>4. CASE s[i] >= 128 /\ n # 0 /\ Follow(s, i, n)
  <2>1. i + n <= Len(s)
    BY <1>1, <1>4, SMT DEF Follow
  <2>2. DecodeCharUTF8(s, i).next = i + 1 + n
    <3>1. n = Extra(s[i]) /\ ~(s[i] < 128)
      BY <1>1, <1>4, SMT
    <3> HIDE DEF n
    <3> QED
      BY <3>1, <1>4, SMT DEF DecodeCharUTF8, Decoded
  <2>3. n \in Nat \ {0} /\ Len(s) \in Nat
    BY <1>1, <1>4
  <2> HIDE DEF n
  <2> QED
    BY <2>1, <2>2, <2>3, SMT
<1>5. CASE s[i] >= 128 /\ n # 0 /\ ~Follow(s, i, n)
  <2> DEFINE Stops(k) == Follow(s, i, k) /\ ~Follow(s, i, k + 1)
             stop == CHOOSE k \in 0..n - 1 : Stops(k)
  <2>1. \E k \in 0..n - 1 : Stops(k)
    <3>1. n = 1 \/ n = 2 \/ n = 3
      BY <1>1, <1>5, SMT
    <3> HIDE DEF n
    <3> QED
      BY <3>1, <1>2, <1>5, SMT
  <2>2. stop \in 0..n - 1 /\ Follow(s, i, stop)
    BY <2>1, Zenon
  <2>3. DecodeCharUTF8(s, i).next = i + 1 + stop
    BY <1>1, <1>5, SMT DEF DecodeCharUTF8, Decoded
  <2> HIDE DEF stop, n
  <2>4. i + stop <= Len(s)
    <3>1. CASE stop = 0
      BY <3>1, SMT
    <3>2. CASE stop # 0
      BY <1>1, <2>2, <3>2, SMT DEF Follow
    <3> QED
      BY <3>1, <3>2
  <2> QED
    BY <1>1, <2>2, <2>3, <2>4, SMT
<1> QED
  BY <1>1, <1>3, <1>4, <1>5, SMT

---------------------------------------------------------------------------
(* UTF-16. *)

\* The ten bits each surrogate carries, and the bits by which the first is known.
IsPair(lead, trail, h, l) ==
  lead \div 2048 = 27 /\ h = lead % 1024 /\ trail # 0 /\ l = trail % 1024

\* The surrogates EncodeCharUTF16 writes.
LEMMA Surrogates ==
  ASSUME NEW h \in Nat, NEW l \in Nat, h < 1024, l < 1024
  PROVE  IsPair(55296 + h, 56320 + l, h, l)
  BY SMT DEF IsPair

\* Two surrogates.
LEMMA DecodePair ==
  ASSUME NEW s \in Seq(Nat), NEW i \in Nat \ {0}, NEW a, NEW b, NEW h, NEW l,
         StandsAt(<<a, b>>, s, i), IsPair(a, b, h, l)
  PROVE  DecodeCharUTF16(s, i) = Decoded(h * 1024 + l + 65536, i + 2)
<1>1. i + 1 <= Len(s) /\ s[i] = a /\ s[i + 1] = b
  BY Stands2, Zenon
<1>2. a \div 2048 = 27 /\ a % 1024 = h /\ b # 0 /\ b % 1024 = l
  BY SMT DEF IsPair
<1>3. i # Len(s)
  BY <1>1, SMT
<1> QED
  BY <1>1, <1>2, <1>3, SMT DEF DecodeCharUTF16

\* DecodeCharUTF16 reads what EncodeCharUTF16 wrote, for every code point that is no
\* surrogate and at every place of a text (markup.cpp:3269, 3294).
THEOREM UTF16RoundTrip ==
  ASSUME NEW c \in Nat, NEW s \in Seq(Nat), NEW i \in Nat \ {0},
         IsScalar(c), StandsAt(EncodeCharUTF16(c), s, i)
  PROVE  DecodeCharUTF16(s, i) = Decoded(c, i + Len(EncodeCharUTF16(c)))
<1>1. CASE c < 65536
  <2>1. EncodeCharUTF16(c) = <<c>> /\ s[i] = c
    BY <1>1, SMT DEF EncodeCharUTF16, StandsAt
  <2>2. c \div 2048 # 27
    BY <1>1, SMT DEF IsScalar
  <2> QED
    BY <2>1, <2>2, SMT DEF DecodeCharUTF16
<1>2. CASE 65536 <= c
  <2> DEFINE h == (c - 65536) \div 1024
             l == (c - 65536) % 1024
             v == h * 1024 + l + 65536
             a == 55296 + h
             b == 56320 + l
  <2>1. c < 1114112
    BY SMT DEF IsScalar, IsCode
  <2>2. h \in Nat /\ h < 1024 /\ h % 1024 = h /\ l \in Nat /\ l < 1024 /\ c = v
    BY <1>2, <2>1, SMT
  <2>3. EncodeCharUTF16(c) = <<a, b>>
    BY <1>2, <2>2, SMT DEF EncodeCharUTF16
  <2> HIDE DEF h, l
  <2>4. IsPair(a, b, h, l)
    <3>1. h \in Nat /\ h < 1024 /\ l \in Nat /\ l < 1024
      BY <2>2
    <3> HIDE DEF v
    <3> QED
      BY <3>1, Surrogates, SMT
  <2> HIDE DEF a, b
  <2>5. StandsAt(<<a, b>>, s, i) /\ Len(EncodeCharUTF16(c)) = 2
    BY <2>3
  <2>6. DecodeCharUTF16(s, i) = Decoded(v, i + 2)
    BY <2>4, <2>5, DecodePair, SMT
  <2>7. v = c
    BY <2>2
  <2> HIDE DEF v
  <2>8. DecodeCharUTF16(s, i) = Decoded(c, i + 2)
    BY <2>6, <2>7, Zenon
  <2> QED
    BY <2>5, <2>8, Zenon
<1> QED
  BY <1>1, <1>2, SMT

---------------------------------------------------------------------------
(* Saved positions. *)

SavedEntry ==
  [name : PosName \cup {""}, pos : Nat, kind : Kinds, used : BOOLEAN, last : BOOLEAN]

\* The array ends at its one mark.
Marked(t) == \A k \in 1..Len(t) : t[k].last = (k = Len(t))

\* The entries in use are in front.
InFront(t) == \A j, k \in 1..Len(t) : t[k].used /\ j <= k => t[j].used

\* A name has one entry.
Distinct(t) ==
  \A j, k \in 1..Len(t) : t[j].used /\ t[k].used /\ t[j].name = t[k].name => j = k

\* The entries in use are what is to be found.
Matched(t, w) ==
  /\ DOMAIN w \subseteq PosName
  /\ \A k \in 1..Len(t) : t[k].used =>
       /\ t[k].name \in DOMAIN w
       /\ w[t[k].name].pos = t[k].pos /\ w[t[k].name].kind = t[k].kind
  /\ \A n \in DOMAIN w : \E k \in 1..Len(t) : t[k].used /\ t[k].name = n

Sound(t, w) ==
  t \in Seq(SavedEntry) /\ Marked(t) /\ InFront(t) /\ Distinct(t) /\ Matched(t, w)
SavedInv == Sound(table, wanted)

\* Counting along the elements of a set: one more at each of them.
LEMMA CountSteps ==
  ASSUME NEW N \in Nat, NEW S \in SUBSET (1..N)
  PROVE  /\ IsFiniteSet(S) /\ Cardinality(S) \in 0..N
         /\ \A k \in Nat : CountTo(S, k) \in 0..Cardinality(S)
         /\ CountTo(S, 0) = 0 /\ CountTo(S, N) = Cardinality(S)
         /\ \A k \in Nat : CountTo(S, k + 1) = IF k + 1 \in S THEN CountTo(S, k) + 1
                                               ELSE CountTo(S, k)
         /\ \A j, k \in S : j < k => CountTo(S, j) < CountTo(S, k)
<1> DEFINE Upto(k) == {j \in S : j <= k}
<1>0. \A j \in S : j \in Int /\ 1 <= j /\ j <= N
  OBVIOUS
<1>1. IsFiniteSet(S) /\ Cardinality(S) \in Nat /\ Cardinality(S) <= N
  <2>1. IsFiniteSet(1..N) /\ Cardinality(1..N) = N
    <3>1. /\ IsFiniteSet(1..N)
          /\ Cardinality(1..N) = IF 1 > N THEN 0 ELSE N - 1 + 1
      BY FS_Interval
    <3> QED BY <3>1
  <2>2. IsFiniteSet(S) /\ Cardinality(S) <= Cardinality(1..N)
    BY <2>1, FS_Subset, Zenon
  <2> QED BY <2>1, <2>2, FS_CardinalityType
<1>2. \A k \in Nat : /\ IsFiniteSet(Upto(k)) /\ Cardinality(Upto(k)) \in Nat
                     /\ Cardinality(Upto(k)) <= Cardinality(S)
  <2> TAKE k \in Nat
  <2>1. Upto(k) \in SUBSET S
    OBVIOUS
  <2> HIDE DEF Upto
  <2> QED BY <1>1, <2>1, FS_Subset, FS_CardinalityType
<1>3. CountTo(S, 0) = 0
  <2>1. \A j \in S : ~(j <= 0)
    BY <1>0
  <2>2. {j \in S : j <= 0} = {}
    BY <2>1, Zenon
  <2> QED BY <2>2, FS_EmptySet, Zenon DEF CountTo
<1>4. CountTo(S, N) = Cardinality(S)
  <2>1. {j \in S : j <= N} = S
    BY <1>0
  <2> QED BY <2>1 DEF CountTo
<1>5. \A k \in Nat : CountTo(S, k + 1) = IF k + 1 \in S THEN CountTo(S, k) + 1
                                         ELSE CountTo(S, k)
  <2> TAKE k \in Nat
  <2>0. \A j \in S : j <= k + 1 <=> j <= k \/ j = k + 1
    BY <1>0
  <2>1. CASE k + 1 \in S
    <3>0. ~(k + 1 <= k) /\ k + 1 <= k + 1
      OBVIOUS
    <3>1. Upto(k + 1) = Upto(k) \cup {k + 1} /\ k + 1 \notin Upto(k)
      BY <2>0, <2>1, <3>0, Zenon
    <3>2. Cardinality(Upto(k + 1)) = Cardinality(Upto(k)) + 1
      <4> HIDE DEF Upto
      <4> QED BY <1>2, <3>1, FS_AddElement
    <3> QED BY <2>1, <3>2 DEF CountTo
  <2>2. CASE k + 1 \notin S
    <3>1. Upto(k + 1) = Upto(k)
      BY <2>0, <2>2, Zenon
    <3> QED BY <2>2, <3>1 DEF CountTo
  <2> QED BY <2>1, <2>2
<1>6. \A j, k \in S : j < k => CountTo(S, j) < CountTo(S, k)
  <2> SUFFICES ASSUME NEW j \in S, NEW k \in S, j < k
               PROVE  CountTo(S, j) < CountTo(S, k)
    OBVIOUS
  <2>1. j \in Nat /\ k \in Nat
    BY <1>0
  <2>2. Upto(j) \in SUBSET Upto(k) /\ k \in Upto(k) /\ k \notin Upto(j)
    <3>1. k <= k /\ ~(k <= j) /\ \A i \in S : i <= j => i <= k
      BY <1>0, <2>1
    <3> QED BY <3>1, Zenon
  <2>3. Cardinality(Upto(j)) < Cardinality(Upto(k))
    <3> HIDE DEF Upto
    <3> QED BY <1>2, <2>1, <2>2, FS_Subset
  <2> QED BY <2>3 DEF CountTo
<1>7. \A k \in Nat : CountTo(S, k) \in 0..Cardinality(S)
  BY <1>1, <1>2 DEF CountTo
<1>8. Cardinality(S) \in 0..N
  BY <1>1
<1> HIDE DEF Upto
<1> QED BY <1>1, <1>3, <1>4, <1>5, <1>6, <1>7, <1>8

\* Each count up to the number of elements is reached at one of them.
LEMMA CountReached ==
  ASSUME NEW N \in Nat, NEW S \in SUBSET (1..N), NEW k \in 1..Cardinality(S)
  PROVE  \E o \in S : CountTo(S, o) = k
<1> DEFINE T == {o \in 0..N : k <= CountTo(S, o)}
<1>0. /\ Cardinality(S) \in 0..N
      /\ \A m \in Nat : CountTo(S, m) \in Nat
      /\ CountTo(S, 0) = 0 /\ CountTo(S, N) = Cardinality(S)
      /\ \A m \in Nat : CountTo(S, m + 1) = IF m + 1 \in S THEN CountTo(S, m) + 1
                                            ELSE CountTo(S, m)
  <2>1. Cardinality(S) \in 0..N /\ \A m \in Nat : CountTo(S, m) \in 0..Cardinality(S)
    BY CountSteps
  <2> QED BY <2>1, CountSteps
<1>1. N \in T /\ 0 \notin T /\ T \in SUBSET Nat
  BY <1>0
<1>2. PICK o \in T : \A m \in T : o <= m
  <2> HIDE DEF T
  <2> QED BY <1>1, Least
<1>3. o \in 1..N /\ k <= CountTo(S, o) /\ o - 1 \in 0..N /\ o - 1 \notin T
  <2>1. o \in 0..N /\ o # 0 /\ k <= CountTo(S, o)
    BY <1>1
  <2>2. ~(o <= o - 1)
    BY <2>1
  <2> QED BY <1>2, <2>1, <2>2
<1>4. CountTo(S, o - 1) < k
  BY <1>0, <1>3
<1>5. CountTo(S, o) = IF o \in S THEN CountTo(S, o - 1) + 1 ELSE CountTo(S, o - 1)
  <2>1. o - 1 \in Nat /\ (o - 1) + 1 = o
    BY <1>3
  <2> QED BY <1>0, <2>1
<1>6. CountTo(S, o - 1) \in Nat
  BY <1>0, <1>3
<1>7. o \in S /\ CountTo(S, o) = k
  BY <1>3, <1>4, <1>5, <1>6
<1> QED BY <1>7

\* Where the entry at a place of the array comes from when the others are taken out.
Origin(S, k) == CHOOSE o \in S : CountTo(S, o) = k

\* An entry goes where as many entries are kept as up to it, and comes from there.
LEMMA Origins ==
  ASSUME NEW N \in Nat, NEW S \in SUBSET (1..N)
  PROVE  /\ Cardinality(S) \in 0..N
         /\ \A k \in 1..Cardinality(S) : Origin(S, k) \in S /\ CountTo(S, Origin(S, k)) = k
         /\ \A o \in S : /\ CountTo(S, o) \in 1..Cardinality(S)
                         /\ Origin(S, CountTo(S, o)) = o
<1>0. /\ Cardinality(S) \in 0..N
      /\ \A m \in Nat : CountTo(S, m) \in 0..Cardinality(S)
      /\ \A m \in Nat : CountTo(S, m + 1) = IF m + 1 \in S THEN CountTo(S, m) + 1
                                            ELSE CountTo(S, m)
      /\ \A j, m \in S : j < m => CountTo(S, j) < CountTo(S, m)
  BY CountSteps
<1>1. \A k \in 1..Cardinality(S) : Origin(S, k) \in S /\ CountTo(S, Origin(S, k)) = k
  BY CountReached DEF Origin
<1>2. ASSUME NEW o \in S
      PROVE  CountTo(S, o) \in 1..Cardinality(S) /\ Origin(S, CountTo(S, o)) = o
  <2>1. o \in Nat /\ o - 1 \in Nat /\ (o - 1) + 1 = o
    OBVIOUS
  <2>2. CountTo(S, o) = CountTo(S, o - 1) + 1
    BY <1>0, <2>1
  <2>3. CountTo(S, o) \in 1..Cardinality(S)
    BY <1>0, <2>1, <2>2
  <2> DEFINE p == Origin(S, CountTo(S, o))
  <2>4. p \in S /\ CountTo(S, p) = CountTo(S, o)
    BY <1>1, <2>3
  <2>5. p = o
    <3> HIDE DEF p
    <3>1. p \in Nat
      BY <2>4
    <3>2. CountTo(S, p) \in Nat /\ CountTo(S, o) \in Nat
      BY <1>0, <2>1, <3>1
    <3>3. ~(p < o) /\ ~(o < p)
      BY <1>0, <2>4, <3>2
    <3> QED BY <2>1, <3>1, <3>3
  <2> QED BY <2>3, <2>5
<1> QED BY <1>0, <1>1, <1>2

\* Taking out the entries of elements that are gone.
LEMMA CompactedSound ==
  ASSUME NEW gone, SavedInv, CheckSavedPos(gone)
  PROVE  SavedInv'
<1> DEFINE S == Staying(table, gone)
           N == Len(table)
           u == Compacted(table, gone)
           w == StillWanted(gone)
<1>0. table \in Seq(SavedEntry) /\ N \in Nat /\ DOMAIN table = 1..N
  BY LenProperties DEF SavedInv, Sound
<1>1. S \in SUBSET (1..N) /\ \A k \in 1..N : k \in S <=> table[k].used /\ table[k].pos \notin gone
  BY <1>0 DEF Staying
<1>2. \A k \in 1..N : table[k] \in SavedEntry
  BY <1>0, ElementOfSeq
<1> HIDE DEF S
<1>3. /\ Cardinality(S) \in 0..N
      /\ \A k \in 1..Cardinality(S) : Origin(S, k) \in S /\ CountTo(S, Origin(S, k)) = k
      /\ \A o \in S : CountTo(S, o) \in 1..Cardinality(S) /\ Origin(S, CountTo(S, o)) = o
  BY <1>0, <1>1, Origins
<1>4. u = [k \in 1..N |-> IF k \in 1..Cardinality(S)
                           THEN [table[Origin(S, k)] EXCEPT !.last = table[k].last]
                           ELSE Freed(table[k])]
  BY <1>0, Zenon DEF Compacted, Origin, S
<1> HIDE DEF u
<1>5. ASSUME NEW k \in 1..Cardinality(S)
      PROVE  /\ k \in 1..N /\ Origin(S, k) \in 1..N
             /\ u[k] \in SavedEntry /\ u[k].used /\ u[k].last = table[k].last
             /\ u[k].name = table[Origin(S, k)].name /\ u[k].pos = table[Origin(S, k)].pos
             /\ u[k].kind = table[Origin(S, k)].kind
  <2> DEFINE o == Origin(S, k)
  <2>0. o \in S
    BY <1>3, Zenon
  <2>1. k \in 1..N /\ o \in 1..N /\ table[o].used
    <3>1. k \in 1..N
      BY <1>3
    <3>2. o \in 1..N /\ table[o].used
      BY <1>1, <2>0, Zenon
    <3> QED BY <3>1, <3>2
  <2>2. u[k] = [table[o] EXCEPT !.last = table[k].last]
    BY <1>4, <2>1, Zenon
  <2> HIDE DEF o
  <2>3. table[o] \in SavedEntry /\ table[k] \in SavedEntry
    BY <1>2, <2>1
  <2>4. /\ u[k] \in SavedEntry /\ u[k].used = table[o].used /\ u[k].last = table[k].last
        /\ u[k].name = table[o].name /\ u[k].pos = table[o].pos /\ u[k].kind = table[o].kind
    BY <2>2, <2>3 DEF SavedEntry
  <2> QED BY <2>1, <2>4 DEF o
<1>6. ASSUME NEW k \in 1..N, k \notin 1..Cardinality(S)
      PROVE  u[k] \in SavedEntry /\ ~u[k].used /\ u[k].last = table[k].last
  <2>1. u[k] = [table[k] EXCEPT !.used = FALSE]
    BY <1>4, <1>6, Zenon DEF Freed
  <2>2. table[k] \in SavedEntry
    BY <1>2
  <2> QED BY <2>1, <2>2 DEF SavedEntry
<1>7. u \in Seq(SavedEntry) /\ Len(u) = N
  <2>1. \A k \in 1..N : u[k] \in SavedEntry
    BY <1>5, <1>6
  <2>2. u = [k \in 1..N |-> u[k]]
    BY <1>4, Zenon
  <2> QED BY <1>0, <2>1, <2>2
<1>8. Marked(u)
  BY <1>5, <1>6, <1>7 DEF SavedInv, Sound, Marked
<1>9. InFront(u)
  <2> SUFFICES ASSUME NEW j \in 1..N, NEW k \in 1..N, u[k].used, j <= k
               PROVE  u[j].used
    BY <1>7 DEF InFront
  <2>1. k \in 1..Cardinality(S)
    BY <1>6
  <2>2. j \in 1..Cardinality(S)
    BY <1>3, <2>1
  <2> QED BY <1>5, <2>2
<1>10. Distinct(u)
  <2> SUFFICES ASSUME NEW j \in 1..N, NEW k \in 1..N, u[j].used, u[k].used,
                      u[j].name = u[k].name
               PROVE  j = k
    BY <1>7 DEF Distinct
  <2>1. j \in 1..Cardinality(S) /\ k \in 1..Cardinality(S)
    BY <1>6
  <2>2. /\ Origin(S, j) \in 1..N /\ Origin(S, k) \in 1..N
        /\ table[Origin(S, j)].name = table[Origin(S, k)].name
    BY <1>5, <2>1
  <2>3. table[Origin(S, j)].used /\ table[Origin(S, k)].used
    BY <1>1, <1>3, <2>1
  <2>4. Origin(S, j) = Origin(S, k)
    BY <2>2, <2>3, Zenon DEF SavedInv, Sound, Distinct
  <2> QED BY <1>3, <2>1, <2>4, Zenon
<1>11. /\ DOMAIN w = {n \in DOMAIN wanted : wanted[n].pos \notin gone}
       /\ \A n \in DOMAIN w : w[n] = wanted[n]
  BY DEF StillWanted
<1> HIDE DEF w
<1>12. Matched(u, w)
  <2>1. DOMAIN w \subseteq PosName
    BY <1>11, Zenon DEF SavedInv, Sound, Matched
  <2>2. ASSUME NEW k \in 1..N, u[k].used
        PROVE  /\ u[k].name \in DOMAIN w
               /\ w[u[k].name].pos = u[k].pos /\ w[u[k].name].kind = u[k].kind
    <3> DEFINE o == Origin(S, k)
    <3>1. k \in 1..Cardinality(S)
      BY <1>6, <2>2
    <3>2. /\ o \in 1..N /\ table[o].used /\ table[o].pos \notin gone
          /\ u[k].name = table[o].name /\ u[k].pos = table[o].pos /\ u[k].kind = table[o].kind
      BY <1>1, <1>3, <1>5, <3>1
    <3> HIDE DEF o
    <3>3. /\ table[o].name \in DOMAIN wanted
          /\ wanted[table[o].name].pos = table[o].pos /\ wanted[table[o].name].kind = table[o].kind
      BY <3>2, Zenon DEF SavedInv, Sound, Matched
    <3> QED BY <1>11, <3>2, <3>3
  <2>3. ASSUME NEW n \in DOMAIN w
        PROVE  \E k \in 1..N : u[k].used /\ u[k].name = n
    <3>1. n \in DOMAIN wanted /\ wanted[n].pos \notin gone
      BY <1>11
    <3>2. PICK o \in 1..N : table[o].used /\ table[o].name = n
      BY <3>1, Zenon DEF SavedInv, Sound, Matched
    <3>3. table[o].pos = wanted[n].pos
      BY <3>2, Zenon DEF SavedInv, Sound, Matched
    <3>4. o \in S
      BY <1>1, <3>1, <3>2, <3>3
    <3>5. CountTo(S, o) \in 1..Cardinality(S) /\ Origin(S, CountTo(S, o)) = o
      BY <1>3, <3>4
    <3>6. CountTo(S, o) \in 1..N /\ u[CountTo(S, o)].used /\ u[CountTo(S, o)].name = n
      BY <1>5, <3>2, <3>5
    <3> QED BY <3>6
  <2> QED BY <1>7, <2>1, <2>2, <2>3 DEF Matched
<1>13. table' = u /\ wanted' = w
  BY DEF CheckSavedPos, u, w
<1>14. Sound(u, w)
  BY <1>7, <1>8, <1>9, <1>10, <1>12 DEF Sound
<1> QED BY <1>13, <1>14 DEF SavedInv

\* The places in front of one are other places.
LEMMA Between == \A N \in Nat : \A i \in 1..N : \A j \in 1..i - 1 : j \in 1..N /\ j # N
  OBVIOUS

\* The place for a name: the first that is free or has the name already.
LEMMA SlotFound ==
  ASSUME NEW t, NEW w, NEW n \in PosName, Sound(t, w), SlotFor(t, n) # 0
  PROVE  /\ SlotFor(t, n) \in 1..Len(t)
         /\ t[SlotFor(t, n)].used => t[SlotFor(t, n)].name = n
         /\ \A j \in 1..Len(t) : j < SlotFor(t, n) => t[j].used /\ t[j].name # n
<1> DEFINE fit == {k \in DOMAIN t : Reached(t, k) /\ (~t[k].used \/ t[k].name = n)}
           k == CHOOSE i \in fit : \A j \in fit : i <= j
<1>0. t \in Seq(SavedEntry) /\ Len(t) \in Nat /\ DOMAIN t = 1..Len(t)
  BY LenProperties DEF Sound
<1>1. \A i \in 1..Len(t) : Reached(t, i)
  <2> SUFFICES ASSUME NEW i \in 1..Len(t), NEW j \in 1..i - 1
               PROVE  ~t[j].last
    BY Zenon DEF Reached
  <2>1. j \in 1..Len(t) /\ j # Len(t)
    BY <1>0, Between
  <2> QED BY <2>1, Zenon DEF Sound, Marked
<1>2. \A i \in 1..Len(t) : i \in fit <=> ~t[i].used \/ t[i].name = n
  BY <1>0, <1>1, Zenon
<1>3. fit \in SUBSET Nat /\ fit \subseteq 1..Len(t)
  BY <1>0
<1>4. SlotFor(t, n) = IF fit = {} THEN 0 ELSE k
  BY Zenon DEF SlotFor
<1> HIDE DEF fit
<1>5. \E i \in fit : \A j \in fit : i <= j
  BY <1>3, <1>4, Least
<1>6. k \in fit /\ \A j \in fit : k <= j
  BY <1>5
<1>7. SlotFor(t, n) = k
  BY <1>4, Zenon
<1> HIDE DEF k
<1>8. \A j \in 1..Len(t) : j < k => j \notin fit
  BY <1>3, <1>6
<1> QED BY <1>2, <1>3, <1>6, <1>7, <1>8

\* A new entry is free, whether it is the last of its array or not.
LEMMA NewEntry ==
  \A b \in BOOLEAN : LET x == [SavedPos EXCEPT !.last = b]
                     IN x \in SavedEntry /\ ~x.used /\ x.last = b
  BY DEF SavedPos, SavedEntry, Kinds

\* An array without a place for a name is copied into one that has it.
LEMMA RoomSound ==
  ASSUME NEW t, NEW w, NEW n \in PosName, Sound(t, w), SlotFor(t, n) = 0
  PROVE  Sound(Room(t), w) /\ SlotFor(Room(t), n) # 0
<1> DEFINE N == Len(t)
           M == IF N = 0 THEN 2 ELSE 2 * (N + 5)
           u == Room(t)
<1>0. t \in Seq(SavedEntry) /\ N \in Nat /\ DOMAIN t = 1..N /\ (t = <<>> <=> N = 0)
  BY LenProperties, EmptySeq DEF Sound
<1>1. \A k \in 1..N : t[k] \in SavedEntry
  BY <1>0, ElementOfSeq
<1>2. M \in Nat /\ N < M /\ 1..N \subseteq 1..M /\ N + 1 \in 1..M
  BY <1>0
<1>3. u = [k \in 1..M |-> IF k \in 1..N THEN [t[k] EXCEPT !.last = FALSE]
                           ELSE [SavedPos EXCEPT !.last = (k = M)]]
  <2>1. CASE N = 0
    <3>1. \A k \in 1..2 : k \notin 1..N
      BY <2>1
    <3>2. M = 2
      BY <2>1
    <3>3. u = [k \in 1..2 |-> [SavedPos EXCEPT !.last = (k = 2)]]
      BY <1>0, <2>1, Zenon DEF Room, NewTable
    <3> HIDE DEF M, u
    <3>4. u = [k \in 1..M |-> [SavedPos EXCEPT !.last = (k = M)]]
      BY <3>2, <3>3
    <3> QED BY <3>1, <3>2, <3>4, Zenon
  <2>2. CASE N # 0
    <3>1. \A k \in 1..M : k <= N <=> k \in 1..N
      BY <1>2
    <3>2. M = 2 * (N + 5) /\ t # <<>>
      BY <1>0, <2>2
    <3>3. u = [k \in 1..2 * (N + 5) |-> IF k <= N THEN [t[k] EXCEPT !.last = FALSE]
                                         ELSE NewTable(2 * (N + 5))[k]]
      BY <3>2, Zenon DEF Room
    <3> HIDE DEF M, u
    <3>4. u = [k \in 1..M |-> IF k <= N THEN [t[k] EXCEPT !.last = FALSE] ELSE NewTable(M)[k]]
      BY <3>2, <3>3
    <3>5. \A k \in 1..M : NewTable(M)[k] = [SavedPos EXCEPT !.last = (k = M)]
      BY Zenon DEF NewTable
    <3> QED BY <3>1, <3>4, <3>5, Zenon
  <2> QED BY <2>1, <2>2
<1> HIDE DEF u, M
<1>4. ASSUME NEW k \in 1..N
      PROVE  /\ u[k] \in SavedEntry /\ u[k].used = t[k].used /\ ~u[k].last
             /\ u[k].name = t[k].name /\ u[k].pos = t[k].pos /\ u[k].kind = t[k].kind
  <2>1. u[k] = [t[k] EXCEPT !.last = FALSE]
    BY <1>2, <1>3, Zenon
  <2>2. t[k] \in SavedEntry
    BY <1>1
  <2> QED BY <2>1, <2>2 DEF SavedEntry
<1>5. ASSUME NEW k \in 1..M, k \notin 1..N
      PROVE  u[k] \in SavedEntry /\ ~u[k].used /\ u[k].last = (k = M)
  <2>1. u[k] = [SavedPos EXCEPT !.last = (k = M)]
    BY <1>3, <1>5, Zenon
  <2>2. (k = M) \in BOOLEAN
    OBVIOUS
  <2> QED BY <2>1, <2>2, NewEntry, Zenon
<1>6. u \in Seq(SavedEntry) /\ Len(u) = M
  <2>1. \A k \in 1..M : u[k] \in SavedEntry
    BY <1>4, <1>5
  <2>2. u = [k \in 1..M |-> u[k]]
    BY <1>3, Zenon
  <2> QED BY <1>2, <2>1, <2>2
<1>7. Marked(u)
  <2> SUFFICES ASSUME NEW k \in 1..M PROVE u[k].last = (k = M)
    BY <1>6 DEF Marked
  <2>1. CASE k \in 1..N
    <3>1. k # M /\ u[k] \in SavedEntry /\ ~u[k].last
      BY <1>2, <1>4, <2>1
    <3> QED BY <3>1, Zenon DEF SavedEntry
  <2>2. CASE k \notin 1..N
    BY <1>5, <2>2
  <2> QED BY <2>1, <2>2
<1>8. InFront(u)
  <2> SUFFICES ASSUME NEW j \in 1..M, NEW k \in 1..M, u[k].used, j <= k
               PROVE  u[j].used
    BY <1>6 DEF InFront
  <2>1. k \in 1..N
    BY <1>5
  <2>2. j \in 1..N
    BY <1>0, <2>1
  <2>3. t[j].used
    BY <1>4, <2>1, <2>2 DEF Sound, InFront
  <2> QED BY <1>4, <2>2, <2>3
<1>9. Distinct(u)
  <2> SUFFICES ASSUME NEW j \in 1..M, NEW k \in 1..M, u[j].used, u[k].used,
                      u[j].name = u[k].name
               PROVE  j = k
    BY <1>6 DEF Distinct
  <2>1. j \in 1..N /\ k \in 1..N
    BY <1>5
  <2>2. t[j].used /\ t[k].used /\ t[j].name = t[k].name
    BY <1>4, <2>1
  <2> QED BY <2>1, <2>2, Zenon DEF Sound, Distinct
<1>10. Matched(u, w)
  <2>1. DOMAIN w \subseteq PosName
    BY DEF Sound, Matched
  <2>2. ASSUME NEW k \in 1..M, u[k].used
        PROVE  /\ u[k].name \in DOMAIN w
               /\ w[u[k].name].pos = u[k].pos /\ w[u[k].name].kind = u[k].kind
    <3>1. k \in 1..N
      BY <1>5, <2>2
    <3>2. t[k].used /\ u[k].name = t[k].name /\ u[k].pos = t[k].pos /\ u[k].kind = t[k].kind
      BY <1>4, <2>2, <3>1
    <3> QED BY <3>1, <3>2, Zenon DEF Sound, Matched
  <2>3. ASSUME NEW m \in DOMAIN w
        PROVE  \E k \in 1..M : u[k].used /\ u[k].name = m
    <3>1. PICK k \in 1..N : t[k].used /\ t[k].name = m
      BY Zenon DEF Sound, Matched
    <3>2. k \in 1..M /\ u[k].used /\ u[k].name = m
      BY <1>2, <1>4, <3>1
    <3> QED BY <3>2
  <2> QED BY <1>6, <2>1, <2>2, <2>3 DEF Matched
<1>11. SlotFor(u, n) # 0
  <2> DEFINE fit == {k \in DOMAIN u : Reached(u, k) /\ (~u[k].used \/ u[k].name = n)}
  <2>1. DOMAIN u = 1..M
    BY <1>3, Zenon
  <2>2. N + 1 \in 1..M /\ N + 1 \notin 1..N
    BY <1>0, <1>2
  <2>3. ~u[N + 1].used
    BY <1>5, <2>2
  <2>4. Reached(u, N + 1)
    <3>1. \A j \in 1..(N + 1) - 1 : j \in 1..N
      BY <1>0
    <3> QED BY <1>4, <3>1, Zenon DEF Reached
  <2>5. N + 1 \in fit
    BY <2>1, <2>2, <2>3, <2>4, Zenon
  <2>6. SlotFor(u, n) = CHOOSE k \in fit : \A j \in fit : k <= j
    BY <2>5, Zenon DEF SlotFor
  <2>7. fit \in SUBSET Nat /\ 0 \notin fit
    BY <1>2, <2>1
  <2> HIDE DEF fit
  <2>8. \E k \in fit : \A j \in fit : k <= j
    BY <2>5, <2>7, Least
  <2>9. SlotFor(u, n) \in fit
    BY <2>6, <2>8, Zenon
  <2> QED BY <2>7, <2>9
<1> QED BY <1>6, <1>7, <1>8, <1>9, <1>10, <1>11 DEF Sound, u

\* Storing a position under a name.
LEMMA SavedSound ==
  ASSUME NEW n \in PosName, NEW pos \in Nat, NEW kind \in Kinds, SavedInv,
         Saved(n, pos, kind)
  PROVE  SavedInv'
<1> DEFINE t == IF SlotFor(table, n) = 0 THEN Room(table) ELSE table
           i == SlotFor(t, n)
           r == [pos |-> pos, kind |-> kind]
           new == [name |-> n, pos |-> pos, kind |-> kind, used |-> TRUE, last |-> t[i].last]
           u == [t EXCEPT ![i] = new]
           w == [m \in DOMAIN wanted \cup {n} |-> IF m = n THEN r ELSE wanted[m]]
           N == Len(t)
<1>1. table' = u /\ wanted' = w
  BY Zenon DEF Saved
<1>2. Sound(t, wanted) /\ i # 0
  BY RoomSound DEF SavedInv
<1>3. /\ DOMAIN w = DOMAIN wanted \cup {n} /\ w[n] = r
      /\ \A m \in DOMAIN wanted : m # n => w[m] = wanted[m]
  BY Zenon
<1> HIDE DEF t, w
<1>4. /\ i \in 1..N /\ (t[i].used => t[i].name = n)
      /\ \A j \in 1..N : j < i => t[j].used /\ t[j].name # n
  BY <1>2, SlotFound
<1> HIDE DEF i
<1>5. t \in Seq(SavedEntry) /\ N \in Nat /\ DOMAIN t = 1..N /\ t[i] \in SavedEntry
  BY <1>2, <1>4, LenProperties, ElementOfSeq DEF Sound
<1>6. new \in SavedEntry
  BY <1>5 DEF SavedEntry
<1>7. /\ u \in Seq(SavedEntry) /\ Len(u) = N /\ u[i] = new
      /\ \A j \in 1..N : j # i => u[j] = t[j]
  <2> HIDE DEF new
  <2> QED BY <1>4, <1>5, <1>6
<1> HIDE DEF u
<1>8. /\ u[i].used /\ u[i].name = n /\ u[i].last = t[i].last
      /\ u[i].pos = pos /\ u[i].kind = kind
  BY <1>7
<1>9. \A j \in 1..N : t[j].used /\ t[j].name = n => j = i
  <2> SUFFICES ASSUME NEW j \in 1..N, t[j].used, t[j].name = n PROVE j = i
    OBVIOUS
  <2>1. ~(j < i)
    BY <1>4
  <2>2. CASE i <= j
    <3>1. t[i].used
      BY <1>2, <1>4, <2>2 DEF Sound, InFront
    <3>2. t[i].name = n
      BY <1>4, <3>1
    <3> QED BY <1>2, <1>4, <3>1, <3>2, Zenon DEF Sound, Distinct
  <2> QED BY <1>4, <2>1, <2>2
<1> HIDE DEF new
<1>10. Marked(u)
  <2> SUFFICES ASSUME NEW k \in 1..N PROVE u[k].last = (k = N)
    BY <1>7 DEF Marked
  <2>1. t[k].last = (k = N)
    BY <1>2, Zenon DEF Sound, Marked
  <2>2. u[k].last = t[k].last
    BY <1>7, <1>8, Zenon
  <2> QED BY <2>1, <2>2, Zenon
<1>11. InFront(u)
  <2> SUFFICES ASSUME NEW j \in 1..N, NEW k \in 1..N, u[k].used, j <= k
               PROVE  u[j].used
    BY <1>7 DEF InFront
  <2>1. CASE j = i
    BY <1>8, <2>1
  <2>2. CASE j # i /\ k = i
    <3>1. j < i
      BY <1>4, <2>2
    <3> QED BY <1>4, <1>7, <2>2, <3>1
  <2>3. CASE j # i /\ k # i
    BY <1>2, <1>7, <2>3 DEF Sound, InFront
  <2> QED BY <2>1, <2>2, <2>3
<1>12. Distinct(u)
  <2> SUFFICES ASSUME NEW j \in 1..N, NEW k \in 1..N, u[j].used, u[k].used,
                      u[j].name = u[k].name
               PROVE  j = k
    BY <1>7 DEF Distinct
  <2>1. CASE j = i \/ k = i
    BY <1>7, <1>8, <1>9, <2>1, Zenon
  <2>2. CASE j # i /\ k # i
    BY <1>2, <1>7, <2>2, Zenon DEF Sound, Distinct
  <2> QED BY <2>1, <2>2
<1>13. Matched(u, w)
  <2>1. DOMAIN w \subseteq PosName
    BY <1>2, <1>3 DEF Sound, Matched
  <2>2. ASSUME NEW k \in 1..N, u[k].used
        PROVE  /\ u[k].name \in DOMAIN w
               /\ w[u[k].name].pos = u[k].pos /\ w[u[k].name].kind = u[k].kind
    <3>1. CASE k = i
      BY <1>3, <1>8, <3>1
    <3>2. CASE k # i
      <4>1. u[k] = t[k]
        BY <1>7, <3>2
      <4>2. t[k].used /\ t[k].name # n
        BY <1>9, <2>2, <3>2, <4>1
      <4>3. /\ t[k].name \in DOMAIN wanted
            /\ wanted[t[k].name].pos = t[k].pos /\ wanted[t[k].name].kind = t[k].kind
        BY <1>2, <4>2, Zenon DEF Sound, Matched
      <4> QED BY <1>3, <4>1, <4>2, <4>3
    <3> QED BY <3>1, <3>2
  <2>3. ASSUME NEW m \in DOMAIN w
        PROVE  \E k \in 1..N : u[k].used /\ u[k].name = m
    <3>1. CASE m = n
      BY <1>4, <1>8, <3>1
    <3>2. CASE m # n
      <4>1. m \in DOMAIN wanted
        BY <1>3, <3>2
      <4>2. PICK k \in 1..N : t[k].used /\ t[k].name = m
        BY <1>2, <4>1, Zenon DEF Sound, Matched
      <4>3. k # i
        BY <1>4, <3>2, <4>2
      <4> QED BY <1>7, <4>2, <4>3
    <3> QED BY <3>1, <3>2
  <2> QED BY <1>7, <2>1, <2>2, <2>3 DEF Matched
<1>14. Sound(u, w)
  BY <1>7, <1>10, <1>11, <1>12, <1>13 DEF Sound
<1> QED BY <1>1, <1>14 DEF SavedInv

\* An array without an entry is sound.
LEMMA EmptySound == Sound(<<>>, <<>>)
<1>1. <<>> \in Seq(SavedEntry) /\ Len(<<>>) = 0 /\ 1..0 = {} /\ DOMAIN <<>> = {}
  OBVIOUS
<1> QED BY <1>1, Zenon DEF Sound, Marked, InFront, Distinct, Matched

\* What the invariant says of a lookup.
LEMMA SoundAgrees ==
  ASSUME SavedInv
  PROVE  SavedAgree
<1> DEFINE N == Len(table)
<1>0. table \in Seq(SavedEntry) /\ N \in Nat /\ DOMAIN table = 1..N
  BY LenProperties DEF SavedInv, Sound
<1>1. \A k \in DOMAIN table : table[k].last = (k = Len(table))
  BY <1>0, Zenon DEF SavedInv, Sound, Marked
<1>2. \A i \in 1..N : Reached(table, i)
  <2> SUFFICES ASSUME NEW i \in 1..N, NEW j \in 1..i - 1
               PROVE  ~table[j].last
    BY Zenon DEF Reached
  <2>1. j \in 1..N /\ j # N
    BY <1>0, Between
  <2> QED BY <2>1, Zenon DEF SavedInv, Sound, Marked
<1>3. ASSUME NEW n \in PosName
      PROVE  LET k == Lookup(table, n)
             IN IF n \in DOMAIN wanted
                  THEN k # 0 /\ table[k].pos = wanted[n].pos /\ table[k].kind = wanted[n].kind
                  ELSE k = 0
  <2> DEFINE fit == {k \in DOMAIN table : /\ table[k].name = n /\ Reached(table, k)
                                          /\ \A j \in 1..k : table[j].used}
  <2>1. Lookup(table, n) = IF fit = {} THEN 0 ELSE CHOOSE k \in fit : TRUE
    BY Zenon DEF Lookup
  <2>2. ASSUME NEW k \in fit
        PROVE  k \in 1..N /\ k # 0 /\ table[k].used /\ table[k].name = n
    <3>1. k \in 1..N /\ table[k].name = n /\ \A j \in 1..k : table[j].used
      BY <1>0, Zenon
    <3>2. k # 0 /\ k \in 1..k
      BY <3>1
    <3> QED BY <3>1, <3>2
  <2>3. CASE n \in DOMAIN wanted
    <3>1. PICK k \in 1..N : table[k].used /\ table[k].name = n
      BY <2>3, Zenon DEF SavedInv, Sound, Matched
    <3>2. \A j \in 1..k : table[j].used
      <4> TAKE j \in 1..k
      <4>1. j \in 1..N /\ j <= k
        BY <1>0
      <4> QED BY <3>1, <4>1, Zenon DEF SavedInv, Sound, InFront
    <3>3. k \in fit
      BY <1>0, <1>2, <3>1, <3>2, Zenon
    <3> HIDE DEF fit
    <3>4. Lookup(table, n) \in fit
      BY <2>1, <3>3, Zenon
    <3> DEFINE l == Lookup(table, n)
    <3>5. l \in 1..N /\ l # 0 /\ table[l].used /\ table[l].name = n
      BY <2>2, <3>4, Zenon
    <3>6. table[l].pos = wanted[n].pos /\ table[l].kind = wanted[n].kind
      <4>1. \A o \in 1..N : table[o].used =>
              /\ wanted[table[o].name].pos = table[o].pos
              /\ wanted[table[o].name].kind = table[o].kind
        BY Zenon DEF SavedInv, Sound, Matched
      <4> HIDE DEF l, N
      <4> QED BY <3>5, <4>1, Zenon
    <3> QED BY <2>3, <3>5, <3>6, Zenon
  <2>4. CASE n \notin DOMAIN wanted
    <3> HIDE DEF fit
    <3>1. ASSUME NEW k \in fit PROVE FALSE
      <4>1. k \in 1..N /\ table[k].used /\ table[k].name = n
        BY <2>2, Zenon
      <4> QED BY <2>4, <4>1, Zenon DEF SavedInv, Sound, Matched
    <3>2. Lookup(table, n) = 0
      BY <2>1, <3>1, Zenon
    <3> QED BY <2>4, <3>2, Zenon
  <2> QED BY <2>3, <2>4
<1> QED BY <1>1, <1>3, Zenon DEF SavedAgree

\* RestorePos finds what SavePos last stored under a name as long as its element is in
\* the document, and nothing afterwards; the array keeps its mark at its end, whatever
\* names are saved, for any positions, and whichever elements are removed
\* (SavePos, RestorePos, x_CheckSavedPos).
THEOREM SavedAlways == SavedSpec => []SavedAgree
<1>1. SavedInit => SavedInv
  BY EmptySound DEF SavedInit, SavedInv
<1>2. SavedInv /\ [SavedNext]_savedVars => SavedInv'
  <2> SUFFICES ASSUME SavedInv, [SavedNext]_savedVars PROVE SavedInv'
    OBVIOUS
  <2>1. CASE \E n \in PosName, pos \in Nat, kind \in Kinds : Saved(n, pos, kind)
    BY <2>1, SavedSound
  <2>2. CASE \E gone \in SUBSET Nat : CheckSavedPos(gone)
    BY <2>2, CompactedSound
  <2>3. CASE ReleaseMaps
    BY <2>3, EmptySound DEF ReleaseMaps, SavedInv
  <2>4. CASE UNCHANGED savedVars
    BY <2>4 DEF savedVars, SavedInv
  <2> QED BY <2>1, <2>2, <2>3, <2>4 DEF SavedNext
<1>3. SavedInv => SavedAgree
  BY SoundAgrees
<1> QED BY <1>1, <1>2, <1>3, PTL DEF SavedSpec

---------------------------------------------------------------------------
(* Induction along a text, and functions defined along one. *)

\* What holds at 0, and after k when it holds at k, holds everywhere.
LEMMA Upward ==
  ASSUME NEW n \in Nat, NEW T, 0 \in T, \A k \in 0..n - 1 : k \in T => k + 1 \in T
  PROVE  \A k \in 0..n : k \in T
<1> DEFINE B == {k \in 0..n : k \notin T}
<1>1. CASE B = {}
  BY <1>1
<1>2. CASE B # {}
  <2>1. B \in SUBSET Nat
    OBVIOUS
  <2>2. PICK x \in B : \A y \in B : x <= y
    <3> HIDE DEF B
    <3> QED BY <1>2, <2>1, Least, Zenon
  <2>3. x \in 0..n /\ x \notin T /\ x # 0
    BY <2>2
  <2>4. x - 1 \in 0..n - 1 /\ x - 1 \in 0..n /\ (x - 1) + 1 = x
    BY <2>3
  <2>5. x - 1 \in T
    <3>1. ~(x <= x - 1)
      BY <2>3
    <3> QED BY <2>2, <2>4, <3>1
  <2> QED BY <2>3, <2>4, <2>5
<1> QED BY <1>1, <1>2

\* What holds at a place when it holds at all later ones holds everywhere.
LEMMA Downward ==
  ASSUME NEW n \in Nat, NEW T, \A i \in 1..n : (\A j \in i + 1..n : j \in T) => i \in T
  PROVE  \A i \in 1..n : i \in T
<1> DEFINE U == {m \in 0..n : \A j \in n - m + 1..n : j \in T}
<1>1. 0 \in U
  OBVIOUS
<1>2. ASSUME NEW m \in 0..n - 1, m \in U PROVE m + 1 \in U
  <2>1. n - m \in 1..n /\ \A j \in (n - m) + 1..n : j \in T
    BY <1>2
  <2>2. n - m \in T
    BY <2>1
  <2>3. \A j \in n - (m + 1) + 1..n : j = n - m \/ j \in n - m + 1..n
    BY <1>2
  <2> QED BY <1>2, <2>2, <2>3
<1> HIDE DEF U
<1>3. \A m \in 0..n : m \in U
  BY <1>1, <1>2, Upward
<1>4. n \in U
  BY <1>3
<1> QED BY <1>4 DEF U

\* Two texts of the same characters, joined.
LEMMA Joined ==
  ASSUME NEW S, NEW a \in Seq(S), NEW b \in Seq(S)
  PROVE  a \o b \in Seq(S)
BY ConcatProperties, Zenon

\* A function that is defined at each place by its value at the one before.
Chained(u, n, b, F) ==
  u = [k \in 0..n |-> u[k]] /\ u[0] = b /\ \A k \in 1..n : u[k] = F[k][u[k - 1]]

\* There is such a function.
LEMMA Forward ==
  ASSUME NEW n \in Nat, NEW b, NEW F
  PROVE  \E u : Chained(u, n, b, F)
<1> DEFINE Up(u, m) == /\ DOMAIN u = 0..m /\ u[0] = b
                       /\ \A k \in 1..m : u[k] = F[k][u[k - 1]]
           T == {m \in 0..n : \E u : Up(u, m)}
<1>1. 0 \in T
  <2>1. Up([k \in 0..0 |-> b], 0)
    <3>1. 0 \in 0..0 /\ \A k \in 1..0 : FALSE
      OBVIOUS
    <3> QED BY <3>1, Zenon
  <2>2. 0 \in 0..n
    OBVIOUS
  <2> QED BY <2>1, <2>2, Zenon
<1>2. ASSUME NEW m \in 0..n - 1, m \in T PROVE m + 1 \in T
  <2>1. PICK u : Up(u, m)
    BY <1>2
  <2> DEFINE v == [k \in 0..m + 1 |-> IF k = m + 1 THEN F[k][u[m]] ELSE u[k]]
  <2>2. v[0] = b
    BY <2>1
  <2>3. ASSUME NEW k \in 1..m + 1 PROVE v[k] = F[k][v[k - 1]]
    <3>1. CASE k = m + 1
      <4>1. v[m] = u[m] /\ k - 1 = m /\ v[k] = F[k][u[m]]
        BY <3>1
      <4> HIDE DEF v
      <4> QED BY <4>1, Zenon
    <3>2. CASE k # m + 1
      <4>1. k \in 1..m
        BY <3>2
      <4>2. v[k] = u[k] /\ v[k - 1] = u[k - 1]
        BY <4>1
      <4>3. u[k] = F[k][u[k - 1]]
        BY <2>1, <4>1, Zenon
      <4> HIDE DEF v
      <4> QED BY <4>2, <4>3, Zenon
    <3> QED BY <3>1, <3>2
  <2>4. DOMAIN v = 0..m + 1 /\ m + 1 \in 0..n
    OBVIOUS
  <2> HIDE DEF v
  <2>5. Up(v, m + 1)
    BY <2>2, <2>3, <2>4, Zenon
  <2> QED BY <2>4, <2>5, Zenon
<1>3. n \in T
  <2> HIDE DEF T
  <2>1. \A k \in 0..n : k \in T
    BY <1>1, <1>2, Upward
  <2> QED BY <2>1
<1>4. PICK u : Up(u, n)
  BY <1>3, Zenon
<1> DEFINE w == [k \in 0..n |-> u[k]]
<1>5. \A k \in 1..n : k \in 0..n /\ k - 1 \in 0..n /\ 0 \in 0..n
  OBVIOUS
<1>6. w[0] = b
  BY <1>4, SMT
<1>7. \A k \in 1..n : w[k] = F[k][w[k - 1]]
  BY <1>4, <1>5, Zenon
<1>8. w = [k \in 0..n |-> w[k]]
  BY Zenon
<1> HIDE DEF w
<1> QED BY <1>6, <1>7, <1>8, Zenon DEF Chained

\* A function that is defined at a place by its value at a later one.
Hung(f, n, D, next, b, F) ==
  /\ f = [i \in 1..n |-> f[i]]
  /\ \A i \in 1..n : f[i] = IF i \in D THEN F[i][f[next[i]]] ELSE b[i]

\* There is such a function, if the later place is later.
LEMMA Backward ==
  ASSUME NEW n \in Nat, NEW D \in SUBSET (1..n), NEW next, NEW b, NEW F,
         \A i \in D : next[i] \in i + 1..n
  PROVE  \E f : Hung(f, n, D, next, b, F)
<1> DEFINE Down(f, m) ==
             /\ DOMAIN f = n - m + 1..n
             /\ \A i \in n - m + 1..n : f[i] = IF i \in D THEN F[i][f[next[i]]] ELSE b[i]
           T == {m \in 0..n : \E f : Down(f, m)}
<1>1. 0 \in T
  <2>1. Down([i \in n + 1..n |-> b], 0)
    <3>1. n - 0 + 1 = n + 1 /\ \A i \in n + 1..n : FALSE
      OBVIOUS
    <3> QED BY <3>1
  <2>2. 0 \in 0..n
    OBVIOUS
  <2> QED BY <2>1, <2>2, Zenon
<1>2. ASSUME NEW m \in 0..n - 1, m \in T PROVE m + 1 \in T
  <2>1. PICK f : Down(f, m)
    BY <1>2
  <2> DEFINE p == n - m
             v == IF p \in D THEN F[p][f[next[p]]] ELSE b[p]
             g == [i \in p..n |-> IF i = p THEN v ELSE f[i]]
  <2>2. p \in 1..n /\ n - (m + 1) + 1 = p /\ n - m + 1 = p + 1
    BY <1>2
  <2>3. \A i \in p + 1..n : g[i] = f[i]
    BY <2>2
  <2>4. g[p] = v /\ DOMAIN g = p..n
    BY <2>2
  <2>5. ASSUME NEW i \in p..n
        PROVE  g[i] = IF i \in D THEN F[i][g[next[i]]] ELSE b[i]
    <3>1. i \in D => next[i] \in p + 1..n
      <4> SUFFICES ASSUME i \in D PROVE next[i] \in p + 1..n
        OBVIOUS
      <4>1. next[i] \in i + 1..n
        OBVIOUS
      <4> HIDE DEF p
      <4> QED BY <2>2, <4>1
    <3>2. i \in D => g[next[i]] = f[next[i]]
      <4> HIDE DEF g, p
      <4> QED BY <2>3, <3>1
    <3>3. CASE i = p
      <4> HIDE DEF g, p
      <4> QED BY <2>4, <3>2, <3>3, Zenon
    <3>4. CASE i # p
      <4>1. i \in p + 1..n
        BY <2>2, <3>4
      <4>2. f[i] = IF i \in D THEN F[i][f[next[i]]] ELSE b[i]
        BY <2>1, <2>2, <4>1, Zenon
      <4> HIDE DEF g, p
      <4> QED BY <2>3, <3>2, <4>1, <4>2, Zenon
    <3> QED BY <3>3, <3>4
  <2> HIDE DEF g
  <2>6. Down(g, m + 1)
    BY <2>2, <2>4, <2>5, Zenon
  <2>7. m + 1 \in 0..n
    OBVIOUS
  <2> QED BY <2>6, <2>7, Zenon
<1>3. n \in T
  <2> HIDE DEF T
  <2>1. \A k \in 0..n : k \in T
    BY <1>1, <1>2, Upward
  <2> QED BY <2>1
<1>4. PICK f : Down(f, n)
  BY <1>3, Zenon
<1>5. n - n + 1 = 1
  OBVIOUS
<1> DEFINE g == [i \in 1..n |-> f[i]]
<1>6. ASSUME NEW i \in 1..n PROVE g[i] = IF i \in D THEN F[i][g[next[i]]] ELSE b[i]
  <2>1. i \in D => next[i] \in 1..n
    <3>1. ASSUME i \in D PROVE next[i] \in 1..n
      <4>1. next[i] \in i + 1..n
        BY <3>1
      <4> QED BY <4>1, SMT
    <3> QED BY <3>1
  <2>2. f[i] = IF i \in D THEN F[i][f[next[i]]] ELSE b[i]
    BY <1>4, <1>5, Zenon
  <2> QED BY <2>1, <2>2, Zenon
<1>7. g = [i \in 1..n |-> g[i]]
  BY Zenon
<1> HIDE DEF g
<1> QED BY <1>6, <1>7, Zenon DEF Hung

---------------------------------------------------------------------------
(* Texts of characters. *)

\* What a file holds, what UTF-16 is made of, what a text is made of, and the names that iconv
\* is given.
Byte == {b \in Nat : b < 256}
Unit == {u \in Nat : u < 65536}
Scalar == {c \in Nat : IsScalar(c)}
NotZero(S) == S \ {0}
Encoding == {"UTF-8", "UTF-16", "ISO-8859-1"}

\* What a character takes in UTF-8: one to four bytes, none of them null unless it is null.
LEMMA EncodeUTF8Type ==
  ASSUME NEW c \in Scalar
  PROVE  /\ EncodeCharUTF8(c) \in Seq(Byte) /\ Len(EncodeCharUTF8(c)) \in 1..4
         /\ c # 0 => EncodeCharUTF8(c) \in Seq(NotZero(Byte))
<1>0. c \in Nat /\ c < 1114112
  BY SMT DEF Scalar, IsScalar, IsCode
<1>1. CASE c < 128
  <2>1. EncodeCharUTF8(c) = <<c>> /\ c \in Byte /\ (c # 0 => c \in NotZero(Byte))
    BY <1>0, <1>1, SMT DEF EncodeCharUTF8, Byte, NotZero
  <2> QED BY <2>1, SMT
<1> DEFINE d == c % 64  e == (c \div 64) % 64  f == (c \div 4096) % 64
<1>2. d \in 0..63 /\ e \in 0..63 /\ f \in 0..63
  BY <1>0, SMT
<1>3. CASE 128 <= c /\ c < 2048
  <2> DEFINE x == 192 + ((c \div 64) % 32)  y == 128 + d
  <2>1. {x, y} \subseteq NotZero(Byte) /\ {x, y} \subseteq Byte
    BY <1>0, <1>2, SMT DEF Byte, NotZero
  <2>2. EncodeCharUTF8(c) = <<x, y>>
    BY <1>0, <1>3, SMT DEF EncodeCharUTF8
  <2> HIDE DEF x, y
  <2> QED BY <2>1, <2>2, SMT
<1>4. CASE 2048 <= c /\ c < 65536
  <2> DEFINE x == 224 + ((c \div 4096) % 16)  y == 128 + e  z == 128 + d
  <2>1. {x, y, z} \subseteq NotZero(Byte) /\ {x, y, z} \subseteq Byte
    BY <1>0, <1>2, SMT DEF Byte, NotZero
  <2>2. EncodeCharUTF8(c) = <<x, y, z>>
    BY <1>0, <1>4, SMT DEF EncodeCharUTF8
  <2> HIDE DEF x, y, z
  <2> QED BY <2>1, <2>2, SMT
<1>5. CASE 65536 <= c
  <2> DEFINE w == 240 + ((c \div 262144) % 8)  x == 128 + f  y == 128 + e  z == 128 + d
  <2>1. {w, x, y, z} \subseteq NotZero(Byte) /\ {w, x, y, z} \subseteq Byte
    BY <1>0, <1>2, SMT DEF Byte, NotZero
  <2>2. EncodeCharUTF8(c) = <<w, x, y, z>>
    BY <1>0, <1>5, SMT DEF EncodeCharUTF8
  <2> HIDE DEF w, x, y, z
  <2> QED BY <2>1, <2>2, SMT
<1> QED BY <1>0, <1>1, <1>3, <1>4, <1>5, SMT

\* And in UTF-16: one or two units.
LEMMA EncodeUTF16Type ==
  ASSUME NEW c \in Scalar
  PROVE  EncodeCharUTF16(c) \in Seq(Unit) /\ Len(EncodeCharUTF16(c)) \in 1..2
<1>0. c \in Nat /\ c < 1114112
  BY SMT DEF Scalar, IsScalar, IsCode
<1>1. CASE c < 65536
  <2>1. EncodeCharUTF16(c) = <<c>>
    BY <1>1, SMT DEF EncodeCharUTF16
  <2>2. c \in Unit
    BY <1>0, <1>1, SMT DEF Unit
  <2> QED BY <2>1, <2>2, SMT
<1>2. CASE 65536 <= c
  <2> DEFINE q == c - 65536
             x == 55296 + ((q \div 1024) % 1024)  y == 56320 + (q % 1024)
  <2>0. q \in Nat
    BY <1>0, <1>2, SMT
  <2>1. x \in Unit /\ y \in Unit
    <3> HIDE DEF q
    <3>1. /\ (q \div 1024) % 1024 \in Nat /\ (q \div 1024) % 1024 < 1024
          /\ q % 1024 \in Nat /\ q % 1024 < 1024
      BY <2>0, SMT
    <3> QED BY <3>1, SMT DEF Unit
  <2>2. EncodeCharUTF16(c) = <<x, y>>
    <3>1. ~(c < 65536)
      BY <1>0, <1>2, SMT
    <3> QED BY <3>1, SMT DEF EncodeCharUTF16
  <2> HIDE DEF x, y
  <2> QED BY <2>1, <2>2, SMT
<1> QED BY <1>0, <1>1, <1>2, SMT

\* All of them are numbers.
LEMMA SmallSets ==
  Byte \subseteq Nat /\ Unit \subseteq Nat /\ Scalar \subseteq Nat /\ NotZero(Byte) \subseteq Byte
  /\ NotZero(Scalar) \subseteq Scalar
BY SMT DEF Byte, Unit, Scalar, NotZero

\* A character is written as numbers, in every encoding.
LEMMA EncodeType ==
  ASSUME NEW enc \in Encoding, NEW c \in Scalar
  PROVE  Encode(enc, c) \in Seq(Nat)
<1>1. EncodeCharUTF8(c) \in Seq(Nat)
  BY EncodeUTF8Type, SmallSets, SeqMonotonic, Zenon
<1>2. EncodeCharUTF16(c) \in Seq(Nat)
  BY EncodeUTF16Type, SmallSets, SeqMonotonic, Zenon
<1>3. (IF c < 256 THEN <<c>> ELSE <<>>) \in Seq(Nat)
  <2>1. <<>> \in Seq(Nat)
    OBVIOUS
  <2>2. <<c>> \in Seq(Nat)
    BY SmallSets
  <2> QED BY <2>1, <2>2, Zenon
<1>4. CASE enc = "UTF-8"
  BY <1>1, <1>4, SMT DEF Encode
<1>5. CASE enc = "UTF-16"
  BY <1>2, <1>5, SMT DEF Encode
<1>6. CASE enc = "ISO-8859-1"
  BY <1>3, <1>6, SMT DEF Encode
<1> QED BY <1>4, <1>5, <1>6 DEF Encoding

\* Encoded is made up one character after the other.
Spells(u, enc, c) ==
  /\ DOMAIN u = 0..Len(c) /\ u[0] = <<>>
  /\ \A k \in 0..Len(c) : u[k] \in Seq(Nat)
  /\ \A k \in 1..Len(c) : u[k] = u[k - 1] \o Encode(enc, c[k])

\* There is such a list of texts, and Encoded is the last of it.
LEMMA Spelled ==
  ASSUME NEW enc \in Encoding, NEW c \in Seq(Scalar)
  PROVE  \E u : Spells(u, enc, c) /\ Encoded(enc, c) = u[Len(c)]
<1> DEFINE n == Len(c)
           Is(u) == u = [k \in 0..n |-> IF k = 0 THEN <<>> ELSE u[k - 1] \o Encode(enc, c[k])]
           F == [k \in 1..n |-> [t \in Seq(Nat) |-> t \o Encode(enc, c[k])]]
<1>0. n \in Nat /\ \A k \in 1..n : c[k] \in Scalar
  BY SMT
<1>1. \A k \in 1..n : Encode(enc, c[k]) \in Seq(Nat)
  <2> HIDE DEF n
  <2> QED BY <1>0, EncodeType, Zenon
<1>2. \A t \in Seq(Nat) : \A k \in 1..n : t \o Encode(enc, c[k]) \in Seq(Nat)
  <2> HIDE DEF n
  <2> QED BY <1>1, Joined, Zenon
<1>3. <<>> \in Seq(Nat)
  BY SMT
<1> DEFINE In(u) == {k \in 0..n : u[k] \in Seq(Nat)}
<1>4. ASSUME NEW u, u[0] = <<>>,
             \A k \in 1..n : u[k - 1] \in Seq(Nat) => u[k] = u[k - 1] \o Encode(enc, c[k])
      PROVE  \A k \in 0..n : u[k] \in Seq(Nat)
  <2>1. 0 \in In(u)
    <3>1. 0 \in 0..n
      BY <1>0, SMT
    <3> HIDE DEF n
    <3> QED BY <3>1, <1>3, <1>4, Zenon
  <2>2. ASSUME NEW k \in 0..n - 1, k \in In(u) PROVE k + 1 \in In(u)
    <3>1. k + 1 \in 1..n /\ k + 1 \in 0..n /\ (k + 1) - 1 = k
      BY <1>0, SMT
    <3>2. u[k] \in Seq(Nat)
      BY <2>2
    <3> HIDE DEF n
    <3>3. u[k + 1] = u[k] \o Encode(enc, c[k + 1])
      <4>1. u[(k + 1) - 1] \in Seq(Nat) => u[k + 1] = u[(k + 1) - 1] \o Encode(enc, c[k + 1])
        BY <1>4, <3>1, Zenon
      <4> QED BY <4>1, <3>1, <3>2, Zenon
    <3>4. u[k + 1] \in Seq(Nat)
      BY <1>2, <3>1, <3>2, <3>3, Zenon
    <3> QED BY <3>1, <3>4, Zenon
  <2>3. \A k \in 0..n : k \in In(u)
    <3> HIDE DEF In, n
    <3> QED BY <1>0, <2>1, <2>2, Upward
  <2> HIDE DEF n
  <2> QED BY <2>3, Zenon
<1>5. \E u : Is(u)
  <2>1. PICK u : /\ u = [k \in 0..n |-> u[k]] /\ u[0] = <<>>
                 /\ \A k \in 1..n : u[k] = F[k][u[k - 1]]
    <3> DEFINE b == <<>>
    <3> HIDE DEF F, n, b
    <3>1. \E u : Chained(u, n, b, F)
      BY <1>0, Forward, Zenon
    <3> QED BY <3>1, Zenon DEF b, Chained
  <2>2. ASSUME NEW k \in 1..n, u[k - 1] \in Seq(Nat)
        PROVE  u[k] = u[k - 1] \o Encode(enc, c[k])
    <3> HIDE DEF n
    <3> QED BY <2>1, <2>2, Zenon
  <2>3. \A k \in 0..n : u[k] \in Seq(Nat)
    <3> HIDE DEF n, F
    <3> QED BY <1>4, <2>1, <2>2, Zenon
  <2>4. ASSUME NEW k \in 0..n
        PROVE  u[k] = IF k = 0 THEN <<>> ELSE u[k - 1] \o Encode(enc, c[k])
    <3>1. k # 0 => k \in 1..n /\ k - 1 \in 0..n
      BY <1>0, SMT
    <3> HIDE DEF F, n
    <3> QED BY <2>1, <2>2, <2>3, <3>1, Zenon
  <2> HIDE DEF F, n
  <2> QED BY <2>1, <2>4, Zenon
<1>6. PICK u : Is(u) /\ Encoded(enc, c) = u[n]
  <2>1. Encoded(enc, c) = (CHOOSE u : Is(u))[n]
    BY DEF Encoded
  <2> HIDE DEF Is
  <2> QED BY <1>5, <2>1, Zenon
<1>7. DOMAIN u = 0..n /\ u[0] = <<>>
  BY <1>0, <1>6, SMT
<1>8. ASSUME NEW k \in 1..n PROVE u[k] = u[k - 1] \o Encode(enc, c[k])
  <2>1. k \in 0..n /\ k # 0
    BY <1>0, SMT
  <2> HIDE DEF n
  <2> QED BY <1>6, <2>1, Zenon
<1>9. \A k \in 0..n : u[k] \in Seq(Nat)
  <2> HIDE DEF n
  <2> QED BY <1>4, <1>7, <1>8, Zenon
<1> QED BY <1>6, <1>7, <1>8, <1>9, Zenon DEF Spells

\* A text is in the codes that its characters are in.
LEMMA EncodedIn ==
  ASSUME NEW enc \in Encoding, NEW C \in SUBSET Scalar, NEW S,
         \A x \in C : Encode(enc, x) \in Seq(S), NEW c \in Seq(C)
  PROVE  Encoded(enc, c) \in Seq(S)
<1>0. c \in Seq(Scalar)
  BY SeqMonotonic, Zenon
<1>1. PICK u : Spells(u, enc, c) /\ Encoded(enc, c) = u[Len(c)]
  BY <1>0, Spelled, Zenon
<1> DEFINE n == Len(c)  T == {k \in 0..n : u[k] \in Seq(S)}
<1>2. n \in Nat /\ 0 \in 0..n /\ n \in 0..n /\ \A k \in 1..n : c[k] \in C
  BY SMT
<1>3. /\ u[0] = <<>> /\ \A k \in 1..n : u[k] = u[k - 1] \o Encode(enc, c[k])
  BY <1>1, Zenon DEF Spells
<1>4. 0 \in T
  <2>1. <<>> \in Seq(S)
    BY SMT
  <2> HIDE DEF n
  <2> QED BY <1>2, <1>3, <2>1, Zenon
<1>5. ASSUME NEW k \in 0..n - 1, k \in T PROVE k + 1 \in T
  <2>1. k + 1 \in 1..n /\ k + 1 \in 0..n /\ (k + 1) - 1 = k
    BY <1>2, SMT
  <2> HIDE DEF n
  <2>2. u[k] \in Seq(S) /\ Encode(enc, c[k + 1]) \in Seq(S)
    BY <1>2, <1>5, <2>1, Zenon
  <2>3. u[k + 1] = u[k] \o Encode(enc, c[k + 1])
    BY <1>3, <2>1, Zenon
  <2>4. u[k + 1] \in Seq(S)
    BY <2>2, <2>3, Joined, Zenon
  <2> QED BY <2>1, <2>4, Zenon
<1>6. n \in T
  <2> HIDE DEF T, n
  <2> QED BY <1>2, <1>4, <1>5, Upward, Zenon
<1> HIDE DEF n
<1> QED BY <1>1, <1>6, Zenon DEF n

\* Three texts one after the other.
LEMMA ConcatThree ==
  ASSUME NEW a \in Seq(Nat), NEW b \in Seq(Nat), NEW d \in Seq(Nat)
  PROVE  (a \o b) \o d = a \o (b \o d)
BY SMT

\* Encoded, one character in front of a text.
LEMMA EncodedCons ==
  ASSUME NEW enc \in Encoding, NEW x \in Scalar, NEW c \in Seq(Scalar)
  PROVE  /\ <<x>> \o c \in Seq(Scalar)
         /\ Encoded(enc, <<x>> \o c) = Encode(enc, x) \o Encoded(enc, c)
<1> DEFINE d == <<x>> \o c  e == Encode(enc, x)  n == Len(c)
<1>1. n \in Nat /\ d \in Seq(Scalar) /\ Len(d) = n + 1
  BY SMT
<1>2. d[1] = x /\ \A k \in 1..n : d[k + 1] = c[k]
  BY SMT
<1> HIDE DEF d
<1>3. PICK u : Spells(u, enc, c) /\ Encoded(enc, c) = u[Len(c)]
  BY Spelled, Zenon
<1>4. PICK v : Spells(v, enc, d) /\ Encoded(enc, d) = v[Len(d)]
  BY <1>1, Spelled, Zenon
<1>5. /\ u[0] = <<>> /\ \A k \in 0..n : u[k] \in Seq(Nat)
      /\ \A k \in 1..n : u[k] = u[k - 1] \o Encode(enc, c[k])
  BY <1>3, Zenon DEF Spells
<1>6. /\ v[0] = <<>>
      /\ \A k \in 1..n + 1 : v[k] = v[k - 1] \o Encode(enc, d[k])
  BY <1>1, <1>4, Zenon DEF Spells
<1>7. e \in Seq(Nat) /\ \A k \in 1..n : Encode(enc, c[k]) \in Seq(Nat)
  <2>1. \A k \in 1..n : c[k] \in Scalar
    BY SMT
  <2> HIDE DEF n
  <2> QED BY <2>1, EncodeType, Zenon
<1> HIDE DEF e
<1> DEFINE T == {k \in 0..n : v[k + 1] = e \o u[k]}
<1>8. 0 \in T
  <2>1. 1 \in 1..n + 1 /\ 1 - 1 = 0 /\ 0 + 1 = 1 /\ 0 \in 0..n
    BY <1>1, SMT
  <2>2. v[1] = v[0] \o Encode(enc, d[1])
    BY <1>6, <2>1, Zenon
  <2>3. v[1] = <<>> \o e
    BY <1>2, <1>6, <2>2, Zenon DEF e
  <2>4. <<>> \o e = e \o <<>>
    BY <1>7, ConcatEmptySeq, Zenon
  <2> HIDE DEF n
  <2> QED BY <1>5, <2>1, <2>3, <2>4, Zenon
<1>9. ASSUME NEW k \in 0..n - 1, k \in T PROVE k + 1 \in T
  <2>1. /\ k \in 0..n /\ k + 1 \in 1..n /\ k + 1 \in 0..n /\ (k + 1) - 1 = k
        /\ (k + 1) + 1 \in 1..n + 1 /\ ((k + 1) + 1) - 1 = k + 1
    BY <1>1, SMT
  <2> HIDE DEF n
  <2> DEFINE p == k + 1  f == Encode(enc, c[p])
  <2>2. v[p + 1] = v[p] \o Encode(enc, d[p + 1]) /\ d[p + 1] = c[p]
    BY <1>2, <1>6, <2>1, Zenon
  <2>3. v[p + 1] = (e \o u[k]) \o f
    BY <1>9, <2>2, Zenon
  <2>4. (e \o u[k]) \o f = e \o (u[k] \o f)
    <3>1. u[k] \in Seq(Nat) /\ f \in Seq(Nat)
      BY <1>5, <1>7, <2>1, Zenon
    <3> HIDE DEF f
    <3>2. e \in Seq(Nat)
      BY <1>7, Zenon
    <3> DEFINE g == u[k]
    <3>3. g \in Seq(Nat)
      BY <3>1
    <3> HIDE DEF g
    <3>4. (e \o g) \o f = e \o (g \o f)
      BY <3>1, <3>2, <3>3, ConcatThree
    <3> QED BY <3>4, Zenon DEF g
  <2>5. u[p] = u[k] \o f
    BY <1>5, <2>1, Zenon
  <2> HIDE DEF f
  <2> QED BY <2>1, <2>3, <2>4, <2>5, Zenon
<1>10. n \in T
  <2>1. n \in 0..n
    BY <1>1, SMT
  <2> HIDE DEF T, n
  <2> QED BY <1>1, <1>8, <1>9, <2>1, Upward, Zenon
<1>11. v[n + 1] = e \o u[n]
  <2> HIDE DEF n
  <2> QED BY <1>10, Zenon
<1>12. d \in Seq(Scalar) /\ Encoded(enc, d) = e \o Encoded(enc, c)
  BY <1>1, <1>3, <1>4, <1>11, Zenon
<1> QED BY <1>12, Zenon DEF d, e

\* No character is written as nothing.
LEMMA EncodedEmpty ==
  ASSUME NEW enc \in Encoding
  PROVE  Encoded(enc, <<>>) = <<>>
<1>1. <<>> \in Seq(Scalar) /\ Len(<<>>) = 0
  BY SMT
<1>2. PICK u : Spells(u, enc, <<>>) /\ Encoded(enc, <<>>) = u[0]
  BY <1>1, Spelled, Zenon
<1> QED BY <1>2, Zenon DEF Spells

\* Where its k-th character stands in a text, and what is behind it.
LEMMA Standing ==
  ASSUME NEW enc \in Encoding, NEW c \in Seq(Scalar), NEW u, Spells(u, enc, c)
  PROVE  /\ \A k \in 0..Len(c) : Len(u[k]) \in Nat
         /\ \A k \in 1..Len(c) : /\ StandsAt(Encode(enc, c[k]), u[Len(c)], Len(u[k - 1]) + 1)
                                 /\ Len(u[k]) = Len(u[k - 1]) + Len(Encode(enc, c[k]))
<1> DEFINE n == Len(c)
           Begins2(a, b) == Len(a) <= Len(b) /\ \A p \in 1..Len(a) : b[p] = a[p]
           T == {k \in 0..n : \A j \in 0..k : Begins2(u[j], u[k])}
<1>0. /\ n \in Nat /\ n \in 0..n /\ 0 \in 0..n
      /\ \A k \in 1..n : c[k] \in Scalar /\ k \in 0..n /\ k - 1 \in 0..n
  BY SMT
<1>1. \A k \in 0..n : u[k] \in Seq(Nat)
  BY Zenon DEF Spells
<1>2. \A k \in 1..n : u[k] = u[k - 1] \o Encode(enc, c[k])
  BY Zenon DEF Spells
<1>3. \A k \in 1..n : Encode(enc, c[k]) \in Seq(Nat)
  <2> HIDE DEF n
  <2> QED BY <1>0, EncodeType, Zenon
<1>4. \A a, b \in Seq(Nat) :
        /\ Len(a) \in Nat /\ Len(b) \in Nat /\ Len(a \o b) = Len(a) + Len(b)
        /\ \A p \in 1..Len(a) : (a \o b)[p] = a[p]
        /\ \A p \in 1..Len(b) : (a \o b)[Len(a) + p] = b[p]
  BY SMT
<1> HIDE DEF n
<1>5. \A a, b, d \in Seq(Nat) : Begins2(a, b) /\ Begins2(b, d) => Begins2(a, d)
  BY SMT
<1>6. \A a, b \in Seq(Nat) : Begins2(a, a \o b) /\ Begins2(a, a)
  BY <1>4, SMT
<1> HIDE DEF Begins2
<1>7. 0 \in T
  <2>1. \A j \in 0..0 : j = 0
    BY SMT
  <2>2. Begins2(u[0], u[0])
    BY <1>0, <1>1, <1>6, Zenon
  <2> QED BY <1>0, <2>1, <2>2, Zenon
<1>8. ASSUME NEW k \in 0..n - 1, k \in T PROVE k + 1 \in T
  <2>1. k \in 0..n /\ k + 1 \in 1..n /\ k + 1 \in 0..n /\ (k + 1) - 1 = k
    BY <1>0, SMT
  <2>2. \A j \in 0..k + 1 : (j \in 0..k \/ j = k + 1) /\ j \in 0..n
    BY <1>0, SMT
  <2>3. u[k + 1] = u[k] \o Encode(enc, c[k + 1])
    BY <1>2, <2>1, Zenon
  <2>4. Begins2(u[k], u[k + 1]) /\ Begins2(u[k + 1], u[k + 1])
    BY <1>1, <1>3, <1>6, <2>1, <2>3, Zenon
  <2>5. \A j \in 0..k : Begins2(u[j], u[k])
    BY <1>8
  <2>6. \A j \in 0..k + 1 : Begins2(u[j], u[k + 1])
    BY <1>1, <1>5, <2>1, <2>2, <2>4, <2>5, Zenon
  <2> QED BY <2>1, <2>6, Zenon
<1>9. \A k \in 0..n : Begins2(u[k], u[n])
  <2>1. n \in T
    <3> HIDE DEF T
    <3> QED BY <1>0, <1>7, <1>8, Upward, Zenon
  <2> QED BY <2>1, Zenon
<1>10. ASSUME NEW k \in 1..n
       PROVE  /\ StandsAt(Encode(enc, c[k]), u[n], Len(u[k - 1]) + 1)
              /\ Len(u[k]) = Len(u[k - 1]) + Len(Encode(enc, c[k]))
  <2> DEFINE a == u[k - 1]  e == Encode(enc, c[k])  s == u[n]
  <2>1. a \in Seq(Nat) /\ e \in Seq(Nat) /\ s \in Seq(Nat) /\ u[k] = a \o e /\ Begins2(u[k], s)
    BY <1>0, <1>1, <1>2, <1>3, <1>9, Zenon
  <2> HIDE DEF a, e, s
  <2>2. Len(a \o e) <= Len(s) /\ \A p \in 1..Len(a \o e) : s[p] = (a \o e)[p]
    BY <2>1, Zenon DEF Begins2
  <2>3. Len(a \o e) = Len(a) + Len(e) /\ Len(a) \in Nat /\ Len(e) \in Nat
    BY <1>4, <2>1, Zenon
  <2>4. Len(a) + 1 + Len(e) - 1 <= Len(s)
    BY <2>1, <2>2, <2>3, SMT
  <2>5. ASSUME NEW j \in 1..Len(e) PROVE s[Len(a) + 1 + j - 1] = e[j]
    <3>1. Len(a) + 1 + j - 1 = Len(a) + j /\ Len(a) + j \in 1..Len(a \o e)
      BY <2>3, SMT
    <3>2. (a \o e)[Len(a) + j] = e[j]
      BY <1>4, <2>1, Zenon
    <3> QED BY <2>2, <3>1, <3>2, Zenon
  <2>6. StandsAt(e, s, Len(a) + 1) /\ Len(u[k]) = Len(a) + Len(e)
    BY <2>1, <2>3, <2>4, <2>5, Zenon DEF StandsAt
  <2> QED BY <2>6, Zenon DEF a, e, s
<1>11. \A k \in 0..n : Len(u[k]) \in Nat
  BY <1>1, SMT
<1> QED BY <1>10, <1>11, Zenon DEF n

\* Two texts with the same characters are the same.
LEMMA SameText ==
  ASSUME NEW a \in Seq(Nat), NEW b \in Seq(Nat), Len(a) = Len(b),
         \A j \in 1..Len(a) : a[j] = b[j]
  PROVE  a = b
BY SMT

\* iconv takes the characters that Encoded wrote.
LEMMA CharAtEncoded ==
  ASSUME NEW s \in Seq(Nat), NEW i \in Nat \ {0}, NEW x \in Scalar,
         StandsAt(EncodeCharUTF8(x), s, i)
  PROVE  CharAt(s, i) = Decoded(x, i + Len(EncodeCharUTF8(x)))
<1> DEFINE e == EncodeCharUTF8(x)  d == DecodeCharUTF8(s, i)
<1>1. x \in Nat /\ IsScalar(x) /\ IsCode(x)
  BY SMT DEF Scalar, IsScalar
<1>2. e \in Seq(Nat) /\ Len(e) \in Nat
  <2>1. e \in Seq(Nat)
    BY EncodeUTF8Type, SmallSets, SeqMonotonic, Zenon
  <2> HIDE DEF e
  <2> QED BY <2>1, SMT
<1>3. d = Decoded(x, i + Len(e))
  BY <1>1, UTF8RoundTrip, Zenon
<1>4. d.code = x /\ d.next = i + Len(e)
  BY <1>3, SMT DEF Decoded
<1> HIDE DEF e, d
<1>5. i + Len(e) - 1 <= Len(s) /\ \A j \in 1..Len(e) : s[i + j - 1] = e[j]
  BY Zenon DEF StandsAt, e
<1> DEFINE t == SubSeq(s, i, d.next - 1)
<1>6. t \in Seq(Nat) /\ Len(t) = Len(e) /\ \A j \in 1..Len(e) : t[j] = s[i + j - 1]
  BY <1>2, <1>4, <1>5, SMT
<1> HIDE DEF t
<1>7. t = e
  <2>1. \A j \in 1..Len(t) : t[j] = e[j]
    BY <1>5, <1>6, Zenon
  <2> QED BY <1>2, <1>6, <2>1, SameText, Zenon
<1>8. IsScalar(d.code) /\ EncodeCharUTF8(d.code) = t
  BY <1>1, <1>4, <1>7, Zenon DEF e
<1>9. CharAt(s, i) = d
  BY <1>8, Zenon DEF CharAt, d, t
<1> QED BY <1>3, <1>9, Zenon DEF e

\* What iconv takes is a character, behind which it goes on.
LEMMA CharAtGoesOn ==
  ASSUME NEW s \in Seq(Nat), NEW i \in 1..Len(s), CharAt(s, i).code # Bad
  PROVE  /\ CharAt(s, i).code \in Scalar
         /\ CharAt(s, i).next \in i + 1..Len(s) + 1
         /\ CharAt(s, i) = DecodeCharUTF8(s, i)
         /\ EncodeCharUTF8(CharAt(s, i).code) = SubSeq(s, i, CharAt(s, i).next - 1)
<1> DEFINE d == DecodeCharUTF8(s, i)
<1>1. Decoded(Bad, i).code = Bad
  BY SMT DEF Decoded
<1>2. /\ CharAt(s, i) = d /\ IsScalar(d.code)
      /\ EncodeCharUTF8(d.code) = SubSeq(s, i, d.next - 1)
  BY <1>1, Zenon DEF CharAt
<1>3. d.next \in i + 1..Len(s) + 1
  BY UTF8GoesOn
<1>4. d.code \in Scalar
  <2>1. \A y : IsScalar(y) => y \in Scalar
    BY SMT DEF Scalar, IsScalar, IsCode
  <2> QED BY <1>2, <2>1, Zenon
<1> QED BY <1>2, <1>3, <1>4, Zenon

\* Where IsUTF8 takes a text for UTF-8 from.
IsUTF8From(f, s) ==
  f = [i \in 1..Len(s) + 1 |-> i > Len(s) \/ (CharAt(s, i).code # Bad /\ f[CharAt(s, i).next])]

\* What IsUTF8 finds at a place.
LEMMA IsUTF8At ==
  ASSUME NEW f, NEW s, IsUTF8From(f, s), NEW i \in 1..Len(s) + 1
  PROVE  f[i] = (i > Len(s) \/ (CharAt(s, i).code # Bad /\ f[CharAt(s, i).next]))
<1> DEFINE Here(j) == j > Len(s) \/ (CharAt(s, j).code # Bad /\ f[CharAt(s, j).next])
<1>1. f = [j \in 1..Len(s) + 1 |-> Here(j)]
  BY DEF IsUTF8From
<1> HIDE DEF Here
<1>2. f[i] = Here(i)
  BY <1>1, Zenon
<1> QED BY <1>2, Zenon DEF Here

\* IsUTF8 finds something at every place, as CharAt always goes on.
LEMMA IsUTF8Defined ==
  ASSUME NEW s \in Seq(Nat)
  PROVE  \E f : IsUTF8From(f, s) /\ IsUTF8(s) = f[1]
<1> DEFINE n == Len(s) + 1
           D == {i \in 1..n : i <= Len(s) /\ CharAt(s, i).code # Bad}
           next == [i \in 1..n |-> CharAt(s, i).next]
           b == [i \in 1..n |-> IF i > Len(s) THEN TRUE ELSE FALSE]
           F == [i \in 1..n |-> [t \in BOOLEAN |-> t]]
<1>1. n \in Nat /\ Len(s) \in Nat /\ D \in SUBSET (1..n)
  BY SMT
<1>2. \A i \in D : next[i] \in i + 1..n
  <2> TAKE i \in D
  <2>1. i \in 1..Len(s) /\ CharAt(s, i).code # Bad
    BY <1>1, SMT
  <2>2. CharAt(s, i).next \in i + 1..n
    BY <2>1, CharAtGoesOn, Zenon
  <2> HIDE DEF n
  <2> QED BY <2>2, Zenon
<1> HIDE DEF n, D, next, b, F
<1>3. PICK f : Hung(f, n, D, next, b, F)
  BY <1>1, <1>2, Backward, Zenon
<1>4. \A i \in 1..n : f[i] = IF i \in D THEN F[i][f[next[i]]] ELSE b[i]
  BY <1>3, Zenon DEF Hung
<1>5. \A i \in 1..n : b[i] \in BOOLEAN /\ (b[i] <=> i > Len(s)) /\ \A t \in BOOLEAN : F[i][t] = t
  BY Zenon DEF b, F
<1> DEFINE T == {i \in 1..n : f[i] \in BOOLEAN}
<1>6. ASSUME NEW i \in 1..n, \A j \in i + 1..n : j \in T PROVE i \in T
  <2>1. i \in D => f[next[i]] \in BOOLEAN
    BY <1>2, <1>6, Zenon
  <2>2. f[i] \in BOOLEAN
    BY <1>4, <1>5, <2>1, Zenon
  <2> QED BY <2>2, Zenon
<1>7. \A i \in 1..n : i \in T
  <2> HIDE DEF T
  <2> QED BY <1>1, <1>6, Downward, Zenon
<1>8. ASSUME NEW i \in 1..n
      PROVE  f[i] = (i > Len(s) \/ (CharAt(s, i).code # Bad /\ f[CharAt(s, i).next]))
  <2>1. CASE i \in D
    <3>1. ~(i > Len(s)) /\ CharAt(s, i).code # Bad
      BY <1>1, <2>1, SMT DEF D
    <3>2. next[i] = CharAt(s, i).next
      BY Zenon DEF next
    <3>3. i + 1 \in Nat /\ \A j \in i + 1..n : j \in 1..n
      BY <1>1, SMT
    <3>4. f[next[i]] \in BOOLEAN
      BY <1>2, <1>7, <2>1, <3>3, Zenon
    <3>5. f[i] = f[next[i]]
      BY <1>4, <1>5, <2>1, <3>4, Zenon
    <3> QED BY <3>1, <3>2, <3>4, <3>5, Zenon
  <2>2. CASE i \notin D
    <3>1. i > Len(s) \/ CharAt(s, i).code = Bad
      BY <1>1, <2>2, SMT DEF D
    <3>2. f[i] = b[i]
      BY <1>4, <2>2, Zenon
    <3> QED BY <1>5, <3>1, <3>2, Zenon
  <2> QED BY <2>1, <2>2, Zenon
<1>9. f = [i \in 1..n |-> f[i]]
  BY <1>3, Zenon DEF Hung
<1>10. f = [i \in 1..n |-> i > Len(s) \/ (CharAt(s, i).code # Bad /\ f[CharAt(s, i).next])]
  BY <1>8, <1>9, Zenon
<1>11. \E g : IsUTF8From(g, s)
  BY <1>10, Zenon DEF IsUTF8From, n
<1>12. IsUTF8(s) = (CHOOSE g : IsUTF8From(g, s))[1]
  BY DEF IsUTF8, IsUTF8From
<1> QED BY <1>11, <1>12, Zenon

\* What Encoded writes in UTF-8 is UTF-8.
LEMMA EncodedIsUTF8 ==
  ASSUME NEW c \in Seq(Scalar)
  PROVE  IsUTF8(Encoded("UTF-8", c))
<1>0. "UTF-8" \in Encoding /\ \A x : Encode("UTF-8", x) = EncodeCharUTF8(x)
  BY SMT DEF Encoding, Encode
<1>1. PICK u : Spells(u, "UTF-8", c) /\ Encoded("UTF-8", c) = u[Len(c)]
  BY <1>0, Spelled, Zenon
<1> DEFINE n == Len(c)  s == u[n]  at(k) == Len(u[k - 1]) + 1
<1>2. n \in Nat /\ n \in 0..n /\ \A k \in 1..n : c[k] \in Scalar /\ k - 1 \in 0..n /\ k \in 0..n
  BY SMT
<1>3. s \in Seq(Nat) /\ u[0] = <<>>
  BY <1>1, <1>2, Zenon DEF Spells
<1>4. /\ \A k \in 0..n : Len(u[k]) \in Nat
      /\ \A k \in 1..n : /\ StandsAt(Encode("UTF-8", c[k]), s, at(k))
                         /\ Len(u[k]) = Len(u[k - 1]) + Len(Encode("UTF-8", c[k]))
  BY <1>0, <1>1, Standing, Zenon
<1> HIDE DEF n, s
<1>5. PICK f : IsUTF8From(f, s) /\ IsUTF8(s) = f[1]
  BY <1>3, IsUTF8Defined, Zenon
<1> DEFINE T == {k \in 1..n + 1 : f[at(k)] = TRUE}
<1>6. ASSUME NEW k \in 1..n + 1, \A j \in k + 1..n + 1 : j \in T PROVE k \in T
  <2>1. CASE k = n + 1
    <3>1. k - 1 = n /\ Len(s) \in Nat
      BY <1>2, <1>3, <2>1, SMT
    <3>2. at(k) = Len(s) + 1
      BY <3>1, Zenon DEF s
    <3>3. Len(s) + 1 \in 1..Len(s) + 1 /\ Len(s) + 1 > Len(s)
      BY <3>1, SMT
    <3> HIDE DEF at
    <3>4. f[at(k)] = TRUE
      BY <1>5, <3>2, <3>3, IsUTF8At, Zenon
    <3> QED BY <3>4, Zenon
  <2>2. CASE k # n + 1
    <3>1. k \in 1..n /\ k + 1 \in k + 1..n + 1 /\ (k + 1) - 1 = k
      BY <1>2, <2>2, SMT
    <3> DEFINE x == c[k]  e == EncodeCharUTF8(x)
    <3>2. x \in Scalar /\ StandsAt(e, s, at(k)) /\ Len(u[k]) = Len(u[k - 1]) + Len(e)
          /\ Len(u[k - 1]) \in Nat
      BY <1>0, <1>2, <1>4, <3>1, Zenon
    <3>3. at(k + 1) = Len(u[k]) + 1
      BY <3>1, Zenon
    <3>4. Len(e) \in 1..4
      <4> HIDE DEF x
      <4> QED BY <3>2, EncodeUTF8Type, Zenon
    <3> HIDE DEF x, e
    <3>5. at(k) \in Nat \ {0} /\ at(k + 1) = at(k) + Len(e)
      BY <3>2, <3>3, <3>4, SMT
    <3>6. at(k) + Len(e) - 1 <= Len(s)
      BY <3>2, Zenon DEF StandsAt
    <3> HIDE DEF at
    <3>7. at(k) \in 1..Len(s) + 1 /\ x # Bad /\ Len(s) \in Nat
      <4> DEFINE a == at(k)  l == Len(e)  m == Len(s)
      <4>1. m \in Nat
        BY <1>3, SMT
      <4> HIDE DEF a, l, m
      <4>2. a \in Nat \ {0} /\ l \in 1..4 /\ a + l - 1 <= m
        BY <3>4, <3>5, <3>6, Zenon DEF a, l, m
      <4>3. a \in 1..m + 1
        BY <4>1, <4>2, SMT
      <4>4. \A y \in Scalar : y # Bad
        BY SMT DEF Bad, Scalar
      <4>5. x # Bad
        BY <3>2, <4>4, Zenon
      <4> QED BY <4>1, <4>3, <4>5, Zenon DEF a, m
    <3>8. CharAt(s, at(k)) = Decoded(x, at(k + 1))
      <4>1. /\ s \in Seq(Nat) /\ at(k) \in Nat \ {0} /\ x \in Scalar
            /\ StandsAt(EncodeCharUTF8(x), s, at(k))
        BY <1>3, <3>2, <3>5, Zenon DEF e
      <4>2. CharAt(s, at(k)) = Decoded(x, at(k) + Len(EncodeCharUTF8(x)))
        BY <4>1, CharAtEncoded, Zenon
      <4> QED BY <3>5, <4>2, Zenon DEF e
    <3>9. CharAt(s, at(k)).code = x /\ CharAt(s, at(k)).next = at(k + 1)
      BY <3>8, SMT DEF Decoded
    <3>10. f[at(k + 1)] = TRUE
      BY <1>6, <3>1, Zenon
    <3>11. f[at(k)] = TRUE
      <4>1. f[at(k)] = (at(k) > Len(s)
                       \/ (CharAt(s, at(k)).code # Bad /\ f[CharAt(s, at(k)).next]))
        BY <1>5, <3>7, IsUTF8At, Zenon
      <4> QED BY <3>7, <3>9, <3>10, <4>1, Zenon
    <3> QED BY <3>11, Zenon
  <2> QED BY <2>1, <2>2, Zenon
<1>7. 1 \in T
  <2>1. n + 1 \in Nat /\ 1 \in 1..n + 1
    BY <1>2, SMT
  <2> HIDE DEF T
  <2> QED BY <1>6, <2>1, Downward, Zenon
<1>8. at(1) = 1
  <2>1. 1 - 1 = 0 /\ Len(<<>>) + 1 = 1
    BY SMT
  <2> QED BY <1>3, <2>1, Zenon
<1>9. f[1] = TRUE
  <2> HIDE DEF at
  <2> QED BY <1>7, <1>8, Zenon
<1> QED BY <1>1, <1>5, <1>9, Zenon DEF s, n

\* A text without nulls stays without, and its bytes are bytes.
LEMMA EncodedBytes ==
  /\ \A c \in Seq(Scalar) : Encoded("UTF-8", c) \in Seq(Byte)
  /\ \A c \in Seq(NotZero(Scalar)) : /\ Encoded("UTF-8", c) \in Seq(NotZero(Byte))
                                     /\ IsUTF8(Encoded("UTF-8", c))
  /\ \A c \in Seq(Scalar) : Encoded("UTF-16", c) \in Seq(Unit)
<1>0. {"UTF-8", "UTF-16"} \subseteq Encoding
  BY SMT DEF Encoding
<1>1. \A x : Encode("UTF-8", x) = EncodeCharUTF8(x) /\ Encode("UTF-16", x) = EncodeCharUTF16(x)
  BY SMT DEF Encode
<1>2. \A x \in Scalar : Encode("UTF-8", x) \in Seq(Byte) /\ Encode("UTF-16", x) \in Seq(Unit)
  BY <1>1, EncodeUTF8Type, EncodeUTF16Type, Zenon
<1>3. \A x \in NotZero(Scalar) : Encode("UTF-8", x) \in Seq(NotZero(Byte))
  <2> TAKE x \in NotZero(Scalar)
  <2>1. x \in Scalar /\ x # 0
    BY Zenon DEF NotZero
  <2> QED BY <1>1, <2>1, EncodeUTF8Type, Zenon
<1>4. Scalar \in SUBSET Scalar /\ NotZero(Scalar) \in SUBSET Scalar
  BY SmallSets, Zenon
<1>5. ASSUME NEW c \in Seq(Scalar)
      PROVE  Encoded("UTF-8", c) \in Seq(Byte) /\ Encoded("UTF-16", c) \in Seq(Unit)
  BY <1>0, <1>2, <1>4, EncodedIn, Zenon
<1>6. ASSUME NEW c \in Seq(NotZero(Scalar))
      PROVE  Encoded("UTF-8", c) \in Seq(NotZero(Byte)) /\ IsUTF8(Encoded("UTF-8", c))
  <2>1. c \in Seq(Scalar)
    BY <1>4, SeqMonotonic, Zenon
  <2>2. Encoded("UTF-8", c) \in Seq(NotZero(Byte))
    BY <1>0, <1>3, <1>4, EncodedIn, Zenon
  <2> QED BY <2>1, <2>2, EncodedIsUTF8, Zenon
<1> QED BY <1>5, <1>6, Zenon

\* A text that is made of pieces, from its end on.
Made(f, n, D, next, piece) ==
  /\ f = [i \in 1..n |-> f[i]]
  /\ \A i \in 1..n : f[i] = IF i \in D THEN piece[i] \o f[next[i]] ELSE <<>>

\* There is such a text, as every piece goes on to a later place.
LEMMA Making ==
  ASSUME NEW n \in Nat, NEW D \in SUBSET (1..n), NEW next, NEW piece,
         \A i \in D : next[i] \in i + 1..n /\ piece[i] \in Seq(Nat)
  PROVE  \E f : Made(f, n, D, next, piece)
<1> DEFINE b == [i \in 1..n |-> <<>>]
           F == [i \in D |-> [t \in Seq(Nat) |-> piece[i] \o t]]
<1>1. \A i \in D : next[i] \in i + 1..n
  BY Zenon
<1> HIDE DEF b, F
<1>2. PICK f : Hung(f, n, D, next, b, F)
  BY <1>1, Backward, Zenon
<1>3. \A i \in 1..n : f[i] = IF i \in D THEN F[i][f[next[i]]] ELSE <<>>
  BY <1>2, Zenon DEF Hung, b
<1> DEFINE T == {i \in 1..n : f[i] \in Seq(Nat)}
<1>4. <<>> \in Seq(Nat)
  BY SMT
<1>5. ASSUME NEW i \in 1..n, \A j \in i + 1..n : j \in T PROVE i \in T
  <2>1. CASE i \in D
    <3>1. next[i] \in T /\ piece[i] \in Seq(Nat)
      <4> HIDE DEF T
      <4> QED BY <1>1, <1>5, <2>1, Zenon
    <3> DEFINE t == f[next[i]]
    <3>2. t \in Seq(Nat)
      BY <3>1, Zenon
    <3>3. f[i] = F[i][t]
      BY <1>3, <2>1, Zenon
    <3> HIDE DEF t
    <3>4. f[i] = piece[i] \o t
      BY <2>1, <3>2, <3>3, Zenon DEF F
    <3>5. f[i] \in Seq(Nat)
      BY <3>1, <3>2, <3>4, Joined, Zenon
    <3> QED BY <3>5, Zenon
  <2>2. CASE i \notin D
    BY <1>3, <1>4, <2>2, Zenon
  <2> QED BY <2>1, <2>2
<1>6. \A i \in 1..n : i \in T
  <2> HIDE DEF T
  <2> QED BY <1>5, Downward, Zenon
<1>7. ASSUME NEW i \in 1..n PROVE f[i] = IF i \in D THEN piece[i] \o f[next[i]] ELSE <<>>
  <2>1. CASE i \in D
    <3>1. next[i] \in 1..n
      <4>1. next[i] \in i + 1..n
        BY <1>1, <2>1
      <4> QED BY <4>1, SMT
    <3> DEFINE t == f[next[i]]
    <3>2. t \in Seq(Nat)
      BY <1>6, <3>1, Zenon
    <3>3. f[i] = F[i][t]
      BY <1>3, <2>1, Zenon
    <3> HIDE DEF t
    <3>4. f[i] = piece[i] \o t
      BY <2>1, <3>2, <3>3, Zenon DEF F
    <3> QED BY <2>1, <3>4, Zenon DEF t
  <2>2. CASE i \notin D
    BY <1>3, <2>2, Zenon
  <2> QED BY <2>1, <2>2
<1>8. f = [i \in 1..n |-> f[i]]
  BY <1>2, Zenon DEF Hung
<1> QED BY <1>7, <1>8, Zenon DEF Made

\* What is in it.
LEMMA MadeOf ==
  ASSUME NEW n \in Nat, NEW D \in SUBSET (1..n), NEW next, NEW piece, NEW S,
         \A i \in D : next[i] \in i + 1..n /\ piece[i] \in Seq(S),
         NEW f, Made(f, n, D, next, piece), NEW i \in 1..n
  PROVE  f[i] \in Seq(S)
<1> DEFINE T == {j \in 1..n : f[j] \in Seq(S)}
<1>1. <<>> \in Seq(S)
  BY SMT
<1>2. \A j \in 1..n : f[j] = IF j \in D THEN piece[j] \o f[next[j]] ELSE <<>>
  BY Zenon DEF Made
<1>3. ASSUME NEW j \in 1..n, \A k \in j + 1..n : k \in T PROVE j \in T
  <2>1. CASE j \in D
    <3>1. next[j] \in T /\ piece[j] \in Seq(S)
      <4> HIDE DEF T
      <4> QED BY <1>3, <2>1, Zenon
    <3> DEFINE t == f[next[j]]
    <3>2. t \in Seq(S)
      BY <3>1, Zenon
    <3>3. f[j] = piece[j] \o t
      BY <1>2, <2>1, Zenon
    <3> HIDE DEF t
    <3>4. f[j] \in Seq(S)
      BY <3>1, <3>2, <3>3, Joined, Zenon
    <3> QED BY <3>4, Zenon
  <2>2. CASE j \notin D
    BY <1>1, <1>2, <2>2, Zenon
  <2> QED BY <2>1, <2>2
<1>4. \A j \in 1..n : j \in T
  <2> HIDE DEF T
  <2> QED BY <1>3, Downward, Zenon
<1> QED BY <1>4, Zenon

---------------------------------------------------------------------------
\* iconv: where it goes on from a place, and what it writes there.
Refused(enc, s, i) == CharAt(s, i).code = Bad \/ Encode(enc, CharAt(s, i).code) = <<>>
Taken(s) == {i \in 1..Len(s) + 1 : i <= Len(s) /\ ~Incomplete(s, i)}
NextTaken(enc, s) ==
  [i \in 1..Len(s) + 1 |-> IF Refused(enc, s, i) THEN i + 1 ELSE CharAt(s, i).next]
PieceTaken(enc, s) ==
  [i \in 1..Len(s) + 1 |-> IF Refused(enc, s, i) THEN <<Mark>> ELSE Encode(enc, CharAt(s, i).code)]

\* iconv goes on by at least a place and not beyond the end.
LEMMA TakenGoesOn ==
  ASSUME NEW enc \in Encoding, NEW s \in Seq(Nat), NEW i \in Taken(s)
  PROVE  /\ NextTaken(enc, s)[i] \in i + 1..Len(s) + 1
         /\ PieceTaken(enc, s)[i] \in Seq(Nat)
         /\ i \in 1..Len(s) /\ i \in 1..Len(s) + 1
<1>1. i \in 1..Len(s) /\ i \in 1..Len(s) + 1 /\ i + 1 \in i + 1..Len(s) + 1
  BY SMT DEF Taken
<1>2. <<Mark>> \in Seq(Nat)
  BY SMT DEF Mark
<1>3. ASSUME ~Refused(enc, s, i)
      PROVE  /\ CharAt(s, i).next \in i + 1..Len(s) + 1
             /\ Encode(enc, CharAt(s, i).code) \in Seq(Nat)
  <2>1. CharAt(s, i).code # Bad
    BY <1>3, Zenon DEF Refused
  <2>2. CharAt(s, i).code \in Scalar /\ CharAt(s, i).next \in i + 1..Len(s) + 1
    BY <1>1, <2>1, CharAtGoesOn, Zenon
  <2> QED BY <2>2, EncodeType, Zenon
<1> QED BY <1>1, <1>2, <1>3, Zenon DEF NextTaken, PieceTaken

\* What IConv says of a place.
IConvAt(f, enc, s, i) ==
  LET d == CharAt(s, i)
  IN CASE i > Len(s)      -> <<>>
       [] i <= Len(s) /\ Incomplete(s, i) -> <<>>
       [] i <= Len(s) /\ ~Incomplete(s, i) /\ (d.code = Bad \/ Encode(enc, d.code) = <<>>)
                          -> <<Mark>> \o f[i + 1]
       [] OTHER           -> Encode(enc, d.code) \o f[d.next]

\* IConv makes its text of the pieces that are taken.
LEMMA IConvAtIs ==
  ASSUME NEW enc \in Encoding, NEW s \in Seq(Nat), NEW f, NEW i \in 1..Len(s) + 1
  PROVE  IConvAt(f, enc, s, i) =
           IF i \in Taken(s) THEN PieceTaken(enc, s)[i] \o f[NextTaken(enc, s)[i]] ELSE <<>>
<1>0. Len(s) \in Nat /\ (i > Len(s) <=> ~(i <= Len(s)))
  BY SMT
<1>1. i \in Taken(s) <=> i <= Len(s) /\ ~Incomplete(s, i)
  BY Zenon DEF Taken
<1>2. CASE i > Len(s)
  BY <1>0, <1>1, <1>2, Zenon DEF IConvAt
<1>3. CASE i <= Len(s) /\ Incomplete(s, i)
  BY <1>0, <1>1, <1>3, Zenon DEF IConvAt
<1>4. CASE i <= Len(s) /\ ~Incomplete(s, i) /\ Refused(enc, s, i)
  <2>1. PieceTaken(enc, s)[i] = <<Mark>> /\ NextTaken(enc, s)[i] = i + 1
    BY <1>4, Zenon DEF PieceTaken, NextTaken
  <2>2. IConvAt(f, enc, s, i) = <<Mark>> \o f[i + 1]
    BY <1>0, <1>4, Zenon DEF IConvAt, Refused
  <2> QED BY <1>1, <1>4, <2>1, <2>2, Zenon
<1>5. CASE i <= Len(s) /\ ~Incomplete(s, i) /\ ~Refused(enc, s, i)
  <2>1. /\ PieceTaken(enc, s)[i] = Encode(enc, CharAt(s, i).code)
        /\ NextTaken(enc, s)[i] = CharAt(s, i).next
    BY <1>5, Zenon DEF PieceTaken, NextTaken
  <2>2. IConvAt(f, enc, s, i) = Encode(enc, CharAt(s, i).code) \o f[CharAt(s, i).next]
    BY <1>0, <1>5, Zenon DEF IConvAt, Refused
  <2> QED BY <1>1, <1>5, <2>1, <2>2, Zenon
<1> QED BY <1>0, <1>2, <1>3, <1>4, <1>5, Zenon

\* IConv's text is the one that is made from the first place on.
LEMMA IConvMade ==
  ASSUME NEW enc \in Encoding, NEW s \in Seq(Nat)
  PROVE  \E f : /\ Made(f, Len(s) + 1, Taken(s), NextTaken(enc, s), PieceTaken(enc, s))
                /\ IConv(enc, s) = f[1]
<1> DEFINE n == Len(s) + 1
           Is(f) == f = [i \in 1..n |-> IConvAt(f, enc, s, i)]
           Body(f, i) == IConvAt(f, enc, s, i)
<1>1. n \in Nat /\ Taken(s) \in SUBSET (1..n)
  BY SMT DEF Taken
<1>2. \A i \in Taken(s) : /\ NextTaken(enc, s)[i] \in i + 1..n
                          /\ PieceTaken(enc, s)[i] \in Seq(Nat)
  BY TakenGoesOn, Zenon
<1>3. ASSUME NEW f, NEW i \in 1..n
      PROVE  IConvAt(f, enc, s, i) =
           IF i \in Taken(s) THEN PieceTaken(enc, s)[i] \o f[NextTaken(enc, s)[i]] ELSE <<>>
  BY IConvAtIs, Zenon
<1> DEFINE M(f) == Made(f, n, Taken(s), NextTaken(enc, s), PieceTaken(enc, s))
<1>4. \E f : M(f)
  <2> HIDE DEF n
  <2> QED BY <1>1, <1>2, Making, Zenon
<1> HIDE DEF n, Body
<1>5. ASSUME NEW f, M(f) PROVE Is(f)
  <2>1. \A i \in 1..n : f[i] = IConvAt(f, enc, s, i)
    BY <1>3, <1>5, Zenon DEF Made
  <2>2. f = [i \in 1..n |-> f[i]]
    BY <1>5, Zenon DEF Made
  <2> QED BY <2>1, <2>2, Zenon
<1>6. ASSUME NEW f, Is(f) PROVE M(f)
  <2>1. f = [i \in 1..n |-> Body(f, i)]
    BY <1>6, Zenon DEF Body
  <2>2. \A i \in 1..n : f[i] = Body(f, i)
    BY <2>1, Zenon
  <2>3. f = [i \in 1..n |-> f[i]]
    BY <2>1, <2>2, Zenon
  <2>4. \A i \in 1..n : f[i] = IConvAt(f, enc, s, i)
    BY <2>2, Zenon DEF Body
  <2> QED BY <1>3, <2>3, <2>4, Zenon DEF Made
<1>7. IConv(enc, s) = (CHOOSE f : Is(f))[1]
  BY DEF IConv, IConvAt, n
<1> HIDE DEF Is, M
<1>8. \E f : M(f) /\ IConv(enc, s) = f[1]
  BY <1>4, <1>5, <1>6, <1>7, Zenon
<1> QED BY <1>8, Zenon DEF M, n

\* What iconv leaves are bytes.
LEMMA IConvBytes ==
  ASSUME NEW enc \in {"UTF-8", "ISO-8859-1"}, NEW s \in Seq(Nat)
  PROVE  IConv(enc, s) \in Seq(Byte)
<1>0. enc \in Encoding /\ Mark \in Byte /\ Len(s) + 1 \in Nat /\ 1 \in 1..Len(s) + 1
  BY SMT DEF Encoding, Mark, Byte
<1>1. \A x \in Scalar : Encode(enc, x) \in Seq(Byte)
  <2> TAKE x \in Scalar
  <2>1. EncodeCharUTF8(x) \in Seq(Byte)
    BY EncodeUTF8Type, Zenon
  <2>2. (IF x < 256 THEN <<x>> ELSE <<>>) \in Seq(Byte)
    <3>1. x < 256 => x \in Byte
      BY SMT DEF Byte, Scalar
    <3> QED BY <3>1, SMT
  <2> QED BY <2>1, <2>2, SMT DEF Encode
<1>2. \A i \in Taken(s) : /\ NextTaken(enc, s)[i] \in i + 1..Len(s) + 1
                          /\ PieceTaken(enc, s)[i] \in Seq(Byte)
  <2> TAKE i \in Taken(s)
  <2>1. NextTaken(enc, s)[i] \in i + 1..Len(s) + 1 /\ i \in 1..Len(s) /\ i \in 1..Len(s) + 1
    BY <1>0, TakenGoesOn, Zenon
  <2>2. <<Mark>> \in Seq(Byte)
    BY <1>0, SMT
  <2>3. ~Refused(enc, s, i) => Encode(enc, CharAt(s, i).code) \in Seq(Byte)
    BY <1>1, <2>1, CharAtGoesOn, Zenon DEF Refused
  <2> QED BY <2>1, <2>2, <2>3, Zenon DEF PieceTaken
<1>3. PICK f : /\ Made(f, Len(s) + 1, Taken(s), NextTaken(enc, s), PieceTaken(enc, s))
               /\ IConv(enc, s) = f[1]
  BY <1>0, IConvMade, Zenon
<1>4. Taken(s) \in SUBSET (1..Len(s) + 1)
  BY Zenon DEF Taken
<1>5. f[1] \in Seq(Byte)
  <2> DEFINE n == Len(s) + 1  D == Taken(s)
             next == NextTaken(enc, s)  piece == PieceTaken(enc, s)
  <2>1. n \in Nat /\ 1 \in 1..n /\ D \in SUBSET (1..n)
    BY <1>0, <1>4, Zenon
  <2>2. \A i \in D : next[i] \in i + 1..n /\ piece[i] \in Seq(Byte)
    BY <1>2, Zenon
  <2>3. Made(f, n, D, next, piece)
    BY <1>3, Zenon
  <2> HIDE DEF n, D, next, piece
  <2> QED BY <2>1, <2>2, <2>3, MadeOf
<1> QED BY <1>3, <1>5, Zenon

\* What it leaves of UTF-8 without nulls is a text without nulls.
LEMMA IConvText ==
  ASSUME NEW s \in Seq(NotZero(Byte))
  PROVE  \E c \in Seq(NotZero(Scalar)) : IConv("UTF-8", s) = Encoded("UTF-8", c)
<1> DEFINE enc == "UTF-8"  n == Len(s) + 1  C == NotZero(Scalar)
<1>0. /\ enc \in Encoding /\ s \in Seq(Nat)
      /\ n \in Nat /\ Len(s) \in Nat /\ 1 \in 1..n
  <2>1. s \in Seq(Nat)
    BY SmallSets, SeqMonotonic, Zenon
  <2> QED BY <2>1, SMT DEF Encoding
<1>1. \A x : Encode(enc, x) = EncodeCharUTF8(x)
  BY SMT DEF Encode
<1>2. \A i \in 1..Len(s) : s[i] \in NotZero(Byte)
  BY SMT
<1>3. Mark \in C /\ EncodeCharUTF8(Mark) = <<Mark>> /\ EncodeCharUTF8(0) = <<0>>
  BY SMT DEF Mark, NotZero, Scalar, IsScalar, IsCode, EncodeCharUTF8
<1>4. PICK f : /\ Made(f, n, Taken(s), NextTaken(enc, s), PieceTaken(enc, s))
               /\ IConv(enc, s) = f[1]
  BY <1>0, IConvMade, Zenon
<1>5. \A i \in 1..n : f[i] = IF i \in Taken(s) THEN PieceTaken(enc, s)[i] \o f[NextTaken(enc, s)[i]]
                             ELSE <<>>
  BY <1>4, Zenon DEF Made
<1>6. ASSUME NEW i \in Taken(s)
      PROVE  /\ NextTaken(enc, s)[i] \in i + 1..n
             /\ \E x \in C : PieceTaken(enc, s)[i] = EncodeCharUTF8(x)
  <2>1. NextTaken(enc, s)[i] \in i + 1..n /\ i \in 1..Len(s) /\ i \in 1..Len(s) + 1
    BY <1>0, TakenGoesOn, Zenon
  <2>2. CASE Refused(enc, s, i)
    <3>1. PieceTaken(enc, s)[i] = <<Mark>>
      BY <2>1, <2>2, Zenon DEF PieceTaken
    <3> QED BY <1>3, <2>1, <3>1, Zenon
  <2>3. CASE ~Refused(enc, s, i)
    <3> DEFINE x == CharAt(s, i).code  next == CharAt(s, i).next
    <3>1. x # Bad
      BY <2>3, Zenon DEF Refused
    <3>2. x \in Scalar /\ next \in i + 1..Len(s) + 1 /\ EncodeCharUTF8(x) = SubSeq(s, i, next - 1)
      BY <1>0, <2>1, <3>1, CharAtGoesOn, Zenon
    <3>3. PieceTaken(enc, s)[i] = EncodeCharUTF8(x)
      BY <1>1, <2>1, <2>3, Zenon DEF PieceTaken
    <3> HIDE DEF x, next
    <3>4. SubSeq(s, i, next - 1)[1] = s[i]
      BY <1>0, <2>1, <3>2, SMT
    <3>5. x # 0
      <4>1. SUFFICES ASSUME x = 0 PROVE FALSE
        OBVIOUS
      <4>2. s[i] = <<0>>[1]
        BY <1>3, <3>2, <3>4, <4>1, Zenon
      <4>3. s[i] = 0
        BY <4>2, SMT
      <4> QED BY <1>2, <2>1, <4>3, Zenon DEF NotZero
    <3>6. x \in C
      BY <3>2, <3>5, Zenon DEF NotZero
    <3> QED BY <2>1, <3>3, <3>6, Zenon
  <2> QED BY <2>2, <2>3
<1>7. <<>> \in Seq(C) /\ Encoded(enc, <<>>) = <<>>
  <2>1. <<>> \in Seq(C)
    BY SMT
  <2> QED BY <1>0, <2>1, EncodedEmpty, Zenon
<1> DEFINE T == {i \in 1..n : \E c \in Seq(C) : f[i] = Encoded(enc, c)}
<1> HIDE DEF n, C
<1>8. ASSUME NEW i \in 1..n, \A j \in i + 1..n : j \in T PROVE i \in T
  <2>1. CASE i \in Taken(s)
    <3>1. PICK x \in C : PieceTaken(enc, s)[i] = EncodeCharUTF8(x)
      BY <1>6, <2>1, Zenon
    <3>2. NextTaken(enc, s)[i] \in T
      <4> HIDE DEF T
      <4> QED BY <1>6, <1>8, <2>1, Zenon
    <3>3. PICK c \in Seq(C) : f[NextTaken(enc, s)[i]] = Encoded(enc, c)
      BY <3>2, Zenon
    <3>4. f[i] = EncodeCharUTF8(x) \o Encoded(enc, c)
      BY <1>5, <2>1, <3>1, <3>3, Zenon
    <3>5. x \in Scalar /\ c \in Seq(Scalar)
      <4>1. C \subseteq Scalar
        BY SmallSets, Zenon DEF C
      <4> QED BY <4>1, SeqMonotonic, Zenon
    <3>6. Encoded(enc, <<x>> \o c) = EncodeCharUTF8(x) \o Encoded(enc, c)
      <4>1. Encoded(enc, <<x>> \o c) = Encode(enc, x) \o Encoded(enc, c)
        BY <1>0, <3>5, EncodedCons, Zenon
      <4> QED BY <1>1, <4>1, Zenon
    <3>7. <<x>> \o c \in Seq(C)
      BY SMT
    <3>8. f[i] = Encoded(enc, <<x>> \o c)
      BY <3>4, <3>6, Zenon
    <3> QED BY <3>7, <3>8, Zenon
  <2>2. CASE i \notin Taken(s)
    <3>1. f[i] = Encoded(enc, <<>>)
      BY <1>5, <1>7, <2>2, Zenon
    <3> QED BY <1>7, <3>1, Zenon
  <2> QED BY <2>1, <2>2, Zenon
<1>9. 1 \in T
  <2> HIDE DEF T
  <2> QED BY <1>0, <1>8, Downward, Zenon
<1> QED BY <1>4, <1>9, Zenon DEF C

---------------------------------------------------------------------------
(* The codes of a text. *)

\* The codes that a loop over a text lists, from a place on.
Lists(f, n, m, next, code) ==
  f = [i \in 1..n |-> IF i > m THEN <<>> ELSE <<code[i]>> \o f[next[i]]]

\* The lists that the loops over a text make, and what is in them.
LEMMA Listing ==
  ASSUME NEW n \in Nat, NEW m \in Nat, m < n, NEW next, NEW code, NEW S \in SUBSET Nat,
         \A i \in 1..m : next[i] \in i + 1..n /\ code[i] \in S
  PROVE  /\ \E f : Lists(f, n, m, next, code)
         /\ \A f : Lists(f, n, m, next, code) => f[1] \in Seq(S)
<1> DEFINE D == 1..m  piece == [i \in D |-> <<code[i]>>]
           M(f) == Made(f, n, D, next, piece)
<1>1. D \in SUBSET (1..n) /\ 1 \in 1..n /\ \A i \in 1..n : i \in D <=> ~(i > m)
  BY SMT
<1>2. \A x \in S : <<x>> \in Seq(S)
  BY SMT
<1>3. \A i \in D : piece[i] = <<code[i]>> /\ piece[i] \in Seq(S) /\ next[i] \in i + 1..n
  BY <1>2, Zenon
<1>4. \A i \in D : next[i] \in i + 1..n /\ piece[i] \in Seq(Nat)
  BY <1>3, SeqMonotonic, Zenon
<1> HIDE DEF D, piece
<1>5. \E f : M(f)
  BY <1>1, <1>4, Making, Zenon
<1>6. ASSUME NEW f, M(f) PROVE Lists(f, n, m, next, code)
  <2>1. \A i \in 1..n : f[i] = IF i > m THEN <<>> ELSE <<code[i]>> \o f[next[i]]
    BY <1>1, <1>3, <1>6, Zenon DEF Made
  <2>2. f = [i \in 1..n |-> f[i]]
    BY <1>6, Zenon DEF Made
  <2> QED BY <2>1, <2>2, Zenon DEF Lists
<1>7. ASSUME NEW f, Lists(f, n, m, next, code) PROVE f[1] \in Seq(S)
  <2> DEFINE Here(i) == IF i > m THEN <<>> ELSE <<code[i]>> \o f[next[i]]
  <2>1. f = [i \in 1..n |-> Here(i)]
    BY <1>7, Zenon DEF Lists
  <2> HIDE DEF Here
  <2>2. \A i \in 1..n : f[i] = Here(i)
    BY <2>1, Zenon
  <2>3. f = [i \in 1..n |-> f[i]]
    BY <2>1, <2>2, Zenon
  <2>4. ASSUME NEW i \in 1..n PROVE f[i] = IF i \in D THEN piece[i] \o f[next[i]] ELSE <<>>
    BY <1>1, <1>3, <2>2, Zenon DEF Here
  <2>5. Made(f, n, D, next, piece)
    BY <2>3, <2>4, Zenon DEF Made
  <2>6. \A i \in D : next[i] \in i + 1..n /\ piece[i] \in Seq(S)
    BY <1>3, Zenon
  <2> QED BY <1>1, <2>5, <2>6, MadeOf
<1> QED BY <1>5, <1>6, <1>7, Zenon

\* A character of UTF-8 has a code, or is bad.
LEMMA UTF8Code ==
  ASSUME NEW s \in Seq(Nat), NEW i \in 1..Len(s)
  PROVE  OrMark(DecodeCharUTF8(s, i).code) \in Nat
<1> DEFINE n == Extra(s[i])  d == DecodeCharUTF8(s, i)
<1>1. n \in 0..3 /\ Len(s) \in Nat /\ s[i] \in Nat
  BY SMT DEF Extra
<1>2. \A x, y : Decoded(x, y).code = x
  BY SMT DEF Decoded
<1>3. \A x \in Nat : OrMark(x) \in Nat /\ OrMark(Bad) \in Nat
  BY SMT DEF OrMark, Bad, Mark
<1>4. CASE s[i] < 128
  <2>1. d.code = s[i]
    BY <1>2, <1>4, Zenon DEF DecodeCharUTF8
  <2> QED BY <1>1, <1>3, <2>1, Zenon
<1>5. CASE ~(s[i] < 128) /\ (n = 0 \/ ~Follow(s, i, n))
  <2>1. d.code = Bad
    BY <1>2, <1>5, Zenon DEF DecodeCharUTF8
  <2>2. 0 \in Nat
    BY SMT
  <2> QED BY <1>3, <2>1, <2>2, Zenon
<1>6. CASE ~(s[i] < 128) /\ n # 0 /\ Follow(s, i, n)
  <2> DEFINE b == s[i]  low(j) == s[i + j] % 64
             c == IF n = 1 THEN (b % 32) * 64 + low(1)
                  ELSE IF n = 2 THEN ((b % 16) * 64 + low(1)) * 64 + low(2)
                  ELSE (((b % 8) * 64 + low(1)) * 64 + low(2)) * 64 + low(3)
  <2>1. d.code = c
    <3>1. d = Decoded(c, i + 1 + n)
      BY <1>6, Zenon DEF DecodeCharUTF8
    <3> HIDE DEF c, d
    <3> QED BY <1>2, <3>1, Zenon
  <2>2. n = 1 \/ n = 2 \/ n = 3
    BY <1>1, <1>6, SMT
  <2> HIDE DEF n
  <2>3. \A j \in 1..n : i + j <= Len(s)
    BY <1>6, Zenon DEF Follow
  <2>4. \A j \in 1..n : i + j \in 1..Len(s)
    BY <1>1, <2>2, <2>3, SMT
  <2>5. \A j \in 1..n : s[i + j] \in Nat
    <3>1. \A k \in 1..Len(s) : s[k] \in Nat
      BY SMT
    <3> QED BY <2>4, <3>1, Zenon
  <2>6. \A x \in Nat : x % 64 \in Nat /\ x % 32 \in Nat /\ x % 16 \in Nat /\ x % 8 \in Nat
    BY SMT
  <2>7. \A j \in 1..n : low(j) \in Nat
    BY <2>5, <2>6, Zenon
  <2>8. b % 32 \in Nat /\ b % 16 \in Nat /\ b % 8 \in Nat
    BY <1>1, <2>6, Zenon
  <2>9. \A x, y \in Nat : x * 64 + y \in Nat
    BY SMT
  <2>10. 1 \in 1..n /\ (n # 1 => 2 \in 1..n) /\ (n = 3 => 3 \in 1..n)
    BY <2>2, SMT
  <2> HIDE DEF low
  <2>11. c \in Nat
    <3>1. CASE n = 1
      BY <2>7, <2>8, <2>9, <2>10, <3>1, Zenon
    <3>2. CASE n = 2
      <4>1. n # 1
        BY <3>2, SMT
      <4>2. (b % 16) * 64 + low(1) \in Nat
        BY <2>7, <2>8, <2>9, <2>10, Zenon
      <4>3. ((b % 16) * 64 + low(1)) * 64 + low(2) \in Nat
        BY <2>7, <2>9, <2>10, <4>1, <4>2, Zenon
      <4> QED BY <3>2, <4>1, <4>3, Zenon
    <3>3. CASE n = 3
      <4>1. n # 1 /\ n # 2
        BY <3>3, SMT
      <4>2. (b % 8) * 64 + low(1) \in Nat
        BY <2>7, <2>8, <2>9, <2>10, Zenon
      <4>3. ((b % 8) * 64 + low(1)) * 64 + low(2) \in Nat
        BY <2>7, <2>9, <2>10, <4>1, <4>2, Zenon
      <4>4. (((b % 8) * 64 + low(1)) * 64 + low(2)) * 64 + low(3) \in Nat
        BY <2>7, <2>9, <2>10, <3>3, <4>3, Zenon
      <4> QED BY <4>1, <4>4, Zenon
    <3> QED BY <2>2, <3>1, <3>2, <3>3
  <2> HIDE DEF c
  <2> QED BY <1>3, <2>1, <2>11, Zenon
<1> QED BY <1>4, <1>5, <1>6, Zenon

\* Whatever bytes UTF8To16 reads, it makes codes of them.
LEMMA CodesOfUTF8Type ==
  ASSUME NEW s \in Seq(Nat)
  PROVE  CodesOfUTF8(s) \in Seq(Nat)
<1> DEFINE m == Len(s)  n == 4 * m + 5
           next == [i \in 1..n |-> DecodeCharUTF8(s, i).next]
           code == [i \in 1..n |-> OrMark(DecodeCharUTF8(s, i).code)]
           Is(f) == f = [i \in 1..n |->
                          IF i > m THEN <<>>
                          ELSE LET d == DecodeCharUTF8(s, i) IN <<OrMark(d.code)>> \o f[d.next]]
<1>1. m \in Nat /\ n \in Nat /\ m < n /\ \A i \in 1..m : i \in 1..n
  BY SMT
<1>2. ASSUME NEW i \in 1..m PROVE next[i] \in i + 1..n /\ code[i] \in Nat
  <2>1. DecodeCharUTF8(s, i).next \in i + 1..m + 1 /\ code[i] \in Nat
    BY <1>1, UTF8GoesOn, UTF8Code, Zenon
  <2>2. \A k \in i + 1..m + 1 : k \in i + 1..n
    BY <1>1, SMT
  <2> HIDE DEF n
  <2> QED BY <1>1, <2>1, <2>2, Zenon
<1>3. CodesOfUTF8(s) = (CHOOSE f : Is(f))[1]
  BY DEF CodesOfUTF8
<1> HIDE DEF m, n
<1>4. \A f : Is(f) <=> Lists(f, n, m, next, code)
  BY Zenon DEF Lists
<1> HIDE DEF Is, next, code
<1>5. /\ \E f : Lists(f, n, m, next, code)
      /\ \A f : Lists(f, n, m, next, code) => f[1] \in Seq(Nat)
  BY <1>1, <1>2, Listing
<1> QED BY <1>3, <1>4, <1>5, Zenon

\* Of units without nulls UTF-16 makes characters, whatever they are.
LEMMA UTF16Code ==
  ASSUME NEW s \in Seq(NotZero(Unit)), NEW i \in 1..Len(s)
  PROVE  /\ DecodeCharUTF16(s, i).next \in i + 1..Len(s) + 1
         /\ OrMark(DecodeCharUTF16(s, i).code) \in NotZero(Scalar)
<1> DEFINE d == DecodeCharUTF16(s, i)  x == s[i]  y == s[i + 1]
<1>1. \A k \in 1..Len(s) : s[k] \in NotZero(Unit)
  BY SMT
<1>2. Len(s) \in Nat /\ i + 1 \in i + 1..Len(s) + 1
  BY SMT
<1>3. \A a, b : Decoded(a, b).code = a /\ Decoded(a, b).next = b
  BY SMT DEF Decoded
<1>4. OrMark(Bad) \in NotZero(Scalar)
  BY SMT DEF OrMark, Bad, Mark, NotZero, Scalar, IsScalar, IsCode
<1>5. \A a \in NotZero(Scalar) : OrMark(a) = a
  BY SMT DEF OrMark, Bad, NotZero, Scalar
<1>6. x \in NotZero(Unit)
  BY <1>1, Zenon
<1>7. CASE ~(x \div 2048 = 27)
  <2>1. d = Decoded(x, i + 1)
    BY <1>7, SMT DEF DecodeCharUTF16
  <2> HIDE DEF x
  <2>2. x \in NotZero(Scalar)
    BY <1>6, <1>7, SMT DEF NotZero, Unit, Scalar, IsScalar, IsCode
  <2>3. d.code = x /\ d.next = i + 1
    BY <1>3, <2>1, Zenon
  <2>4. OrMark(d.code) \in NotZero(Scalar)
    BY <1>5, <2>2, <2>3, Zenon
  <2>5. d.next \in i + 1..Len(s) + 1
    BY <1>2, <2>3, Zenon
  <2> QED BY <2>4, <2>5, Zenon
<1>8. CASE x \div 2048 = 27 /\ i = Len(s)
  <2>1. d = Decoded(Bad, i + 1)
    BY <1>8, SMT DEF DecodeCharUTF16
  <2>2. d.code = Bad /\ d.next = i + 1
    BY <1>3, <2>1, Zenon
  <2> QED BY <1>2, <1>4, <2>2, Zenon
<1>9. CASE x \div 2048 = 27 /\ i # Len(s)
  <2> DEFINE c == (x % 1024) * 1024 + (y % 1024) + 65536
  <2>1. i + 1 \in 1..Len(s) /\ i + 2 \in i + 1..Len(s) + 1
    BY <1>2, <1>9, SMT
  <2>2. y \in NotZero(Unit)
    BY <1>1, <2>1, Zenon
  <2>3. y # 0
    BY <2>2, Zenon DEF NotZero
  <2>4. d = Decoded(c, i + 2)
    BY <1>9, <2>3, SMT DEF DecodeCharUTF16
  <2> HIDE DEF x, y
  <2>5. x % 1024 \in Nat /\ x % 1024 < 1024 /\ y % 1024 \in Nat /\ y % 1024 < 1024
    BY <1>6, <2>2, SMT DEF NotZero, Unit
  <2>6. c \in NotZero(Scalar)
    BY <2>5, SMT DEF NotZero, Scalar, IsScalar, IsCode
  <2> HIDE DEF c
  <2>7. d.code = c /\ d.next = i + 2
    BY <1>3, <2>4, Zenon
  <2>8. OrMark(d.code) \in NotZero(Scalar)
    BY <1>5, <2>6, <2>7, Zenon
  <2>9. d.next \in i + 1..Len(s) + 1
    BY <2>1, <2>7, Zenon
  <2> QED BY <2>8, <2>9, Zenon
<1> QED BY <1>7, <1>8, <1>9

\* What UTF16To8 reads in units that are not null are characters that are not null: a surrogate
\* without its other half becomes a mark.
LEMMA CodesOfUTF16Type ==
  ASSUME NEW s \in Seq(NotZero(Unit))
  PROVE  CodesOfUTF16(s) \in Seq(NotZero(Scalar))
<1> DEFINE m == Len(s)  n == 2 * m + 3
           next == [i \in 1..n |-> DecodeCharUTF16(s, i).next]
           code == [i \in 1..n |-> OrMark(DecodeCharUTF16(s, i).code)]
           Is(f) == f = [i \in 1..n |->
                          IF i > m THEN <<>>
                          ELSE LET d == DecodeCharUTF16(s, i) IN <<OrMark(d.code)>> \o f[d.next]]
<1>1. m \in Nat /\ n \in Nat /\ m < n /\ \A i \in 1..m : i \in 1..n
  BY SMT
<1>2. ASSUME NEW i \in 1..m PROVE next[i] \in i + 1..n /\ code[i] \in NotZero(Scalar)
  <2>1. DecodeCharUTF16(s, i).next \in i + 1..m + 1 /\ code[i] \in NotZero(Scalar)
    BY <1>1, UTF16Code, Zenon
  <2>2. \A k \in i + 1..m + 1 : k \in i + 1..n
    BY <1>1, SMT
  <2> HIDE DEF n
  <2> QED BY <1>1, <2>1, <2>2, Zenon
<1>3. CodesOfUTF16(s) = (CHOOSE f : Is(f))[1]
  BY DEF CodesOfUTF16
<1> HIDE DEF m, n
<1>4. \A f : Is(f) <=> Lists(f, n, m, next, code)
  BY Zenon DEF Lists
<1>5. NotZero(Scalar) \in SUBSET Nat
  BY SmallSets, Zenon
<1> DEFINE S == NotZero(Scalar)
<1> HIDE DEF Is, next, code, S
<1>6. S \in SUBSET Nat /\ \A i \in 1..m : next[i] \in i + 1..n /\ code[i] \in S
  BY <1>2, <1>5, Zenon DEF S
<1>7. /\ \E f : Lists(f, n, m, next, code)
      /\ \A f : Lists(f, n, m, next, code) => f[1] \in Seq(S)
  BY <1>1, <1>6, Listing
<1> QED BY <1>3, <1>4, <1>7, Zenon DEF S

---------------------------------------------------------------------------
(* Null characters that are removed. *)

\* The buffer b of n places after k of them, when the last null so far is in front of the
\* place a and m nulls were found: what is not looked at yet is as in the file, the last
\* run has no null in it, and no null is left where runs were moved to.
Compact(s, S, k, b, a, m) ==
  /\ b \in [1..Len(s) -> S]
  /\ a \in Nat /\ m \in Nat /\ a <= k + 1 /\ m <= k
  /\ IF a = 0 THEN m = 0 ELSE m < a
  /\ \A j \in 1..Len(s) : j >= a => b[j] = s[j]
  /\ \A j \in 1..Len(s) : j <= k /\ j >= a => s[j] # 0
  /\ \A j \in 1..Len(s) : j + m < a => b[j] # 0
  /\ Len(s) # 0 /\ s[1] # 0 => b[1] = s[1] /\ (a # 0 => m + 1 < a)

\* A run of characters in front of the place p is moved to where it belongs.
MovedRun(b, a, m, p) == IF a # 0 /\ p # a THEN CopiedDown(b, a - m, a, p - a) ELSE b
Moved(s, S, p, m, v) ==
  /\ v \in [1..Len(s) -> S]
  /\ \A j \in 1..Len(s) : /\ j >= p => v[j] = s[j]
                          /\ j + m < p => v[j] # 0
  /\ Len(s) # 0 /\ s[1] # 0 => v[1] = s[1]

\* A run that is moved leaves no null in front of the place and nothing changed behind it.
LEMMA RunMovedSound ==
  ASSUME NEW S \in SUBSET Nat, NEW s \in Seq(S), NEW p \in 1..Len(s) + 1,
         NEW b, NEW a, NEW m, Compact(s, S, p - 1, b, a, m)
  PROVE  Moved(s, S, p, m, MovedRun(b, a, m, p))
<1> DEFINE n == Len(s)  v == MovedRun(b, a, m, p)
<1>0. n \in Nat /\ \A j \in 1..n : s[j] \in S
  BY SMT
<1>1. /\ b \in [1..n -> S] /\ a \in Nat /\ m \in Nat /\ a <= p /\ m < p
      /\ (a = 0 => m = 0) /\ (a # 0 => m < a)
  BY <1>0, SMT DEF Compact
<1>2. /\ \A j \in 1..n : j >= a => b[j] = s[j]
      /\ \A j \in 1..n : j + m < a => b[j] # 0
  BY Zenon DEF Compact
<1>3. \A j \in 1..n : j < p /\ j >= a => s[j] # 0
  <2>1. \A j \in 1..n : j <= p - 1 /\ j >= a => s[j] # 0
    BY Zenon DEF Compact
  <2>2. \A j \in 1..n : j < p => j <= p - 1
    BY <1>0, SMT
  <2> QED BY <2>1, <2>2, Zenon
<1>4. n # 0 /\ s[1] # 0 => b[1] = s[1] /\ (a # 0 => m + 1 < a)
  BY Zenon DEF Compact
<1> HIDE DEF n
<1>5. CASE ~(a # 0 /\ p # a)
  <2>1. v = b
    BY <1>5, Zenon DEF MovedRun
  <2> HIDE DEF v
  <2>2. ASSUME NEW j \in 1..n
        PROVE  (j >= p => v[j] = s[j]) /\ (j + m < p => v[j] # 0)
    <3>1. j >= p => j >= a
      BY <1>0, <1>1, SMT
    <3>2. j >= p => b[j] = s[j]
      BY <1>2, <3>1, Zenon
    <3>3. CASE a = 0
      <4>1. j >= a /\ (j + m < p => j < p)
        BY <1>1, <3>3, SMT
      <4>2. j + m < p => b[j] # 0
        BY <1>2, <1>3, <4>1, Zenon
      <4> QED BY <2>1, <3>2, <4>2, Zenon
    <3>4. CASE a # 0
      <4>1. p = a
        BY <1>5, <3>4, Zenon
      <4> QED BY <1>2, <2>1, <3>2, <4>1, Zenon
    <3> QED BY <3>3, <3>4
  <2> QED BY <1>1, <1>4, <2>1, <2>2, Zenon DEF Moved, n, v
<1>6. CASE a # 0 /\ p # a
  <2> DEFINE dst == a - m  cnt == p - a
  <2>1. DOMAIN b = 1..n
    BY <1>1
  <2>2. v = [j \in 1..n |-> IF j \in dst..dst + cnt - 1 THEN b[j + a - dst] ELSE b[j]]
    BY <1>6, <2>1, Zenon DEF CopiedDown, MovedRun
  <2> HIDE DEF v
  <2>3. ASSUME NEW j \in 1..n
        PROVE  /\ j \in dst..dst + cnt - 1 <=> (j + m >= a /\ j + m < p)
               /\ j + a - dst = j + m
               /\ j + m >= a /\ j + m < p => j + m \in 1..n
               /\ j >= p => ~(j + m < p)
               /\ ~(j + m >= a) => j + m < a
               /\ j >= p => j >= a
    BY <1>0, <1>1, SMT DEF n
  <2>4. ASSUME NEW j \in 1..n
        PROVE  v[j] = IF j + m >= a /\ j + m < p THEN b[j + m] ELSE b[j]
    <3> HIDE DEF dst, cnt
    <3> QED BY <2>2, <2>3, Zenon
  <2> HIDE DEF dst, cnt
  <2>5. ASSUME NEW j \in 1..n
        PROVE  /\ v[j] \in S
               /\ j >= p => v[j] = s[j]
               /\ j + m < p => v[j] # 0
    <3>1. CASE j + m >= a /\ j + m < p
      <4>1. v[j] = b[j + m] /\ j + m \in 1..n
        BY <2>3, <2>4, <3>1, Zenon
      <4>2. b[j + m] = s[j + m] /\ s[j + m] # 0
        BY <1>2, <1>3, <3>1, <4>1, Zenon
      <4> QED BY <1>0, <2>3, <3>1, <4>1, <4>2, Zenon
    <3>2. CASE ~(j + m >= a /\ j + m < p)
      <4>1. v[j] = b[j] /\ b[j] \in S
        BY <1>1, <2>4, <3>2, Zenon
      <4> QED BY <1>2, <2>3, <3>2, <4>1, Zenon
    <3> QED BY <3>1, <3>2
  <2>6. v \in [1..n -> S]
    BY <2>2, <2>5, Zenon
  <2>7. ASSUME n # 0, s[1] # 0 PROVE v[1] = s[1]
    <3>1. 1 \in 1..n /\ ~(1 + m >= a)
      BY <1>0, <1>1, <1>4, <1>6, <2>7, SMT
    <3> QED BY <1>4, <2>4, <2>7, <3>1, Zenon
  <2> QED BY <2>5, <2>6, <2>7, Zenon DEF Moved, n, v
<1> QED BY <1>5, <1>6

\* The scan goes on by a place.
Scanned(r, k) ==
  IF r.buf[k] # 0 THEN r
  ELSE [buf |-> RunMoved(r, k), after |-> k + 1, nulls |-> r.nulls + 1]

\* A state of the scan that is compact.
SoundScan(s, S, k, r) ==
  /\ r = [buf |-> r.buf, after |-> r.after, nulls |-> r.nulls]
  /\ Compact(s, S, k, r.buf, r.after, r.nulls)

\* A step of the scan for nulls keeps the buffer compact.
LEMMA ScannedSound ==
  ASSUME NEW S \in SUBSET Nat, NEW s \in Seq(S), NEW p \in 1..Len(s), NEW r,
         SoundScan(s, S, p - 1, r)
  PROVE  SoundScan(s, S, p, Scanned(r, p))
<1> DEFINE n == Len(s)  b == r.buf  a == r.after  m == r.nulls  v == RunMoved(r, p)
           q == Scanned(r, p)
<1>0. n \in Nat /\ p \in 1..n /\ p \in 1..n + 1
  BY SMT
<1>1. Compact(s, S, p - 1, b, a, m) /\ r = [buf |-> b, after |-> a, nulls |-> m]
  BY Zenon DEF SoundScan
<1>2. v = MovedRun(b, a, m, p)
  BY Zenon DEF RunMoved, MovedRun
<1> HIDE DEF n, b, a, m, v
<1>3. /\ v \in [1..n -> S]
      /\ \A j \in 1..n : (j >= p => v[j] = s[j]) /\ (j + m < p => v[j] # 0)
      /\ n # 0 /\ s[1] # 0 => v[1] = s[1]
  <2>1. p \in 1..Len(s) + 1 /\ Compact(s, S, p - 1, b, a, m)
    BY <1>0, <1>1, Zenon DEF n
  <2>2. Moved(s, S, p, m, MovedRun(b, a, m, p))
    BY <2>1, RunMovedSound, Zenon
  <2> QED BY <1>2, <2>2, Zenon DEF Moved, n
<1>4. /\ b \in [1..n -> S] /\ a \in Nat /\ m \in Nat /\ a <= p /\ m < p
      /\ (a = 0 => m = 0) /\ (a # 0 => m < a)
  BY <1>0, <1>1, SMT DEF Compact, n
<1>5. /\ \A j \in 1..n : j >= a => b[j] = s[j]
      /\ \A j \in 1..n : j + m < a => b[j] # 0
      /\ n # 0 /\ s[1] # 0 => b[1] = s[1] /\ (a # 0 => m + 1 < a)
      /\ \A j \in 1..n : j <= p - 1 /\ j >= a => s[j] # 0
  BY <1>1, Zenon DEF Compact, n
<1>6. b[p] = s[p]
  BY <1>0, <1>4, <1>5, SMT
<1>7. CASE b[p] # 0
  <2>1. q = r
    BY <1>7, Zenon DEF Scanned, b
  <2>2. \A j \in 1..n : j <= p /\ j >= a => s[j] # 0
    <3> TAKE j \in 1..n
    <3>1. j <= p => j <= p - 1 \/ j = p
      BY <1>0, SMT
    <3> QED BY <1>5, <1>6, <1>7, <3>1, Zenon
  <2>3. a <= p + 1 /\ m <= p /\ IF a = 0 THEN m = 0 ELSE m < a
    BY <1>0, <1>4, SMT
  <2>4. Compact(s, S, p, b, a, m)
    BY <1>4, <1>5, <2>2, <2>3, Zenon DEF Compact, n
  <2> QED BY <1>1, <2>1, <2>4, Zenon DEF SoundScan, b, a, m
<1>8. CASE b[p] = 0
  <2>1. q = [buf |-> v, after |-> p + 1, nulls |-> m + 1]
    BY <1>8, Zenon DEF Scanned, b, v, m
  <2>2. q.buf = v /\ q.after = p + 1 /\ q.nulls = m + 1
    BY <2>1
  <2>3. \A j \in 1..n : /\ j >= p + 1 => v[j] = s[j]
                        /\ j <= p /\ j >= p + 1 => s[j] # 0
                        /\ j + (m + 1) < p + 1 => v[j] # 0
    <3> TAKE j \in 1..n
    <3>1. /\ j >= p + 1 => j >= p
          /\ ~(j <= p /\ j >= p + 1)
          /\ j + (m + 1) < p + 1 => j + m < p
      BY <1>0, <1>4, SMT
    <3> QED BY <1>3, <3>1, Zenon
  <2>4. ASSUME n # 0, s[1] # 0 PROVE v[1] = s[1] /\ m + 1 + 1 < p + 1
    <3>1. v[1] = s[1]
      BY <1>3, <2>4, Zenon
    <3>2. p # 1
      BY <1>6, <1>8, <2>4, Zenon
    <3>3. m + 1 + 1 < p + 1
      BY <1>0, <1>4, <1>5, <2>4, <3>2, SMT
    <3> QED BY <3>1, <3>3
  <2>5. /\ p + 1 \in Nat /\ m + 1 \in Nat /\ p + 1 <= p + 1
        /\ m + 1 <= p /\ p + 1 # 0 /\ m + 1 < p + 1
    BY <1>0, <1>4, SMT
  <2>6. Compact(s, S, p, v, p + 1, m + 1)
    BY <1>3, <2>3, <2>4, <2>5, Zenon DEF Compact, n
  <2> HIDE DEF q
  <2>7. SoundScan(s, S, p, q)
    BY <2>1, <2>2, <2>6, Zenon DEF SoundScan
  <2> QED BY <2>7, Zenon DEF q
<1> QED BY <1>7, <1>8, Zenon

\* The states of the scan over a buffer.
ScanFrom(u, s) ==
  u = [k \in 0..Len(s) |-> IF k = 0 THEN [buf |-> s, after |-> 0, nulls |-> 0]
                           ELSE Scanned(u[k - 1], k)]

\* Every state of the scan is sound.
LEMMA ScanSound ==
  ASSUME NEW S \in SUBSET Nat, NEW s \in Seq(S), NEW u,
         u[0] = [buf |-> s, after |-> 0, nulls |-> 0],
         \A k \in 1..Len(s) : SoundScan(s, S, k - 1, u[k - 1]) => u[k] = Scanned(u[k - 1], k)
  PROVE  \A k \in 0..Len(s) : SoundScan(s, S, k, u[k])
<1> DEFINE n == Len(s)  T == {k \in 0..n : SoundScan(s, S, k, u[k])}  r == u[0]
<1>0. n \in Nat /\ s \in [1..n -> S] /\ 0 \in 0..n
  BY SMT
<1>1. r.buf = s /\ r.after = 0 /\ r.nulls = 0
  BY SMT
<1>2. Compact(s, S, 0, s, 0, 0)
  <2>1. \A j \in 1..n : ~(j <= 0) /\ ~(j + 0 < 0)
    BY SMT
  <2>2. 0 \in Nat /\ 0 <= 0 + 1 /\ 0 <= 0
    BY SMT
  <2> QED BY <1>0, <2>1, <2>2, Zenon DEF Compact
<1>3. SoundScan(s, S, 0, r)
  BY <1>1, <1>2, Zenon DEF SoundScan
<1>4. 0 \in T
  <2> HIDE DEF n
  <2> QED BY <1>0, <1>3, Zenon
<1>5. ASSUME NEW k \in 0..n - 1, k \in T PROVE k + 1 \in T
  <2>1. k + 1 \in 1..n /\ k + 1 \in 0..n /\ (k + 1) - 1 = k
    BY <1>0, SMT
  <2>2. SoundScan(s, S, k, u[k])
    BY <1>5
  <2> DEFINE p == k + 1
  <2>3. p \in 1..Len(s) /\ SoundScan(s, S, p - 1, u[k])
    BY <2>1, <2>2, Zenon
  <2>4. u[p] = Scanned(u[k], p)
    <3>1. SoundScan(s, S, p - 1, u[p - 1]) => u[p] = Scanned(u[p - 1], p)
      BY <2>3
    <3> HIDE DEF n
    <3> QED BY <2>1, <2>2, <3>1, Zenon
  <2> HIDE DEF p
  <2>5. SoundScan(s, S, p, u[p])
    BY <2>3, <2>4, ScannedSound, Zenon
  <2> HIDE DEF n
  <2> QED BY <2>1, <2>5, Zenon DEF p
<1>6. \A k \in 0..n : k \in T
  <2> HIDE DEF T, n
  <2> QED BY <1>0, <1>4, <1>5, Upward, Zenon
<1> QED BY <1>6, Zenon

\* There are such states.
LEMMA ScanDefined ==
  ASSUME NEW S \in SUBSET Nat, NEW s \in Seq(S)
  PROVE  \E u : ScanFrom(u, s)
<1> DEFINE n == Len(s)  b == [buf |-> s, after |-> 0, nulls |-> 0]
           R == [buf : [1..n -> S], after : Nat, nulls : Nat]
           F == [k \in 1..n |-> [r \in R |-> Scanned(r, k)]]
<1>0. n \in Nat
  BY SMT
<1> HIDE DEF b, F, n
<1>1. PICK u : Chained(u, n, b, F)
  BY <1>0, Forward, Zenon
<1>2. u = [k \in 0..n |-> u[k]] /\ u[0] = b /\ \A k \in 1..n : u[k] = F[k][u[k - 1]]
  BY <1>1, Zenon DEF Chained
<1>3. ASSUME NEW r, NEW k, SoundScan(s, S, k, r) PROVE r \in R
  <2>1. r = [buf |-> r.buf, after |-> r.after, nulls |-> r.nulls]
    BY <1>3, Zenon DEF SoundScan
  <2>2. r.buf \in [1..n -> S] /\ r.after \in Nat /\ r.nulls \in Nat
    BY <1>3, Zenon DEF SoundScan, Compact, n
  <2> DEFINE x == r.buf  y == r.after  z == r.nulls
  <2> HIDE DEF x, y, z
  <2>3. [buf |-> x, after |-> y, nulls |-> z] \in R
    BY <2>2, SMT DEF x, y, z
  <2> QED BY <2>1, <2>3, Zenon DEF x, y, z
<1>4. ASSUME NEW k \in 1..n, SoundScan(s, S, k - 1, u[k - 1]) PROVE u[k] = Scanned(u[k - 1], k)
  <2>1. u[k - 1] \in R
    BY <1>3, <1>4, Zenon
  <2> HIDE DEF R
  <2> QED BY <1>2, <2>1, Zenon DEF F
<1>5. \A k \in 0..n : SoundScan(s, S, k, u[k])
  BY <1>2, <1>4, ScanSound, Zenon DEF b, n
<1>6. \A k \in 0..n : u[k] = IF k = 0 THEN b ELSE Scanned(u[k - 1], k)
  <2> TAKE k \in 0..n
  <2>1. k # 0 => k \in 1..n /\ k - 1 \in 0..n
    BY <1>0, SMT
  <2> QED BY <1>2, <1>4, <1>5, <2>1, Zenon
<1> QED BY <1>2, <1>6, Zenon DEF ScanFrom, b, n

\* No null is left, and the first character of a text that begins with none stays.
LEMMA NullsRemovedSound ==
  ASSUME NEW S \in SUBSET Nat, NEW s \in Seq(S)
  PROVE  /\ NullsRemoved(s) \in Seq(NotZero(S))
         /\ s # <<>> /\ s[1] # 0 => NullsRemoved(s) # <<>> /\ NullsRemoved(s)[1] = s[1]
<1> DEFINE n == Len(s)  u == CHOOSE u : ScanFrom(u, s)  end == u[n]
           b == end.buf  a == end.after  m == end.nulls  p == n + 1
           v == RunMoved(end, p)
<1>0. n \in Nat /\ n \in 0..n /\ p \in 1..Len(s) + 1 /\ p - 1 = n
  BY SMT
<1>1. NullsRemoved(s) = SubSeq(v, 1, n - m)
  BY DEF NullsRemoved, ScanFrom, Scanned
<1> HIDE DEF u
<1>2. ScanFrom(u, s)
  BY ScanDefined, Zenon DEF u
<1> HIDE DEF n
<1>3. /\ u[0] = [buf |-> s, after |-> 0, nulls |-> 0]
      /\ \A k \in 1..n : u[k] = Scanned(u[k - 1], k)
  <2> DEFINE Here(k) == IF k = 0 THEN [buf |-> s, after |-> 0, nulls |-> 0]
                        ELSE Scanned(u[k - 1], k)
  <2>1. u = [k \in 0..n |-> Here(k)]
    BY <1>2, Zenon DEF ScanFrom, n
  <2>2. 0 \in 0..n /\ \A k \in 1..n : k \in 0..n /\ k # 0
    BY <1>0, SMT
  <2> HIDE DEF Here
  <2>3. u[0] = Here(0) /\ \A k \in 1..n : u[k] = Here(k)
    BY <2>1, <2>2, Zenon
  <2> QED BY <2>2, <2>3, Zenon DEF Here
<1>4. SoundScan(s, S, n, end)
  <2>1. \A k \in 0..n : SoundScan(s, S, k, u[k])
    BY <1>3, ScanSound, Zenon DEF n
  <2> QED BY <1>0, <2>1, Zenon
<1>5. Compact(s, S, p - 1, b, a, m)
  BY <1>0, <1>4, Zenon DEF SoundScan
<1>6. v = MovedRun(b, a, m, p)
  BY Zenon DEF RunMoved, MovedRun
<1> HIDE DEF b, a, m, v, end
<1>7. Moved(s, S, p, m, v)
  BY <1>0, <1>5, <1>6, RunMovedSound
<1>8. /\ v \in [1..n -> S] /\ \A j \in 1..n : j + m < p => v[j] # 0
      /\ n # 0 /\ s[1] # 0 => v[1] = s[1]
  BY <1>7, Zenon DEF Moved, n
<1>9. /\ m \in Nat /\ m <= n /\ a \in Nat /\ a <= p
      /\ (a = 0 => m = 0) /\ (n # 0 /\ s[1] # 0 /\ a # 0 => m + 1 < a)
  BY <1>0, <1>5, SMT DEF Compact, n
<1> DEFINE t == SubSeq(v, 1, n - m)
<1>10. v \in Seq(S) /\ Len(v) = n
  BY <1>0, <1>8, SMT
<1>11. t \in Seq(S) /\ Len(t) = n - m /\ \A j \in 1..n - m : t[j] = v[j]
  BY <1>0, <1>9, <1>10, SMT
<1>12. \A j \in 1..n - m : j \in 1..n /\ j + m < p
  BY <1>0, <1>9, SMT
<1> HIDE DEF t
<1>13. \A j \in 1..Len(t) : t[j] \in NotZero(S)
  <2> TAKE j \in 1..Len(t)
  <2>1. j \in 1..n - m
    BY <1>11
  <2>2. t[j] # 0
    BY <1>8, <1>11, <1>12, <2>1, Zenon
  <2>3. t[j] \in S
    BY <1>11
  <2> QED BY <2>2, <2>3, Zenon DEF NotZero
<1>14. t \in Seq(NotZero(S))
  BY <1>11, <1>13, SMT
<1>15. ASSUME s # <<>>, s[1] # 0 PROVE t # <<>> /\ t[1] = s[1]
  <2>1. n # 0
    <3>1. Len(s) = 0 => s = <<>>
      BY SMT
    <3> QED BY <1>15, <3>1, Zenon DEF n
  <2>2. m < n
    <3>1. CASE a = 0
      BY <1>0, <1>9, <2>1, <3>1, SMT
    <3>2. CASE a # 0
      <4>1. m + 1 < a
        BY <1>9, <1>15, <2>1, <3>2, Zenon
      <4> QED BY <1>0, <1>9, <4>1, SMT
    <3> QED BY <3>1, <3>2
  <2>3. 1 \in 1..n - m /\ Len(t) # 0
    BY <1>0, <1>9, <1>11, <2>2, SMT
  <2>4. t[1] = s[1]
    BY <1>8, <1>11, <1>15, <2>1, <2>3, Zenon
  <2>5. Len(<<>>) = 0
    BY SMT
  <2> QED BY <2>3, <2>4, <2>5, Zenon
<1> QED BY <1>1, <1>14, <1>15, Zenon DEF t

---------------------------------------------------------------------------
(* Units and bytes. *)

\* The two ways to write the bytes.
LEMMA ByteIs == Byte = 0..255
  BY SMT DEF Byte

\* The units of a text in 16 bits are units.
LEMMA UnitsOfType ==
  ASSUME NEW s \in Seq(Byte)
  PROVE  UnitsOf(s) \in Seq(Unit)
<1> DEFINE n == Len(s) \div 2  u == UnitsOf(s)
<1>1. n \in Nat /\ \A k \in 1..n : 2 * k - 1 \in 1..Len(s) /\ 2 * k \in 1..Len(s)
  <2>1. Len(s) \in Nat
    BY SMT
  <2> QED BY <2>1, SMT
<1>2. \A j \in 1..Len(s) : s[j] \in Byte
  BY SMT
<1>3. \A x, y \in Byte : x + 256 * y \in Unit
  BY SMT DEF Byte, Unit
<1>4. u = [k \in 1..n |-> s[2 * k - 1] + 256 * s[2 * k]]
  BY DEF UnitsOf
<1> HIDE DEF n, u
<1>5. \A k \in 1..n : s[2 * k - 1] + 256 * s[2 * k] \in Unit
  BY <1>1, <1>2, <1>3, Zenon
<1>6. u \in [1..n -> Unit]
  BY <1>4, <1>5, Zenon
<1>7. u \in Seq(Unit)
  BY <1>1, <1>6, SMT
<1> QED BY <1>7, Zenon DEF u

\* Swapping the bytes of units makes units, and no null where there was none.
LEMMA SwappedType ==
  /\ \A u \in Seq(Unit) : Swapped(u) \in Seq(Unit)
  /\ \A u \in Seq(NotZero(Unit)) : Swapped(u) \in Seq(NotZero(Unit))
<1>1. \A x \in Unit : (x % 256) * 256 + x \div 256 \in Unit
  BY SMT DEF Unit
<1>2. \A x \in NotZero(Unit) : (x % 256) * 256 + x \div 256 \in NotZero(Unit)
  BY SMT DEF Unit, NotZero
<1>3. ASSUME NEW S, \A x \in S : (x % 256) * 256 + x \div 256 \in S, NEW u \in Seq(S)
      PROVE  Swapped(u) \in Seq(S)
  <2> DEFINE n == Len(u)  w == Swapped(u)
  <2>1. n \in Nat /\ DOMAIN u = 1..n /\ \A k \in 1..n : u[k] \in S
    BY SMT
  <2> HIDE DEF n
  <2>2. w \in [1..n -> S]
    BY <1>3, <2>1, Zenon DEF Swapped
  <2> HIDE DEF w
  <2>3. w \in Seq(S)
    BY <2>1, <2>2, SMT
  <2> QED BY <2>3, Zenon DEF w
<1> QED BY <1>1, <1>2, <1>3, Zenon

\* The bytes of units are bytes.
LEMMA BytesOfType ==
  ASSUME NEW u \in Seq(Unit)
  PROVE  BytesOf(u) \in Seq(Byte)
<1> DEFINE n == 2 * Len(u)  b == BytesOf(u)
<1>1. n \in Nat
  BY SMT
<1>2. \A k \in 1..n : /\ k % 2 = 1 => (k + 1) \div 2 \in 1..Len(u)
                      /\ k % 2 # 1 => k \div 2 \in 1..Len(u)
  <2>1. Len(u) \in Nat
    BY SMT
  <2> QED BY <2>1, SMT
<1>3. \A j \in 1..Len(u) : u[j] \in Unit
  BY SMT
<1>4. \A x \in Unit : x % 256 \in Byte /\ x \div 256 \in Byte
  BY SMT DEF Byte, Unit
<1>5. b = [k \in 1..n |-> IF k % 2 = 1 THEN u[(k + 1) \div 2] % 256 ELSE u[k \div 2] \div 256]
  BY DEF BytesOf
<1> HIDE DEF n, b
<1>6. b \in [1..n -> Byte]
  <2>1. \A k \in 1..n :
          (IF k % 2 = 1 THEN u[(k + 1) \div 2] % 256 ELSE u[k \div 2] \div 256) \in Byte
    <3> TAKE k \in 1..n
    <3>1. CASE k % 2 = 1
      <4>1. u[(k + 1) \div 2] % 256 \in Byte
        BY <1>2, <1>3, <1>4, <3>1, Zenon
      <4> QED BY <3>1, <4>1, Zenon
    <3>2. CASE k % 2 # 1
      <4>1. u[k \div 2] \div 256 \in Byte
        BY <1>2, <1>3, <1>4, <3>2, Zenon
      <4> QED BY <3>2, <4>1, Zenon
    <3> QED BY <3>1, <3>2, Zenon
  <2> QED BY <1>5, <2>1, Zenon
<1>7. b \in Seq(Byte)
  BY <1>1, <1>6, SMT
<1> QED BY <1>7, Zenon DEF b

\* A text in memory becomes units.
LEMMA ToUnitsType ==
  ASSUME NEW s \in Seq(Nat)
  PROVE  ToUnits(s) \in Seq(Unit)
<1> DEFINE c == CodesOfUTF8(s)  n == Len(c)  u == [k \in DOMAIN c |-> c[k] % 65536]
<1>1. c \in Seq(Nat)
  BY CodesOfUTF8Type
<1> HIDE DEF c
<1>2. n \in Nat /\ DOMAIN c = 1..n /\ \A k \in 1..n : c[k] \in Nat
  BY <1>1, SMT
<1>3. \A x \in Nat : x % 65536 \in Unit
  BY SMT DEF Unit
<1> HIDE DEF n
<1>4. \A k \in 1..n : c[k] % 65536 \in Unit
  BY <1>2, <1>3
<1>5. u \in [1..n -> Unit]
  BY <1>2, <1>4
<1>6. u \in Seq(Unit)
  <2> HIDE DEF u
  <2> QED BY <1>2, <1>5, SMT
<1> QED BY <1>6 DEF ToUnits, c

---------------------------------------------------------------------------
(* What is read from a file and written to one. *)

\* Bytes that are UTF-8 and hold no null: what the parser expects.
IsText(t) == t \in Seq(Byte) /\ 0 \notin ToSet(t) /\ IsUTF8(t)

\* Bytes other than null.
LEMMA NoNulls ==
  ASSUME NEW t \in Seq(NotZero(Byte))
  PROVE  t \in Seq(Byte) /\ 0 \notin ToSet(t)
<1>1. t \in Seq(Byte)
  BY SmallSets, SeqMonotonic, Zenon
<1>2. \A k \in DOMAIN t : t[k] \in NotZero(Byte)
  BY SMT
<1>3. \A k \in DOMAIN t : t[k] # 0
  BY <1>2, Zenon DEF NotZero
<1> QED BY <1>1, <1>3, Zenon DEF ToSet

\* Characters other than null are written in UTF-8 as such a text.
LEMMA EncodedText ==
  ASSUME NEW c \in Seq(NotZero(Scalar))
  PROVE  IsText(Encoded("UTF-8", c))
BY EncodedBytes, NoNulls, Zenon DEF IsText

\* The three cases of the conversion of 8-bit text (FileReadText).
LEMMA ToMemoryIs ==
  \A r : /\ ToMemory("UTF-8", r) = IConv("UTF-8", r)
         /\ ToMemory("ISO-8859-1", r) = Encoded("UTF-8", r)
         /\ ToMemory("other", r) = r
<1> TAKE r
<1>1. ToMemory("UTF-8", r) = IConv("UTF-8", r)
  BY DEF ToMemory
<1>2. ToMemory("ISO-8859-1", r) = Encoded("UTF-8", r)
  BY DEF ToMemory
<1>3. ToMemory("other", r) = r
  BY DEF ToMemory
<1> QED BY <1>1, <1>2, <1>3

\* In 16 bits, or in an encoding that a declaration may name.
ReadAs(f, enc) == f \cap {"LE", "BE"} # {} \/ enc \in {"", "UTF-8", "ISO-8859-1", "other"}

\* Whatever is read from a file is a text, unless its declaration names an encoding that nobody
\* knows: then it is what the file holds, without the nulls.
LEMMA ReadTextSound ==
  ASSUME NEW s \in Seq(Byte), NEW f, NEW enc, ReadAs(f, enc)
  PROVE  LET t == ReadText(s, f, enc)
         IN \/ IsText(t)
            \/ /\ enc = "other" /\ t \in Seq(Byte) /\ 0 \notin ToSet(t)
               /\ s # <<>> /\ (s[1] # 0 => t # <<>> /\ t[1] = s[1])
<1> DEFINE t == ReadText(s, f, enc)
<1>0. Byte \in SUBSET Nat /\ Unit \in SUBSET Nat
  BY SmallSets, Zenon
<1>1. CASE s = <<>>
  <2>1. <<>> \in Seq(NotZero(Scalar)) /\ "UTF-8" \in Encoding
    <3>1. <<>> \in Seq(NotZero(Scalar))
      BY SMT
    <3>2. "UTF-8" \in Encoding
      BY SMT DEF Encoding
    <3> QED BY <3>1, <3>2
  <2>2. t = Encoded("UTF-8", <<>>)
    BY <1>1, <2>1, EncodedEmpty, Zenon DEF ReadText
  <2> QED BY <2>1, <2>2, EncodedText, Zenon
<1>2. CASE s # <<>> /\ f \cap {"LE", "BE"} # {}
  <2> DEFINE u == NullsRemoved(UnitsOf(s))  w == IF EndianSwapRequired(f) THEN Swapped(u) ELSE u
  <2>1. u \in Seq(NotZero(Unit))
    BY <1>0, UnitsOfType, NullsRemovedSound, Zenon
  <2>2. w \in Seq(NotZero(Unit))
    BY <2>1, SwappedType, Zenon
  <2>3. t = Encoded("UTF-8", CodesOfUTF16(w))
    BY <1>2, Zenon DEF ReadText
  <2> HIDE DEF u, w
  <2> QED BY <2>2, <2>3, CodesOfUTF16Type, EncodedText, Zenon
<1>3. CASE s # <<>> /\ ~(f \cap {"LE", "BE"} # {})
  <2> DEFINE r == NullsRemoved(s)
  <2>1. /\ r \in Seq(NotZero(Byte)) /\ (s[1] # 0 => r # <<>> /\ r[1] = s[1])
    BY <1>0, <1>3, NullsRemovedSound, Zenon
  <2> HIDE DEF r
  <2>2. t = ToMemory(IF enc = "" THEN "UTF-8" ELSE enc, r)
    BY <1>3, Zenon DEF ReadText, r
  <2>3. CASE enc \in {"", "UTF-8"}
    <3>1. t = IConv("UTF-8", r)
      <4>1. (IF enc = "" THEN "UTF-8" ELSE enc) = "UTF-8"
        BY <2>3, Zenon
      <4> QED BY <2>2, <4>1, ToMemoryIs, Zenon
    <3> QED BY <2>1, <3>1, IConvText, EncodedText, Zenon
  <2>4. CASE enc = "ISO-8859-1"
    <3>1. t = Encoded("UTF-8", r)
      <4>1. (IF enc = "" THEN "UTF-8" ELSE enc) = "ISO-8859-1"
        BY <2>4, SMT
      <4> QED BY <2>2, <4>1, ToMemoryIs, Zenon
    <3>2. NotZero(Byte) \subseteq NotZero(Scalar)
      BY SMT DEF NotZero, Byte, Scalar, IsScalar, IsCode
    <3>3. r \in Seq(NotZero(Scalar))
      BY <2>1, <3>2, SeqMonotonic, Zenon
    <3> QED BY <3>1, <3>3, EncodedText, Zenon
  <2>5. CASE enc = "other"
    <3>1. t = r
      <4>1. (IF enc = "" THEN "UTF-8" ELSE enc) = "other"
        BY <2>5, SMT
      <4> QED BY <2>2, <4>1, ToMemoryIs, Zenon
    <3> QED BY <1>3, <2>1, <2>5, <3>1, NoNulls, Zenon
  <2> QED BY <1>3, <2>3, <2>4, <2>5, Zenon DEF ReadAs
<1> QED BY <1>1, <1>2, <1>3, Zenon

\* The byte order marks.
LEMMA FirstIs ==
  ASSUME NEW rows \in SUBSET DOMAIN BomTable
  PROVE  First(rows) = NoBom \/ \E k \in rows : First(rows) = BomTable[k]
<1>1. CASE rows = {}
  BY <1>1, Zenon DEF First
<1>2. CASE rows # {}
  <2>1. rows \in SUBSET Nat
    BY SMT DEF BomTable
  <2>2. \E k \in rows : \A j \in rows : k <= j
    BY <1>2, <2>1, Least, Zenon
  <2> QED BY <1>2, <2>2, Zenon DEF First
<1> QED BY <1>1, <1>2

\* The rows of the table of marks.
LEMMA BomRows ==
  /\ DOMAIN BomTable = 1..3
  /\ \A k \in 1..3 : /\ BomTable[k].bom \in Seq(Byte) /\ BomTable[k] # NoBom
                     /\ \/ BomTable[k].enc = "UTF-8" /\ BomTable[k].flag = "preamble"
                        \/ BomTable[k].enc = "UTF-16LE" /\ BomTable[k].flag = "LE"
                        \/ BomTable[k].enc = "UTF-16BE" /\ BomTable[k].flag = "BE"
  /\ NoBom.bom = <<>> /\ NoBom.enc = "" /\ NoBom.flag = ""
<1>1. {239, 187, 191, 254, 255} \subseteq Byte
  BY SMT DEF Byte
<1>2. <<239, 187, 191>> \in Seq(Byte) /\ <<255, 254>> \in Seq(Byte) /\ <<254, 255>> \in Seq(Byte)
  BY <1>1, SMT
<1> DEFINE x == <<239, 187, 191>>  y == <<255, 254>>  z == <<254, 255>>
<1> HIDE DEF x, y, z
<1>3. BomTable = <<[bom |-> x, enc |-> "UTF-8", flag |-> "preamble"],
                   [bom |-> y, enc |-> "UTF-16LE", flag |-> "LE"],
                   [bom |-> z, enc |-> "UTF-16BE", flag |-> "BE"]>>
  BY DEF BomTable, x, y, z
<1>4. /\ DOMAIN BomTable = 1..3
      /\ BomTable[1].bom = x /\ BomTable[1].enc = "UTF-8" /\ BomTable[1].flag = "preamble"
      /\ BomTable[2].bom = y /\ BomTable[2].enc = "UTF-16LE" /\ BomTable[2].flag = "LE"
      /\ BomTable[3].bom = z /\ BomTable[3].enc = "UTF-16BE" /\ BomTable[3].flag = "BE"
  BY <1>3, SMT
<1>5. NoBom.bom = <<>> /\ NoBom.enc = "" /\ NoBom.flag = ""
  BY SMT DEF NoBom
<1>6. x \in Seq(Byte) /\ y \in Seq(Byte) /\ z \in Seq(Byte)
  BY <1>2 DEF x, y, z
<1>7. \A k \in 1..3 : k = 1 \/ k = 2 \/ k = 3
  BY SMT
<1>8. "UTF-8" # "" /\ "UTF-16LE" # "" /\ "UTF-16BE" # ""
  BY SMT
<1> QED BY <1>4, <1>5, <1>6, <1>7, <1>8, Zenon

---------------------------------------------------------------------------
(* LoadedIsText. *)

\* The marks that the document flags remember.
FileFlags == {"LE", "BE", "preamble"}

\* A declaration names one of three encodings, or none.
LEMMA DeclaredIs ==
  ASSUME NEW s
  PROVE  /\ Declared(s) \in {"", "UTF-8", "ISO-8859-1", "other"}
         /\ Declared(s) = "other" <=> s # <<>> /\ s[1] = DeclOther
<1>1. DeclUTF8 # DeclLatin /\ DeclUTF8 # DeclOther /\ DeclLatin # DeclOther
  BY SMT DEF DeclUTF8, DeclLatin, DeclOther
<1>2. CASE s = <<>>
  BY <1>2, Zenon DEF Declared
<1>3. CASE s # <<>> /\ s[1] = DeclUTF8
  BY <1>1, <1>3, Zenon DEF Declared
<1>4. CASE s # <<>> /\ s[1] = DeclLatin
  BY <1>1, <1>4, Zenon DEF Declared
<1>5. CASE s # <<>> /\ s[1] = DeclOther
  BY <1>1, <1>5, Zenon DEF Declared
<1>6. CASE s # <<>> /\ s[1] # DeclUTF8 /\ s[1] # DeclLatin /\ s[1] # DeclOther
  BY <1>6, Zenon DEF Declared
<1> QED BY <1>2, <1>3, <1>4, <1>5, <1>6, Zenon

\* No declaration names the encoding of the mark that is never reset.
LEMMA DeclaredNotBE == \A s : Declared(s) # "UTF-16BE"
<1>1. \A x \in {"", "UTF-8", "ISO-8859-1", "other"} : x # "UTF-16BE"
  BY Zenon
<1> QED BY <1>1, DeclaredIs, Zenon

\* A file that is opened to be read.
LEMMA OpenedToReadIs ==
  ASSUME NEW s \in Seq(Byte), NEW f \in SUBSET FileFlags
  PROVE  LET open == OpenedToRead(s, f)
         IN /\ open.flags \in SUBSET FileFlags
            /\ ReadAs(open.flags, open.enc)
            /\ open.bom \in Seq(Byte)
            /\ open.enc = "other" => open.bom = <<>> /\ Declared(s) = "other"
<1> DEFINE rows == {k \in DOMAIN BomTable : IsPrefix(BomTable[k].bom, s)}
           row == First(rows)  decl == Declared(s)
           fs == (f \ {"LE", "preamble"}) \cup ({row.flag} \ {""})
           e == IF row # NoBom THEN row.enc ELSE decl
           open == OpenedToRead(s, f)
<1>0. <<>> \in Seq(Byte)
  BY SMT
<1>1. \A o, x, y, z : o = [flags |-> x, enc |-> y, bom |-> z]
                     => o.flags = x /\ o.enc = y /\ o.bom = z
  BY SMT
<1>2. CASE s = <<>>
  <2>1. open = [flags |-> f, enc |-> "", bom |-> <<>>]
    BY <1>2, Zenon DEF OpenedToRead
  <2>2. open.flags = f /\ open.enc = "" /\ open.bom = <<>>
    BY <1>1, <2>1, Zenon
  <2>3. "" # "other"
    BY Zenon
  <2> HIDE DEF open
  <2>4. ReadAs(open.flags, open.enc)
    BY <2>2, Zenon DEF ReadAs
  <2> QED BY <1>0, <2>2, <2>3, <2>4, Zenon DEF open
<1>3. CASE s # <<>>
  <2>1. open = [flags |-> fs, enc |-> e, bom |-> row.bom]
    BY <1>3, Zenon DEF OpenedToRead
  <2>2. open.flags = fs /\ open.enc = e /\ open.bom = row.bom
    <3> HIDE DEF open, row, fs, e
    <3> QED BY <1>1, <2>1, Zenon
  <2>3. row = NoBom \/ \E k \in 1..3 : row = BomTable[k]
    BY FirstIs, BomRows, Zenon
  <2> HIDE DEF open, row
  <2>4. CASE row = NoBom
    <3>1. row.bom = <<>> /\ row.flag = "" /\ e = decl
      BY <2>4, BomRows, Zenon
    <3>2. fs \in SUBSET FileFlags
      BY <3>1, Zenon
    <3>3. ReadAs(fs, e)
      BY <3>1, DeclaredIs, Zenon DEF ReadAs
    <3> QED BY <1>0, <2>2, <3>1, <3>2, <3>3, Zenon DEF open
  <2>5. ASSUME NEW k \in 1..3, row = BomTable[k] PROVE
               /\ fs \in SUBSET FileFlags /\ row.bom \in Seq(Byte) /\ ReadAs(fs, e)
               /\ e # "other"
    <3>1. /\ row.bom \in Seq(Byte) /\ row # NoBom
          /\ \/ row.enc = "UTF-8" /\ row.flag = "preamble"
             \/ row.enc = "UTF-16LE" /\ row.flag = "LE"
             \/ row.enc = "UTF-16BE" /\ row.flag = "BE"
      BY <2>5, BomRows, Zenon
    <3>2. e = row.enc
      BY <3>1, Zenon
    <3>3. fs \in SUBSET FileFlags
      BY <3>1, Zenon DEF FileFlags
    <3>4. ReadAs(fs, e)
      BY <3>1, <3>2, Zenon DEF ReadAs
    <3>5. e # "other"
      BY <3>1, <3>2, Zenon
    <3> QED BY <3>1, <3>3, <3>4, <3>5
  <2> QED BY <2>2, <2>3, <2>4, <2>5, Zenon DEF open
<1> QED BY <1>2, <1>3, Zenon

\* A file that is opened to be written, and its text.
LEMMA SavedBytes ==
  ASSUME NEW s \in Seq(Byte), NEW f \in SUBSET FileFlags
  PROVE  LET row == OpenedToWrite(f)
             enc == IF row # NoBom THEN row.enc
                    ELSE IF Declared(s) # "" THEN Declared(s) ELSE "UTF-8"
         IN row.bom \o WrittenText(s, f, enc) \in Seq(Byte)
<1> DEFINE rows == {k \in DOMAIN BomTable : BomTable[k].flag \in f}
           row == OpenedToWrite(f)
           enc == IF row # NoBom THEN row.enc
                  ELSE IF Declared(s) # "" THEN Declared(s) ELSE "UTF-8"
           t == WrittenText(s, f, enc)
<1>0. s \in Seq(Nat) /\ <<>> \in Seq(Byte)
  <2>1. <<>> \in Seq(Byte)
    BY SMT
  <2> QED BY <2>1, SmallSets, SeqMonotonic, Zenon
<1>1. row = First(rows)
  BY Zenon DEF OpenedToWrite
<1>2. row = NoBom \/ \E k \in 1..3 : row = BomTable[k] /\ BomTable[k].flag \in f
  BY <1>1, FirstIs, BomRows, Zenon
<1> HIDE DEF row
<1>3. /\ row.bom \in Seq(Byte)
      /\ row = NoBom \/ row.enc = "UTF-8" \/ row.flag \in f \cap {"LE", "BE"}
  BY <1>0, <1>2, BomRows, Zenon
<1>4. CASE f \cap {"LE", "BE"} # {}
  <2> DEFINE u == ToUnits(s)  w == IF EndianSwapRequired(f) THEN Swapped(u) ELSE u
  <2>1. u \in Seq(Unit)
    BY <1>0, ToUnitsType, Zenon
  <2>2. w \in Seq(Unit)
    BY <2>1, SwappedType, Zenon
  <2>3. t = BytesOf(w)
    BY <1>4, Zenon DEF WrittenText
  <2> HIDE DEF u, w, t
  <2>4. t \in Seq(Byte)
    BY <2>2, <2>3, BytesOfType, Zenon
  <2> QED BY <1>3, <2>4, Joined, Zenon DEF t, row
<1>5. CASE ~(f \cap {"LE", "BE"} # {})
  <2>1. enc \in {"UTF-8", "ISO-8859-1"} \/ enc = "other"
    BY <1>3, <1>5, DeclaredIs, Zenon
  <2> HIDE DEF enc
  <2>2. t = FromMemory(enc, s)
    BY <1>5, Zenon DEF WrittenText
  <2> HIDE DEF t
  <2>3. t \in Seq(Byte)
    <3>1. CASE enc = "other"
      BY <2>2, <3>1, Zenon DEF FromMemory
    <3>2. CASE enc # "other"
      <4>1. t = IConv(enc, s)
        BY <2>2, <3>2, Zenon DEF FromMemory
      <4> QED BY <1>0, <2>1, <3>2, <4>1, IConvBytes, Zenon
    <3> QED BY <3>1, <3>2
  <2> QED BY <1>3, <2>3, Joined, Zenon DEF t, row, enc
<1> QED BY <1>4, <1>5

\* Texts that the users of the library set, and that other programs write.
LEMMA TextsAre ==
  ASSUME NEW c \in Texts
  PROVE  c \in Seq(Scalar)
<1>1. CASE c = <<>>
  <2>1. <<>> \in Seq(Scalar)
    BY SMT
  <2> QED BY <1>1, <2>1, Zenon
<1>2. CASE c # <<>>
  <2>1. PICK b \in Begins, r \in Tails : c = <<b>> \o r
    BY <1>2, Zenon DEF Texts
  <2>2. PICK n \in 0..MaxChars : r \in [1..n -> Chars]
    BY <2>1, Zenon DEF Tails
  <2>3. b \in Scalar
    BY SMT DEF Begins, Less, DeclUTF8, DeclLatin, DeclOther, Scalar, IsScalar, IsCode
  <2>4. \A x \in Chars : x \in Scalar
    BY TextAssumption, SMT DEF Scalar, IsScalar, IsCode
  <2>5. r \in [1..n -> Scalar] /\ n \in Nat
    BY <2>2, <2>4, TextAssumption, SMT
  <2>6. r \in Seq(Scalar)
    BY <2>5, SMT
  <2>7. <<b>> \o r \in Seq(Scalar)
    BY <2>3, <2>6, SMT
  <2> QED BY <2>1, <2>7, Zenon
<1> QED BY <1>1, <1>2

\* What others write in an encoding is bytes.
LEMMA InFileBytes ==
  ASSUME NEW c \in Texts, NEW enc \in {"UTF-8", "preamble", "LE", "BE", "ISO-8859-1"},
         enc = "ISO-8859-1" => Kept(c, enc) # Unknown
  PROVE  InFile(c, enc) \in Seq(Byte)
<1>1. c \in Seq(Scalar)
  BY TextsAre
<1>2. Encoded("UTF-8", c) \in Seq(Byte) /\ Encoded("UTF-16", c) \in Seq(Unit)
  BY <1>1, EncodedBytes, Zenon
<1>3. Swapped(Encoded("UTF-16", c)) \in Seq(Unit)
  BY <1>2, SwappedType, Zenon
<1>4. CASE enc \in {"UTF-8", "preamble"}
  BY <1>2, <1>4, Zenon DEF InFile
<1>5. CASE enc = "LE"
  <2>1. InFile(c, enc) = BytesOf(Encoded("UTF-16", c))
    BY <1>5, Zenon DEF InFile
  <2> QED BY <1>2, <2>1, BytesOfType, Zenon
<1>6. CASE enc = "BE"
  <2>1. InFile(c, enc) = BytesOf(Swapped(Encoded("UTF-16", c)))
    BY <1>6, Zenon DEF InFile
  <2> QED BY <1>3, <2>1, BytesOfType, Zenon
<1>7. CASE enc = "ISO-8859-1"
  <2>1. InFile(c, enc) = c
    BY <1>7, Zenon DEF InFile
  <2>2. \A k \in DOMAIN c : c[k] < 256
    <3>1. enc \notin {"UTF-16LE", "UTF-16BE"}
      BY <1>7, Zenon
    <3> DEFINE limit == CASE enc \in {"UTF-16LE", "UTF-16BE"} -> 65536
                          [] enc = "ISO-8859-1" -> 256
                          [] OTHER -> 1114112
    <3>2. limit = 256
      BY <1>7, <3>1, SMT
    <3>3. Kept(c, enc) = IF \A k \in DOMAIN c : c[k] < limit THEN c ELSE Unknown
      BY DEF Kept
    <3> HIDE DEF limit
    <3> QED BY <1>7, <3>2, <3>3, Zenon
  <2>3. \A k \in DOMAIN c : c[k] \in Byte
    <3>1. \A k \in DOMAIN c : c[k] \in Nat
      BY <1>1, SMT DEF Scalar
    <3>2. \A x \in Nat : x < 256 => x \in Byte
      BY SMT DEF Byte
    <3> QED BY <2>2, <3>1, <3>2, Zenon
  <2>4. c \in Seq(Byte)
    BY <1>1, <2>3, SMT
  <2> QED BY <2>1, <2>4, Zenon
<1> QED BY <1>4, <1>5, <1>6, <1>7, Zenon

\* A file begins with a mark, or with none.
LEMMA MarkedBytes ==
  ASSUME NEW t \in Seq(Byte), NEW e
  PROVE  BomOf(e) \o t \in Seq(Byte)
<1>1. \E row \in {NoBom} \cup {BomTable[k] : k \in 1..3} : BomOf(e) = row.bom
  BY FirstIs, BomRows, Zenon DEF BomOf
<1>2. <<>> \in Seq(Byte)
  BY SMT
<1>3. BomOf(e) \in Seq(Byte)
  BY <1>1, <1>2, BomRows, Zenon
<1> QED BY <1>3, Joined, Zenon

\* The invariant: what is in memory is bytes, and after a load it is a text.
FileInv == FileTypeOK /\ LoadedIsText

\* The type invariant in the words of these proofs.
LEMMA FileTypeIs ==
  FileTypeOK <=> /\ flags \in SUBSET FileFlags /\ (file = Absent \/ file \in Seq(Byte))
                 /\ text \in Seq(Byte) /\ state \in {"set", "loaded", "astray", "saved"}
BY ByteIs, Zenon DEF FileTypeOK, FileFlags

\* It holds in the beginning.
LEMMA FileInitInv == FileInit => FileInv
<1> SUFFICES ASSUME FileInit PROVE FileInv
  OBVIOUS
<1>1. <<>> \in Seq(Byte)
  BY SMT
<1>2. text = <<>> /\ flags = {} /\ file = Absent /\ state = "set"
  BY Zenon DEF FileInit
<1>3. "set" # "loaded"
  BY Zenon
<1> QED BY <1>1, <1>2, <1>3, FileTypeIs, Zenon DEF FileInv, LoadedIsText

\* Load gives a text to the parser.
LEMMA LoadInv ==
  ASSUME FileInv, Load
  PROVE  FileInv'
<1> DEFINE open == OpenedToRead(file, flags)  n == Len(open.bom)
           s == SubSeq(file, n + 1, Len(file))  t == ReadText(s, open.flags, open.enc)
<1>1. /\ file # Absent /\ flags' = open.flags /\ text' = t /\ state' = "loaded" /\ file' = file
  BY Zenon DEF Load, Behind
<1>2. flags \in SUBSET FileFlags /\ file \in Seq(Byte)
  BY <1>1, FileTypeIs, Zenon DEF FileInv
<1>3. /\ open.flags \in SUBSET FileFlags /\ ReadAs(open.flags, open.enc) /\ open.bom \in Seq(Byte)
      /\ open.enc = "other" => open.bom = <<>> /\ Declared(file) = "other"
  BY <1>2, OpenedToReadIs, Zenon
<1> HIDE DEF open
<1>4. n \in Nat /\ Len(file) \in Nat
  BY <1>2, <1>3, SMT
<1>5. s \in Seq(Byte)
  <2> HIDE DEF n
  <2> QED BY <1>2, <1>4, SMT
<1>6. open.enc = "other" => s = file
  <2>1. Len(<<>>) + 1 = 1
    BY SMT
  <2>2. SubSeq(file, 1, Len(file)) = file
    BY <1>2, SMT
  <2> QED BY <1>3, <2>1, <2>2, Zenon
<1> HIDE DEF n, s, t
<1>7. \/ IsText(t)
      \/ /\ open.enc = "other" /\ t \in Seq(Byte) /\ 0 \notin ToSet(t)
         /\ s # <<>> /\ (s[1] # 0 => t # <<>> /\ t[1] = s[1])
  BY <1>3, <1>5, ReadTextSound, Zenon DEF t
<1>8. CASE IsText(t)
  <2>1. LoadedIsText'
    BY <1>1, <1>8, Zenon DEF LoadedIsText, IsText
  <2>2. FileTypeOK'
    BY <1>1, <1>3, <1>8, ByteIs, Zenon DEF IsText, FileTypeOK, FileFlags, FileInv
  <2> QED BY <2>1, <2>2 DEF FileInv
<1>9. CASE /\ open.enc = "other" /\ t \in Seq(Byte) /\ 0 \notin ToSet(t)
           /\ s # <<>> /\ (s[1] # 0 => t # <<>> /\ t[1] = s[1])
  <2>1. s[1] = DeclOther /\ DeclOther # 0
    <3>1. DeclOther # 0
      BY SMT DEF DeclOther
    <3> QED BY <1>3, <1>6, <1>9, <3>1, DeclaredIs, Zenon
  <2>2. Declared(t) = "other"
    BY <1>9, <2>1, DeclaredIs, Zenon
  <2>3. LoadedIsText'
    BY <1>1, <1>9, <2>2, Zenon DEF LoadedIsText
  <2>4. FileTypeOK'
    BY <1>1, <1>3, <1>9, ByteIs, Zenon DEF FileTypeOK, FileFlags, FileInv
  <2> QED BY <2>3, <2>4 DEF FileInv
<1> QED BY <1>7, <1>8, <1>9

\* The operations that leave the text as it is, or set it.
LEMMA QuietInv ==
  ASSUME FileInv, state' # "loaded" \/ UNCHANGED <<text, state>>,
         text' \in Seq(Byte), flags' \in SUBSET FileFlags,
         file' = Absent \/ file' \in Seq(Byte), state' \in {"set", "loaded", "astray", "saved"}
  PROVE  FileInv'
<1>1. FileTypeOK'
  BY ByteIs, Zenon DEF FileTypeOK, FileFlags
<1>2. LoadedIsText'
  BY Zenon DEF LoadedIsText, FileInv
<1> QED BY <1>1, <1>2, Zenon DEF FileInv

\* What others write without an encoding of their own is bytes.
LEMMA GarbageBytes ==
  ASSUME NEW n \in 0..MaxChars + 1, NEW b \in [1..n -> Garbage]
  PROVE  b \in Seq(Byte)
<1>1. MaxChars \in Nat /\ Garbage \subseteq 0..255
  BY TextAssumption
<1>2. n \in Nat
  BY <1>1, SMT
<1>3. \A k \in 1..n : b[k] \in Garbage
  OBVIOUS
<1>4. Garbage \subseteq Byte
  BY <1>1, SMT DEF Byte
<1>5. \A k \in 1..n : b[k] \in Byte
  BY <1>3, <1>4, Zenon
<1>6. b = [k \in 1..n |-> b[k]]
  OBVIOUS
<1>7. [k \in 1..n |-> b[k]] \in [1..n -> Byte]
  BY <1>5, Zenon
<1>8. b \in [1..n -> Byte]
  BY <1>6, <1>7, Zenon
<1> QED BY <1>2, <1>8, SMT

\* What holds of no text, and of a text behind a character when it holds of the text, holds of
\* every text.
LEMMA TextInduction ==
  ASSUME NEW S, NEW T, <<>> \in T,
         \A s \in Seq(S) : s \in T => \A x \in S : <<x>> \o s \in T
  PROVE  \A s \in Seq(S) : s \in T
<1> SUFFICES ASSUME NEW z \in Seq(S) PROVE z \in T
  OBVIOUS
<1> DEFINE n == Len(z)
           U == {k \in 0..n : \A s \in Seq(S) : Len(s) = k => s \in T}
<1>1. n \in Nat /\ 0 \in 0..n /\ n \in 0..n
  BY SMT
<1> HIDE DEF n
<1>2. 0 \in U
  <2>1. \A s \in Seq(S) : Len(s) = 0 => s = <<>>
    BY SMT
  <2> QED BY <1>1, <2>1, Zenon
<1>3. ASSUME NEW k \in 0..n - 1, k \in U PROVE k + 1 \in U
  <2>1. k + 1 \in 0..n /\ k \in Nat
    BY <1>1, SMT
  <2>2. \A s \in Seq(S) : Len(s) = k => s \in T
    BY <1>3, Zenon
  <2>3. ASSUME NEW s \in Seq(S), Len(s) = k + 1 PROVE s \in T
    <3> DEFINE t == Tail(s)  x == s[1]
    <3>1. t \in Seq(S) /\ Len(t) = k /\ x \in S
      BY <2>1, <2>3, SMT
    <3>2. s = <<x>> \o t
      BY <2>1, <2>3, SMT
    <3> HIDE DEF t, x
    <3>3. t \in T
      BY <2>2, <3>1, Zenon
    <3> QED BY <3>1, <3>2, <3>3, Zenon
  <2> QED BY <2>1, <2>3, Zenon
<1>4. n \in U
  <2> HIDE DEF U
  <2> QED BY <1>1, <1>2, <1>3, Upward, Zenon
<1> QED BY <1>4, Zenon DEF n

\* Texts strung together, one after the other.
Strung(p) ==
  LET upTo[k \in 0..Len(p)] == IF k = 0 THEN <<>> ELSE upTo[k - 1] \o p[k]
  IN upTo[Len(p)]
Strings(u, p) ==
  /\ DOMAIN u = 0..Len(p) /\ u[0] = <<>>
  /\ \A k \in 0..Len(p) : u[k] \in Seq(Nat)
  /\ \A k \in 1..Len(p) : u[k] = u[k - 1] \o p[k]

\* There is such a list, and Strung is the last of it.
LEMMA StrungIs ==
  ASSUME NEW p \in Seq(Seq(Nat))
  PROVE  \E u : Strings(u, p) /\ Strung(p) = u[Len(p)]
<1> DEFINE n == Len(p)
           Is(u) == u = [k \in 0..n |-> IF k = 0 THEN <<>> ELSE u[k - 1] \o p[k]]
           F == [k \in 1..n |-> [t \in Seq(Nat) |-> t \o p[k]]]
<1>0. n \in Nat /\ \A k \in 1..n : p[k] \in Seq(Nat)
  BY SMT
<1>2. \A t \in Seq(Nat) : \A k \in 1..n : t \o p[k] \in Seq(Nat)
  <2> HIDE DEF n
  <2> QED BY <1>0, Joined, Zenon
<1>3. <<>> \in Seq(Nat)
  BY SMT
<1> DEFINE In(u) == {k \in 0..n : u[k] \in Seq(Nat)}
<1>4. ASSUME NEW u, u[0] = <<>>,
             \A k \in 1..n : u[k - 1] \in Seq(Nat) => u[k] = u[k - 1] \o p[k]
      PROVE  \A k \in 0..n : u[k] \in Seq(Nat)
  <2>1. 0 \in In(u)
    <3>1. 0 \in 0..n
      BY <1>0, SMT
    <3> HIDE DEF n
    <3> QED BY <3>1, <1>3, <1>4, Zenon
  <2>2. ASSUME NEW k \in 0..n - 1, k \in In(u) PROVE k + 1 \in In(u)
    <3>1. k + 1 \in 1..n /\ k + 1 \in 0..n /\ (k + 1) - 1 = k
      BY <1>0, SMT
    <3>2. u[k] \in Seq(Nat)
      BY <2>2
    <3> HIDE DEF n
    <3>3. u[k + 1] = u[k] \o p[k + 1]
      <4>1. u[(k + 1) - 1] \in Seq(Nat) => u[k + 1] = u[(k + 1) - 1] \o p[k + 1]
        BY <1>4, <3>1, Zenon
      <4> QED BY <4>1, <3>1, <3>2, Zenon
    <3>4. u[k + 1] \in Seq(Nat)
      BY <1>2, <3>1, <3>2, <3>3, Zenon
    <3> QED BY <3>1, <3>4, Zenon
  <2>3. \A k \in 0..n : k \in In(u)
    <3> HIDE DEF In, n
    <3> QED BY <1>0, <2>1, <2>2, Upward
  <2> HIDE DEF n
  <2> QED BY <2>3, Zenon
<1>5. \E u : Is(u)
  <2>1. PICK u : /\ u = [k \in 0..n |-> u[k]] /\ u[0] = <<>>
                 /\ \A k \in 1..n : u[k] = F[k][u[k - 1]]
    <3> DEFINE b == <<>>
    <3> HIDE DEF F, n, b
    <3>1. \E u : Chained(u, n, b, F)
      BY <1>0, Forward, Zenon
    <3> QED BY <3>1, Zenon DEF b, Chained
  <2>2. ASSUME NEW k \in 1..n, u[k - 1] \in Seq(Nat)
        PROVE  u[k] = u[k - 1] \o p[k]
    <3> HIDE DEF n
    <3> QED BY <2>1, <2>2, Zenon
  <2>3. \A k \in 0..n : u[k] \in Seq(Nat)
    <3> HIDE DEF n, F
    <3> QED BY <1>4, <2>1, <2>2, Zenon
  <2>4. ASSUME NEW k \in 0..n
        PROVE  u[k] = IF k = 0 THEN <<>> ELSE u[k - 1] \o p[k]
    <3>1. k # 0 => k \in 1..n /\ k - 1 \in 0..n
      BY <1>0, SMT
    <3> HIDE DEF F, n
    <3> QED BY <2>1, <2>2, <2>3, <3>1, Zenon
  <2> HIDE DEF F, n
  <2> QED BY <2>1, <2>4, Zenon
<1>6. PICK u : Is(u) /\ Strung(p) = u[n]
  <2>1. Strung(p) = (CHOOSE u : Is(u))[n]
    BY DEF Strung
  <2> HIDE DEF Is
  <2> QED BY <1>5, <2>1, Zenon
<1>7. DOMAIN u = 0..n /\ u[0] = <<>>
  BY <1>0, <1>6, SMT
<1>8. ASSUME NEW k \in 1..n PROVE u[k] = u[k - 1] \o p[k]
  <2>1. k \in 0..n /\ k # 0
    BY <1>0, SMT
  <2> HIDE DEF n
  <2> QED BY <1>6, <2>1, Zenon
<1>9. \A k \in 0..n : u[k] \in Seq(Nat)
  <2> HIDE DEF n
  <2> QED BY <1>4, <1>7, <1>8, Zenon
<1> QED BY <1>6, <1>7, <1>8, <1>9, Zenon DEF Strings

\* Nothing is strung to nothing.
LEMMA StrungEmpty == Strung(<<>>) = <<>>
<1>1. <<>> \in Seq(Seq(Nat)) /\ Len(<<>>) = 0
  BY SMT
<1>2. PICK u : Strings(u, <<>>) /\ Strung(<<>>) = u[0]
  BY <1>1, StrungIs, Zenon
<1> QED BY <1>2, Zenon DEF Strings

\* One text in front of the others.
LEMMA StrungCons ==
  ASSUME NEW e \in Seq(Nat), NEW p \in Seq(Seq(Nat))
  PROVE  /\ <<e>> \o p \in Seq(Seq(Nat))
         /\ Strung(p) \in Seq(Nat)
         /\ Strung(<<e>> \o p) = e \o Strung(p)
<1> DEFINE d == <<e>> \o p  n == Len(p)
<1>1. n \in Nat /\ d \in Seq(Seq(Nat)) /\ Len(d) = n + 1
  BY SMT
<1>2. d[1] = e /\ \A k \in 1..n : d[k + 1] = p[k]
  BY SMT
<1> HIDE DEF d
<1>3. PICK u : Strings(u, p) /\ Strung(p) = u[Len(p)]
  BY StrungIs, Zenon
<1>4. PICK v : Strings(v, d) /\ Strung(d) = v[Len(d)]
  BY <1>1, StrungIs, Zenon
<1>5. /\ u[0] = <<>> /\ \A k \in 0..n : u[k] \in Seq(Nat)
      /\ \A k \in 1..n : u[k] = u[k - 1] \o p[k]
  BY <1>3, Zenon DEF Strings
<1>6. /\ v[0] = <<>>
      /\ \A k \in 1..n + 1 : v[k] = v[k - 1] \o d[k]
  BY <1>1, <1>4, Zenon DEF Strings
<1>7. \A k \in 1..n : p[k] \in Seq(Nat)
  BY SMT
<1> DEFINE T == {k \in 0..n : v[k + 1] = e \o u[k]}
<1>8. 0 \in T
  <2>1. 1 \in 1..n + 1 /\ 1 - 1 = 0 /\ 0 + 1 = 1 /\ 0 \in 0..n
    BY <1>1, SMT
  <2>2. v[1] = v[0] \o d[1]
    BY <1>6, <2>1, Zenon
  <2>3. v[1] = <<>> \o e
    BY <1>2, <1>6, <2>2, Zenon
  <2>4. <<>> \o e = e \o <<>>
    BY ConcatEmptySeq, Zenon
  <2> HIDE DEF n
  <2> QED BY <1>5, <2>1, <2>3, <2>4, Zenon
<1>9. ASSUME NEW k \in 0..n - 1, k \in T PROVE k + 1 \in T
  <2>1. /\ k \in 0..n /\ k + 1 \in 1..n /\ k + 1 \in 0..n /\ (k + 1) - 1 = k
        /\ (k + 1) + 1 \in 1..n + 1 /\ ((k + 1) + 1) - 1 = k + 1
    BY <1>1, SMT
  <2> HIDE DEF n
  <2> DEFINE q == k + 1  f == p[q]
  <2>2. v[q + 1] = v[q] \o d[q + 1] /\ d[q + 1] = p[q]
    BY <1>2, <1>6, <2>1, Zenon
  <2>3. v[q + 1] = (e \o u[k]) \o f
    BY <1>9, <2>2, Zenon
  <2>4. (e \o u[k]) \o f = e \o (u[k] \o f)
    <3>1. u[k] \in Seq(Nat) /\ f \in Seq(Nat)
      BY <1>5, <1>7, <2>1, Zenon
    <3> HIDE DEF f
    <3> DEFINE g == u[k]
    <3>3. g \in Seq(Nat)
      BY <3>1
    <3> HIDE DEF g
    <3>4. (e \o g) \o f = e \o (g \o f)
      BY <3>1, <3>3, ConcatThree
    <3> QED BY <3>4, Zenon DEF g
  <2>5. u[q] = u[k] \o f
    BY <1>5, <2>1, Zenon
  <2> HIDE DEF f
  <2> QED BY <2>1, <2>3, <2>4, <2>5, Zenon
<1>10. n \in T
  <2>1. n \in 0..n
    BY <1>1, SMT
  <2> HIDE DEF T, n
  <2> QED BY <1>1, <1>8, <1>9, <2>1, Upward, Zenon
<1>11. v[n + 1] = e \o u[n]
  <2> HIDE DEF n
  <2> QED BY <1>10, Zenon
<1>12. n \in 0..n
  BY <1>1, SMT
<1>13. Strung(p) \in Seq(Nat)
  BY <1>3, <1>5, <1>12, Zenon
<1>14. d \in Seq(Seq(Nat)) /\ Strung(d) = e \o Strung(p)
  BY <1>1, <1>3, <1>4, <1>11, Zenon
<1> QED BY <1>13, <1>14, Zenon DEF d

---------------------------------------------------------------------------
(* Texts without their nulls. *)

\* What is kept of a character, and of each of a text.
KeptOf(x) == IF x = 0 THEN <<>> ELSE <<x>>
KeptOfEach(s) == [k \in 1..Len(s) |-> KeptOf(s[k])]

\* A text without its nulls is strung of what is kept.
LEMMA WithoutNullsStrung ==
  ASSUME NEW s \in Seq(Nat)
  PROVE  KeptOfEach(s) \in Seq(Seq(Nat)) /\ WithoutNulls(s) = Strung(KeptOfEach(s))
<1> DEFINE n == Len(s)  p == KeptOfEach(s)
           Here(u, k) == IF k = 0 THEN <<>> ELSE u[k - 1] \o (IF s[k] = 0 THEN <<>> ELSE <<s[k]>>)
           There(u, k) == IF k = 0 THEN <<>> ELSE u[k - 1] \o p[k]
           Is(u) == u = [k \in 0..n |-> Here(u, k)]
           Same(u) == u = [k \in 0..n |-> There(u, k)]
<1>1. n \in Nat /\ \A k \in 1..n : s[k] \in Nat
  BY SMT
<1>2. \A x \in Nat : KeptOf(x) \in Seq(Nat)
  BY SMT DEF KeptOf
<1>3. /\ p \in Seq(Seq(Nat)) /\ Len(p) = n
      /\ \A k \in 1..n : p[k] = IF s[k] = 0 THEN <<>> ELSE <<s[k]>>
  <2>1. p \in [1..n -> Seq(Nat)]
    <3> HIDE DEF n
    <3>1. \A k \in 1..n : KeptOf(s[k]) \in Seq(Nat)
      BY <1>1, <1>2, Zenon
    <3> QED BY <3>1, Zenon DEF KeptOfEach, n
  <2>2. \A k \in 1..n : p[k] = IF s[k] = 0 THEN <<>> ELSE <<s[k]>>
    BY Zenon DEF KeptOfEach, KeptOf
  <2> HIDE DEF p, n
  <2>3. p \in Seq(Seq(Nat)) /\ Len(p) = n
    BY <1>1, <2>1, SMT
  <2> QED BY <2>2, <2>3, Zenon
<1>4. WithoutNulls(s) = (CHOOSE u : Is(u))[n]
  BY DEF WithoutNulls
<1>5. Strung(p) = (CHOOSE u : Same(u))[n]
  <2>1. Strung(p) = (CHOOSE u : u = [k \in 0..Len(p) |-> There(u, k)])[Len(p)]
    BY DEF Strung
  <2> HIDE DEF p, There, n
  <2> QED BY <1>3, <2>1, Zenon
<1>6. \A u : Is(u) <=> Same(u)
  <2> SUFFICES ASSUME NEW u PROVE Is(u) <=> Same(u)
    OBVIOUS
  <2>1. \A k \in 0..n : Here(u, k) = There(u, k)
    <3>1. \A k \in 0..n : k = 0 \/ k \in 1..n
      BY <1>1, SMT
    <3> HIDE DEF p, n
    <3> QED BY <1>3, <3>1, Zenon
  <2> HIDE DEF Here, There, n
  <2> QED BY <2>1, Zenon
<1> HIDE DEF Is, Same, n
<1>7. WithoutNulls(s) = Strung(p)
  BY <1>4, <1>5, <1>6, Zenon
<1> QED BY <1>3, <1>7, Zenon DEF p

\* No character, and one character in front of a text.
LEMMA WithoutNullsCons ==
  /\ WithoutNulls(<<>>) = <<>>
  /\ \A x \in Nat : \A s \in Seq(Nat) : /\ WithoutNulls(s) \in Seq(Nat)
                                        /\ WithoutNulls(<<x>> \o s) = KeptOf(x) \o WithoutNulls(s)
<1>1. WithoutNulls(<<>>) = <<>>
  <2>1. <<>> \in Seq(Nat) /\ KeptOfEach(<<>>) = <<>>
    BY SMT DEF KeptOfEach
  <2> QED BY <2>1, WithoutNullsStrung, StrungEmpty, Zenon
<1>2. ASSUME NEW x \in Nat, NEW s \in Seq(Nat)
      PROVE  /\ WithoutNulls(s) \in Seq(Nat)
             /\ WithoutNulls(<<x>> \o s) = KeptOf(x) \o WithoutNulls(s)
  <2> DEFINE t == <<x>> \o s  p == KeptOfEach(s)  q == KeptOfEach(t)
  <2>1. t \in Seq(Nat) /\ Len(s) \in Nat /\ Len(t) = Len(s) + 1
        /\ t[1] = x /\ \A k \in 1..Len(s) : t[k + 1] = s[k]
    BY SMT
  <2> HIDE DEF t
  <2>2. p \in Seq(Seq(Nat)) /\ WithoutNulls(s) = Strung(p)
    BY WithoutNullsStrung, Zenon
  <2>3. q \in Seq(Seq(Nat)) /\ WithoutNulls(t) = Strung(q)
    BY <2>1, WithoutNullsStrung, Zenon
  <2>4. /\ DOMAIN p = 1..Len(s) /\ \A k \in 1..Len(s) : p[k] = KeptOf(s[k])
        /\ DOMAIN q = 1..Len(s) + 1 /\ \A k \in 1..Len(s) + 1 : q[k] = KeptOf(t[k])
    BY <2>1, Zenon DEF KeptOfEach
  <2>5. KeptOf(x) \in Seq(Nat)
    BY SMT DEF KeptOf
  <2>6. /\ q[1] = KeptOf(x) /\ \A k \in 1..Len(s) : q[k + 1] = p[k]
    <3>1. 1 \in 1..Len(s) + 1 /\ \A k \in 1..Len(s) : k + 1 \in 1..Len(s) + 1
      BY <2>1, SMT
    <3> HIDE DEF p, q
    <3> QED BY <2>1, <2>4, <3>1, Zenon
  <2> DEFINE e == KeptOf(x)  r == <<e>> \o p
  <2> HIDE DEF p, q, e
  <2>7. q = r
    <3>1. Len(p) = Len(s) /\ Len(q) = Len(s) + 1
      BY <2>1, <2>2, <2>3, <2>4, SMT
    <3>2. r \in Seq(Seq(Nat)) /\ Len(r) = Len(s) + 1 /\ r[1] = e
          /\ \A k \in 1..Len(s) : r[k + 1] = p[k]
      BY <2>1, <2>2, <2>5, <3>1, SMT DEF e
    <3> HIDE DEF r
    <3>3. \A k \in 1..Len(s) + 1 : q[k] = r[k]
      <4>1. \A k \in 1..Len(s) + 1 : k = 1 \/ (k - 1 \in 1..Len(s) /\ (k - 1) + 1 = k)
        BY <2>1, SMT
      <4> QED BY <2>6, <3>2, <4>1, Zenon DEF e
    <3> QED BY <2>1, <2>3, <3>1, <3>2, <3>3, SMT
  <2>8. Strung(p) \in Seq(Nat) /\ Strung(r) = e \o Strung(p)
    BY <2>2, <2>5, StrungCons, Zenon DEF e
  <2> HIDE DEF r
  <2> QED BY <2>2, <2>3, <2>7, <2>8, Zenon DEF t, e
<1> QED BY <1>1, <1>2, Zenon

\* Three texts are joined in either order.
ThreeOf(x, y, z) == (x \o y) \o z = x \o (y \o z)

\* Any three are.
LEMMA ThreeJoined == \A x, y, z \in Seq(Nat) : ThreeOf(x, y, z)
  BY ConcatThree, Zenon DEF ThreeOf

\* The nulls are taken out of each part of a text.
LEMMA WithoutNullsJoined ==
  ASSUME NEW a \in Seq(Nat), NEW b \in Seq(Nat)
  PROVE  WithoutNulls(a \o b) = WithoutNulls(a) \o WithoutNulls(b)
<1> DEFINE T == {s \in Seq(Nat) : WithoutNulls(s \o b) = WithoutNulls(s) \o WithoutNulls(b)}
<1>0. <<>> \in Seq(Nat) /\ \A z \in Seq(Nat) : <<>> \o z = z
  BY SMT
<1>1. <<>> \in T
  <2>1. WithoutNulls(b) \in Seq(Nat)
    BY WithoutNullsCons, Zenon
  <2> QED BY <1>0, <2>1, WithoutNullsCons, Zenon
<1>2. ASSUME NEW s \in Seq(Nat), s \in T, NEW x \in Nat PROVE <<x>> \o s \in T
  <2> DEFINE t == <<x>> \o s  y == <<x>>
  <2>1. y \in Seq(Nat) /\ t \in Seq(Nat) /\ s \o b \in Seq(Nat)
    BY SMT
  <2> HIDE DEF t
  <2>2. t \o b = <<x>> \o (s \o b)
    <3>1. ThreeOf(<<x>>, s, b)
      BY <2>1, ThreeJoined, Zenon
    <3> QED BY <3>1, Zenon DEF ThreeOf, t
  <2>3. WithoutNulls(t \o b) = KeptOf(x) \o WithoutNulls(s \o b)
    BY <2>1, <2>2, WithoutNullsCons, Zenon
  <2>4. WithoutNulls(s \o b) = WithoutNulls(s) \o WithoutNulls(b)
    BY <1>2, Zenon
  <2>5. WithoutNulls(t) = KeptOf(x) \o WithoutNulls(s)
    BY WithoutNullsCons, Zenon DEF t
  <2>6. KeptOf(x) \in Seq(Nat) /\ WithoutNulls(s) \in Seq(Nat) /\ WithoutNulls(b) \in Seq(Nat)
    <3>1. KeptOf(x) \in Seq(Nat)
      BY SMT DEF KeptOf
    <3> QED BY <3>1, WithoutNullsCons, Zenon
  <2>7. KeptOf(x) \o (WithoutNulls(s) \o WithoutNulls(b))
        = (KeptOf(x) \o WithoutNulls(s)) \o WithoutNulls(b)
    <3>1. ThreeOf(KeptOf(x), WithoutNulls(s), WithoutNulls(b))
      BY <2>6, ThreeJoined, Zenon
    <3> QED BY <3>1, Zenon DEF ThreeOf
  <2> QED BY <2>1, <2>3, <2>4, <2>5, <2>7, Zenon DEF t
<1> HIDE DEF T
<1>3. \A s \in Seq(Nat) : s \in T
  BY <1>1, <1>2, TextInduction, Zenon
<1> QED BY <1>3, Zenon DEF T

\* A text without nulls stays as it is, and no other text is left.
LEMMA WithoutNullsIs ==
  ASSUME NEW S \in SUBSET Nat
  PROVE  /\ \A s \in Seq(NotZero(S)) : WithoutNulls(s) = s
         /\ \A s \in Seq(S) : WithoutNulls(s) \in Seq(NotZero(S))
<1> DEFINE N == NotZero(S)
           T == {s \in Seq(N) : WithoutNulls(s) = s}
           U == {s \in Seq(S) : WithoutNulls(s) \in Seq(N)}
<1>0. <<>> \in Seq(N) /\ <<>> \in Seq(S)
  BY SMT
<1>1. \A x \in S : x \in Nat /\ KeptOf(x) \in Seq(N)
  <2>1. ASSUME NEW x \in S PROVE x \in Nat /\ KeptOf(x) \in Seq(N)
    <3>1. x \in Nat
      OBVIOUS
    <3>2. CASE x = 0
      BY <1>0, <3>1, <3>2, Zenon DEF KeptOf
    <3>3. CASE x # 0
      <4>1. x \in N
        BY <3>3, Zenon DEF NotZero
      <4> HIDE DEF N
      <4>2. <<x>> \in Seq(N)
        BY <4>1, SMT
      <4> QED BY <3>1, <3>3, <4>2, Zenon DEF KeptOf
    <3> QED BY <3>2, <3>3
  <2> QED BY <2>1, Zenon
<1>2. \A s \in Seq(S) : s \in Seq(Nat)
  BY SeqMonotonic, Zenon
<1>3. \A s \in Seq(N) : s \in Seq(S)
  <2>1. N \subseteq S
    BY Zenon DEF NotZero
  <2> HIDE DEF N
  <2> QED BY <2>1, SeqMonotonic, Zenon
<1>4. \A s \in Seq(N) : \A x \in N : <<x>> \o s \in Seq(N) /\ x \in S /\ x # 0
  <2>1. \A x \in N : x \in S /\ x # 0
    BY Zenon DEF NotZero
  <2> HIDE DEF N
  <2>2. \A s \in Seq(N) : \A x \in N : <<x>> \o s \in Seq(N)
    BY SMT
  <2> QED BY <2>1, <2>2, Zenon
<1>5. \A s \in Seq(S) : \A x \in S : <<x>> \o s \in Seq(S)
  BY SMT
<1> HIDE DEF N
<1>6. <<>> \in T /\ <<>> \in U
  BY <1>0, WithoutNullsCons, Zenon
<1>7. ASSUME NEW s \in Seq(N), s \in T, NEW x \in N PROVE <<x>> \o s \in T
  <2>1. s \in Seq(Nat) /\ x \in Nat /\ x # 0
    BY <1>1, <1>2, <1>3, <1>4, Zenon
  <2>2. WithoutNulls(<<x>> \o s) = <<x>> \o WithoutNulls(s)
    BY <2>1, WithoutNullsCons, Zenon DEF KeptOf
  <2> QED BY <1>4, <1>7, <2>2, Zenon
<1>8. ASSUME NEW s \in Seq(S), s \in U, NEW x \in S PROVE <<x>> \o s \in U
  <2>1. s \in Seq(Nat) /\ x \in Nat
    BY <1>1, <1>2, Zenon
  <2>2. WithoutNulls(<<x>> \o s) = KeptOf(x) \o WithoutNulls(s)
    BY <2>1, WithoutNullsCons, Zenon
  <2>3. KeptOf(x) \o WithoutNulls(s) \in Seq(N)
    BY <1>1, <1>8, Joined, Zenon
  <2> QED BY <1>5, <2>2, <2>3, Zenon
<1> HIDE DEF T, U
<1>9. \A s \in Seq(N) : s \in T
  BY <1>6, <1>7, TextInduction, Zenon
<1>10. \A s \in Seq(S) : s \in U
  BY <1>6, <1>8, TextInduction, Zenon
<1> QED BY <1>9, <1>10, Zenon DEF T, U, N

\* What is at each place of the buffer once a run was moved.
LEMMA RunMovedPlaces ==
  ASSUME NEW S \in SUBSET Nat, NEW s \in Seq(S), NEW p \in 1..Len(s) + 1,
         NEW b, NEW a, NEW m, Compact(s, S, p - 1, b, a, m), NEW j \in 1..Len(s)
  PROVE  /\ j + m >= a /\ j + m < p => MovedRun(b, a, m, p)[j] = s[j + m]
         /\ j + m < a => MovedRun(b, a, m, p)[j] = b[j]
<1> DEFINE n == Len(s)  v == MovedRun(b, a, m, p)
<1>0. n \in Nat
  BY SMT
<1>1. /\ b \in [1..n -> S] /\ a \in Nat /\ m \in Nat /\ a <= p /\ m < p
      /\ (a = 0 => m = 0) /\ (a # 0 => m < a)
  BY <1>0, SMT DEF Compact
<1>2. \A i \in 1..n : i >= a => b[i] = s[i]
  BY Zenon DEF Compact
<1>3. j + m >= a /\ j + m < p => j + m \in 1..n
  BY <1>0, <1>1, SMT
<1> HIDE DEF n
<1>4. CASE ~(a # 0 /\ p # a)
  <2>1. v = b
    BY <1>4, Zenon DEF MovedRun
  <2> HIDE DEF v
  <2>2. j + m >= a /\ j + m < p => j + m = j /\ j >= a
    BY <1>0, <1>1, <1>4, SMT DEF n
  <2>3. j \in 1..n
    BY DEF n
  <2> QED BY <1>2, <1>3, <2>1, <2>2, <2>3, Zenon DEF v
<1>5. CASE a # 0 /\ p # a
  <2> DEFINE dst == a - m  cnt == p - a
  <2>1. DOMAIN b = 1..n /\ j \in 1..n
    BY <1>1 DEF n
  <2>2. v = [i \in 1..n |-> IF i \in dst..dst + cnt - 1 THEN b[i + a - dst] ELSE b[i]]
    BY <1>5, <2>1, Zenon DEF CopiedDown, MovedRun
  <2>3. /\ j \in dst..dst + cnt - 1 <=> (j + m >= a /\ j + m < p)
        /\ j + a - dst = j + m
        /\ j + m < a => ~(j + m >= a)
    BY <1>0, <1>1, SMT DEF n
  <2> HIDE DEF dst, cnt, v
  <2>4. v[j] = IF j + m >= a /\ j + m < p THEN b[j + m] ELSE b[j]
    BY <2>1, <2>2, <2>3, Zenon
  <2> QED BY <1>2, <1>3, <2>3, <2>4, Zenon DEF v
<1> QED BY <1>4, <1>5

\* The buffer after k places holds what is kept of them: in place, or still in the last run.
Caught(s, w, k, b, a, m) ==
  /\ w[k] \in Seq(Nat) /\ Len(w[k]) = k - m
  /\ \A j \in 1..Len(s) : /\ j + m < a => b[j] = w[k][j]
                          /\ j + m >= a /\ j + m <= k => w[k][j] = s[j + m]
Catches(s, S, w, k, r) == SoundScan(s, S, k, r) /\ Caught(s, w, k, r.buf, r.after, r.nulls)

\* Once the last run is moved, all that is kept is in place.
LEMMA MovedCaught ==
  ASSUME NEW S \in SUBSET Nat, NEW s \in Seq(S), NEW p \in 1..Len(s) + 1, NEW w,
         NEW b, NEW a, NEW m, Compact(s, S, p - 1, b, a, m), Caught(s, w, p - 1, b, a, m)
  PROVE  \A j \in 1..Len(s) : j + m < p => MovedRun(b, a, m, p)[j] = w[p - 1][j]
<1> SUFFICES ASSUME NEW j \in 1..Len(s), j + m < p
             PROVE  MovedRun(b, a, m, p)[j] = w[p - 1][j]
  OBVIOUS
<1>1. a \in Nat /\ m \in Nat /\ Len(s) \in Nat
  BY SMT DEF Compact
<1>2. j + m <= p - 1 /\ (j + m < a \/ j + m >= a)
  BY <1>1, SMT
<1>3. /\ j + m >= a /\ j + m < p => MovedRun(b, a, m, p)[j] = s[j + m]
      /\ j + m < a => MovedRun(b, a, m, p)[j] = b[j]
  BY RunMovedPlaces
<1>4. /\ j + m < a => b[j] = w[p - 1][j]
      /\ j + m >= a /\ j + m <= p - 1 => w[p - 1][j] = s[j + m]
  BY Zenon DEF Caught
<1> QED BY <1>2, <1>3, <1>4, Zenon

\* One more character at the end.
LEMMA OneMore ==
  \A g \in Seq(Nat) : \A x \in Nat :
    /\ g \o <<x>> \in Seq(Nat) /\ Len(g \o <<x>>) = Len(g) + 1 /\ (g \o <<x>>)[Len(g) + 1] = x
    /\ \A j \in 1..Len(g) : (g \o <<x>>)[j] = g[j]
BY SMT

\* A step of the scan.
LEMMA ScannedCatches ==
  ASSUME NEW S \in SUBSET Nat, NEW s \in Seq(S), NEW w, Strings(w, KeptOfEach(s)),
         NEW p \in 1..Len(s), NEW r, Catches(s, S, w, p - 1, r)
  PROVE  Catches(s, S, w, p, Scanned(r, p))
<1> DEFINE n == Len(s)  b == r.buf  a == r.after  m == r.nulls  v == MovedRun(b, a, m, p)
           q == Scanned(r, p)  g == w[p - 1]  h == w[p]
<1>0. n \in Nat /\ p \in 1..n /\ p \in 1..n + 1 /\ s[p] \in Nat
  <2>1. s[p] \in S
    OBVIOUS
  <2>2. n \in Nat /\ p \in 1..n /\ p \in 1..n + 1
    BY SMT
  <2> QED BY <2>1, <2>2
<1>1. SoundScan(s, S, p - 1, r) /\ Compact(s, S, p - 1, b, a, m)
  BY Zenon DEF Catches, SoundScan
<1>2. SoundScan(s, S, p, q)
  BY <1>1, ScannedSound
<1>3. Caught(s, w, p - 1, b, a, m)
  BY Zenon DEF Catches
<1>4. a \in Nat /\ m \in Nat /\ a <= p /\ m < p /\ b[p] = s[p]
  <2>1. a \in Nat /\ m \in Nat /\ a <= p - 1 + 1 /\ m <= p - 1
    BY <1>1, Zenon DEF Compact
  <2>2. \A j \in 1..n : j >= a => b[j] = s[j]
    BY <1>1, Zenon DEF Compact
  <2> HIDE DEF a, b, m, n
  <2>3. a <= p /\ m < p /\ p >= a
    BY <1>0, <2>1, SMT
  <2> QED BY <1>0, <2>1, <2>2, <2>3, Zenon
<1>5. h = g \o KeptOf(s[p])
  <2>1. p \in 1..Len(KeptOfEach(s)) /\ KeptOfEach(s)[p] = KeptOf(s[p])
    BY SMT DEF KeptOfEach
  <2> QED BY <2>1, Zenon DEF Strings
<1>6. \A j \in 1..n : j + m < p => v[j] = g[j]
  <2>1. p \in 1..Len(s) + 1
    BY <1>0
  <2> HIDE DEF a, b, m, n
  <2> QED BY <1>1, <1>3, <2>1, MovedCaught DEF n
<1>7. /\ g \in Seq(Nat) /\ Len(g) = p - 1 - m
      /\ \A j \in 1..n : /\ j + m < a => b[j] = g[j]
                         /\ j + m >= a /\ j + m <= p - 1 => g[j] = s[j + m]
  BY <1>3, Zenon DEF Caught
<1> DEFINE av == RunMoved(r, p)
<1>8. av = v
  BY Zenon DEF RunMoved, MovedRun
<1> HIDE DEF n, a, b, m, v, g, h, av
<1>9. CASE s[p] # 0
  <2>1. q = r
    BY <1>4, <1>9, Zenon DEF Scanned, b
  <2> DEFINE x == s[p]
  <2>2. h = g \o <<x>> /\ x \in Nat
    BY <1>0, <1>5, <1>9, Zenon DEF KeptOf
  <2> HIDE DEF x
  <2>3. /\ h \in Seq(Nat) /\ Len(h) = p - m /\ h[p - m] = x
        /\ \A j \in 1..p - 1 - m : h[j] = g[j]
    <3>1. /\ h \in Seq(Nat) /\ Len(h) = Len(g) + 1 /\ h[Len(g) + 1] = x
          /\ \A j \in 1..Len(g) : h[j] = g[j]
      BY <1>7, <2>2, OneMore, Zenon
    <3>2. Len(g) = p - 1 - m /\ Len(g) + 1 = p - m
      BY <1>0, <1>4, <1>7, SMT
    <3> QED BY <3>1, <3>2, Zenon
  <2>4. ASSUME NEW j \in 1..n
        PROVE  /\ j + m < a => b[j] = h[j]
               /\ j + m >= a /\ j + m <= p => h[j] = s[j + m]
    <3>1. /\ j + m < a => j \in 1..p - 1 - m
          /\ j + m <= p => j = p - m \/ j \in 1..p - 1 - m
          /\ j \in 1..p - 1 - m => j + m <= p - 1
          /\ j = p - m => j + m = p
      BY <1>0, <1>4, SMT
    <3> QED BY <1>7, <2>3, <3>1, Zenon DEF x
  <2>5. Caught(s, w, p, b, a, m)
    BY <2>3, <2>4, Zenon DEF Caught, n, h
  <2>6. Catches(s, S, w, p, r)
    BY <1>2, <2>1, <2>5, Zenon DEF Catches, a, b, m
  <2> QED BY <2>1, <2>6, Zenon
<1>10. CASE s[p] = 0
  <2>1. q = [buf |-> v, after |-> p + 1, nulls |-> m + 1]
    BY <1>4, <1>8, <1>10, Zenon DEF Scanned, b, m, av
  <2>2. q.buf = v /\ q.after = p + 1 /\ q.nulls = m + 1
    BY <2>1
  <2>3. h = g
    <3>1. h = g \o <<>>
      BY <1>5, <1>10, Zenon DEF KeptOf
    <3> QED BY <1>7, <3>1, ConcatEmptySeq, Zenon
  <2>4. Len(g) = p - (m + 1)
    BY <1>0, <1>4, <1>7, SMT
  <2>5. ASSUME NEW j \in 1..n
        PROVE  /\ j + (m + 1) < p + 1 => v[j] = h[j]
               /\ ~(j + (m + 1) >= p + 1 /\ j + (m + 1) <= p)
    <3>1. /\ j + (m + 1) < p + 1 => j + m < p
          /\ ~(j + (m + 1) >= p + 1 /\ j + (m + 1) <= p)
      BY <1>0, <1>4, SMT
    <3> QED BY <1>6, <2>3, <3>1, Zenon
  <2>6. Caught(s, w, p, v, p + 1, m + 1)
    BY <1>7, <2>3, <2>4, <2>5, Zenon DEF Caught, n, h
  <2> HIDE DEF q
  <2>7. Catches(s, S, w, p, q)
    BY <1>2, <2>2, <2>6, Zenon DEF Catches, q
  <2> QED BY <2>7, Zenon DEF q
<1> QED BY <1>9, <1>10, Zenon

\* FileRead takes the nulls out of a text, and nothing else (markup.cpp FileRead).
LEMMA NullsRemovedIs ==
  ASSUME NEW S \in SUBSET Nat, NEW s \in Seq(S)
  PROVE  NullsRemoved(s) = WithoutNulls(s)
<1> DEFINE n == Len(s)  u == CHOOSE u : ScanFrom(u, s)  end == u[n]
           b == end.buf  a == end.after  m == end.nulls  p == n + 1
           v == RunMoved(end, p)
<1>0. n \in Nat /\ n \in 0..n /\ p \in 1..Len(s) + 1 /\ p - 1 = n
  BY SMT
<1>1. NullsRemoved(s) = SubSeq(v, 1, n - m)
  BY DEF NullsRemoved, ScanFrom, Scanned
<1> HIDE DEF u
<1>2. ScanFrom(u, s)
  BY ScanDefined, Zenon DEF u
<1>a. s \in Seq(Nat)
  BY SeqMonotonic, Zenon
<1>b. PICK w : Strings(w, KeptOfEach(s)) /\ Strung(KeptOfEach(s)) = w[Len(KeptOfEach(s))]
  BY <1>a, WithoutNullsStrung, StrungIs, Zenon
<1>c. WithoutNulls(s) = w[n] /\ w[0] = <<>>
  <2>1. Len(KeptOfEach(s)) = n
    BY <1>0, SMT DEF KeptOfEach
  <2> HIDE DEF n
  <2> QED BY <1>a, <1>b, <2>1, WithoutNullsStrung, Zenon DEF Strings
<1> HIDE DEF n
<1> DEFINE base == [buf |-> s, after |-> 0, nulls |-> 0]
           T == {k \in 0..n : Catches(s, S, w, k, u[k])}
<1>3. u[0] = base /\ \A k \in 1..n : u[k] = Scanned(u[k - 1], k)
  <2> DEFINE Here(k) == IF k = 0 THEN base ELSE Scanned(u[k - 1], k)
  <2>1. u = [k \in 0..n |-> Here(k)]
    BY <1>2, Zenon DEF ScanFrom, n
  <2>2. 0 \in 0..n /\ \A k \in 1..n : k \in 0..n /\ k # 0
    BY <1>0, SMT
  <2> HIDE DEF Here
  <2>3. u[0] = Here(0) /\ \A k \in 1..n : u[k] = Here(k)
    BY <2>1, <2>2, Zenon
  <2> QED BY <2>2, <2>3, Zenon DEF Here
<1>4. \A k \in 0..n : SoundScan(s, S, k, u[k])
  BY <1>3, ScanSound, Zenon DEF n
<1>5. 0 \in T
  <2>1. base.buf = s /\ base.after = 0 /\ base.nulls = 0
    BY SMT
  <2>2. <<>> \in Seq(Nat) /\ Len(<<>>) = 0 - 0 /\ 0 \in 0..n
    BY <1>0, SMT
  <2>3. \A j \in 1..n : ~(j + 0 < 0) /\ ~(j + 0 <= 0)
    BY <1>0, SMT
  <2>4. Caught(s, w, 0, s, 0, 0)
    BY <1>c, <2>2, <2>3, Zenon DEF Caught, n
  <2> HIDE DEF base
  <2> QED BY <1>3, <1>4, <2>1, <2>2, <2>4, Zenon DEF Catches
<1>6. ASSUME NEW k \in 0..n - 1, k \in T PROVE k + 1 \in T
  <2>1. k + 1 \in 1..n /\ k + 1 \in 0..n /\ (k + 1) - 1 = k
    BY <1>0, SMT
  <2> DEFINE q == k + 1
  <2>2. q \in 1..Len(s) /\ q \in 0..n /\ q \in 1..n
    BY <2>1, Zenon DEF n
  <2>3. Catches(s, S, w, q - 1, u[k]) /\ u[q] = Scanned(u[k], q)
    <3>1. u[q] = Scanned(u[q - 1], q)
      BY <1>3, <2>2
    <3>2. Catches(s, S, w, k, u[k])
      BY <1>6
    <3> QED BY <2>1, <3>1, <3>2, Zenon
  <2> HIDE DEF q
  <2>4. Catches(s, S, w, q, u[q])
    BY <1>b, <2>2, <2>3, ScannedCatches, Zenon
  <2> QED BY <2>2, <2>4, Zenon DEF q
<1>7. Catches(s, S, w, n, end)
  <2>1. n \in T
    <3> HIDE DEF T
    <3> QED BY <1>0, <1>5, <1>6, Upward, Zenon
  <2> QED BY <2>1, Zenon
<1>8. Compact(s, S, p - 1, b, a, m) /\ Caught(s, w, p - 1, b, a, m)
  BY <1>0, <1>7, Zenon DEF SoundScan, Catches
<1>9. v = MovedRun(b, a, m, p)
  BY Zenon DEF RunMoved, MovedRun
<1> HIDE DEF b, a, m, v, end
<1>10. \A j \in 1..n : j + m < p => v[j] = w[n][j]
  <2>1. \A j \in 1..Len(s) : j + m < p => MovedRun(b, a, m, p)[j] = w[p - 1][j]
    BY <1>0, <1>8, MovedCaught
  <2> QED BY <1>0, <1>9, <2>1, Zenon DEF n
<1>11. v \in [1..n -> S]
  <2>1. Moved(s, S, p, m, MovedRun(b, a, m, p))
    BY <1>0, <1>8, RunMovedSound
  <2> QED BY <1>9, <2>1, Zenon DEF Moved, n
<1>12. /\ m \in Nat /\ m <= n /\ w[n] \in Seq(Nat) /\ Len(w[n]) = n - m
  <2>1. m \in Nat /\ m <= p - 1
    BY <1>8, Zenon DEF Compact
  <2> QED BY <1>0, <1>8, <2>1, Zenon DEF Caught
<1> DEFINE t == SubSeq(v, 1, n - m)
<1>13. t \in Seq(S) /\ Len(t) = n - m /\ \A j \in 1..n - m : t[j] = v[j]
  <2>1. v \in Seq(S) /\ Len(v) = n
    BY <1>0, <1>11, SMT
  <2> QED BY <1>0, <1>12, <2>1, SMT
<1>14. \A j \in 1..n - m : j \in 1..n /\ j + m < p
  BY <1>0, <1>12, SMT
<1> HIDE DEF t
<1>15. t \in Seq(Nat) /\ \A j \in 1..Len(t) : t[j] = w[n][j]
  <2>1. t \in Seq(Nat)
    BY <1>13, SeqMonotonic, Zenon
  <2> HIDE DEF p
  <2> QED BY <1>10, <1>13, <1>14, <2>1, Zenon
<1>16. t = w[n]
  BY <1>12, <1>13, <1>15, SameText, Zenon
<1> QED BY <1>1, <1>c, <1>16, Zenon DEF t

\* A character other than null has no null in UTF-16.
LEMMA EncodeUTF16NotZero ==
  ASSUME NEW c \in Scalar, c # 0
  PROVE  EncodeCharUTF16(c) \in Seq(NotZero(Unit))
<1>0. c \in Nat /\ c < 1114112
  BY SMT DEF Scalar, IsScalar, IsCode
<1>1. CASE c < 65536
  <2>1. EncodeCharUTF16(c) = <<c>>
    BY <1>1, SMT DEF EncodeCharUTF16
  <2>2. c \in NotZero(Unit)
    BY <1>0, <1>1, SMT DEF Unit, NotZero
  <2> QED BY <2>1, <2>2, SMT
<1>2. CASE ~(c < 65536)
  <2> DEFINE q == c - 65536
             x == 55296 + ((q \div 1024) % 1024)  y == 56320 + (q % 1024)
  <2>0. q \in Nat
    BY <1>0, <1>2, SMT
  <2>1. x \in NotZero(Unit) /\ y \in NotZero(Unit)
    <3> HIDE DEF q
    <3>1. /\ (q \div 1024) % 1024 \in Nat /\ (q \div 1024) % 1024 < 1024
          /\ q % 1024 \in Nat /\ q % 1024 < 1024
      BY <2>0, SMT
    <3> QED BY <3>1, SMT DEF Unit, NotZero
  <2>2. EncodeCharUTF16(c) = <<x, y>>
    BY <1>2, SMT DEF EncodeCharUTF16
  <2> HIDE DEF x, y
  <2> QED BY <2>1, <2>2, SMT
<1> QED BY <1>1, <1>2

\* The encodings of Unicode.
Unicode == {"UTF-8", "UTF-16"}

\* What Encode does in each of them.
LEMMA UnicodeIs ==
  /\ "UTF-8" \in Unicode /\ "UTF-16" \in Unicode
  /\ \A enc \in Unicode : enc \in Encoding
  /\ \A c : Encode("UTF-8", c) = EncodeCharUTF8(c) /\ Encode("UTF-16", c) = EncodeCharUTF16(c)
  /\ \A c : Encode("ISO-8859-1", c) = IF c < 256 THEN <<c>> ELSE <<>>
BY SMT DEF Unicode, Encoding, Encode

\* A null is a null in each of them, and no other character has one.
LEMMA EncodeNull ==
  ASSUME NEW enc \in Unicode, NEW c \in Scalar
  PROVE  /\ Encode(enc, c) \in Seq(Nat)
         /\ WithoutNulls(Encode(enc, c)) = IF c = 0 THEN <<>> ELSE Encode(enc, c)
<1> DEFINE e == Encode(enc, c)
<1>1. e \in Seq(Nat)
  BY UnicodeIs, EncodeType, Zenon
<1>2. CASE c = 0
  <2>1. e = <<0>>
    <3>1. EncodeCharUTF8(0) = <<0>> /\ EncodeCharUTF16(0) = <<0>>
      BY SMT DEF EncodeCharUTF8, EncodeCharUTF16
    <3> QED BY <1>2, <3>1, UnicodeIs, Zenon DEF Unicode
  <2>2. <<>> \in Seq(Nat) /\ <<0>> \o <<>> = <<0>> /\ 0 \in Nat
    BY SMT
  <2>3. WithoutNulls(<<0>> \o <<>>) = KeptOf(0) \o WithoutNulls(<<>>)
    BY <2>2, WithoutNullsCons, Zenon
  <2>4. KeptOf(0) \o WithoutNulls(<<>>) = <<>>
    <3>1. <<>> \o <<>> = <<>>
      BY SMT
    <3> QED BY <3>1, WithoutNullsCons, Zenon DEF KeptOf
  <2> HIDE DEF e
  <2>5. WithoutNulls(e) = <<>>
    BY <2>1, <2>2, <2>3, <2>4, Zenon
  <2> QED BY <1>1, <1>2, <2>5, Zenon DEF e
<1>3. CASE c # 0
  <2>1. e \in Seq(NotZero(Byte)) \/ e \in Seq(NotZero(Unit))
    BY <1>3, UnicodeIs, EncodeUTF8Type, EncodeUTF16NotZero, Zenon DEF Unicode
  <2> HIDE DEF e
  <2>2. WithoutNulls(e) = e
    BY <2>1, SmallSets, WithoutNullsIs, Zenon
  <2> QED BY <1>1, <1>3, <2>2, Zenon DEF e
<1> QED BY <1>2, <1>3, Zenon

\* Nulls are taken out of a text by taking its null characters out (FileRead, FileReadText).
LEMMA EncodedWithoutNulls ==
  ASSUME NEW enc \in Unicode, NEW c \in Seq(Scalar)
  PROVE  WithoutNulls(Encoded(enc, c)) = Encoded(enc, WithoutNulls(c))
<1> DEFINE Same(s) == WithoutNulls(Encoded(enc, s)) = Encoded(enc, WithoutNulls(s))
           T == {s \in Seq(Scalar) : Same(s)}
<1>0. enc \in Encoding
  BY UnicodeIs, Zenon
<1>1. <<>> \in T
  <2>1. <<>> \in Seq(Scalar)
    BY SMT
  <2>2. Same(<<>>)
    BY <1>0, WithoutNullsCons, EncodedEmpty, Zenon
  <2> QED BY <2>1, <2>2, Zenon
<1>2. ASSUME NEW s \in Seq(Scalar), s \in T, NEW x \in Scalar PROVE <<x>> \o s \in T
  <2> DEFINE t == <<x>> \o s  E == Encoded(enc, s)  w == WithoutNulls(s)  e == Encode(enc, x)
  <2>1. t \in Seq(Scalar) /\ Encoded(enc, t) = e \o E
    BY <1>0, EncodedCons, Zenon
  <2>2. s \in Seq(Nat) /\ x \in Nat
    BY SmallSets, SeqMonotonic, Zenon
  <2>3. E \in Seq(Nat) /\ e \in Seq(Nat)
    <3>1. \A y \in Scalar : Encode(enc, y) \in Seq(Nat)
      BY <1>0, EncodeType, Zenon
    <3>2. Scalar \in SUBSET Scalar
      OBVIOUS
    <3> QED BY <1>0, <3>1, <3>2, EncodedIn, Zenon
  <2>4. WithoutNulls(E) = Encoded(enc, w)
    BY <1>2, Zenon
  <2>5. WithoutNulls(t) = KeptOf(x) \o w
    BY <2>2, WithoutNullsCons, Zenon
  <2>6. WithoutNulls(e \o E) = WithoutNulls(e) \o WithoutNulls(E)
    BY <2>3, WithoutNullsJoined, Zenon
  <2>7. w \in Seq(NotZero(Scalar)) /\ w \in Seq(Scalar)
    <3>1. w \in Seq(NotZero(Scalar))
      BY SmallSets, WithoutNullsIs, Zenon
    <3> QED BY <3>1, SmallSets, SeqMonotonic, Zenon
  <2> HIDE DEF t, E, w
  <2>8. CASE x = 0
    <3>1. WithoutNulls(e) = <<>>
      BY <2>8, EncodeNull, Zenon
    <3> HIDE DEF e
    <3>2. WithoutNulls(e \o E) = <<>> \o WithoutNulls(E)
      BY <2>6, <3>1, Zenon
    <3>3. <<>> \o WithoutNulls(E) = WithoutNulls(E) /\ <<>> \o w = w
      BY <2>3, <2>7, WithoutNullsCons, ConcatEmptySeq, Zenon
    <3>4. WithoutNulls(t) = w
      BY <2>5, <2>8, <3>3, Zenon DEF KeptOf
    <3>5. Same(t)
      BY <2>1, <2>4, <3>2, <3>3, <3>4, Zenon
    <3> QED BY <2>1, <3>5, Zenon DEF t
  <2>9. CASE x # 0
    <3>1. WithoutNulls(e) = e
      BY <2>9, EncodeNull, Zenon
    <3>2. Encoded(enc, <<x>> \o w) = e \o Encoded(enc, w)
      BY <1>0, <2>7, EncodedCons, Zenon
    <3> HIDE DEF e
    <3>3. WithoutNulls(t) = <<x>> \o w
      BY <2>5, <2>9, Zenon DEF KeptOf
    <3>4. Same(t)
      BY <2>1, <2>4, <2>6, <3>1, <3>2, <3>3, Zenon
    <3> QED BY <2>1, <3>4, Zenon DEF t
  <2> QED BY <2>8, <2>9, Zenon
<1> HIDE DEF T
<1>3. \A s \in Seq(Scalar) : s \in T
  BY <1>1, <1>2, TextInduction, Zenon
<1> QED BY <1>3, Zenon DEF T

\* The bytes of a unit, swapped.
SwappedUnit(x) == (x % 256) * 256 + x \div 256

\* Swapped twice a unit is as before, and null stays null.
LEMMA SwappedUnitIs ==
  \A x \in Unit : /\ SwappedUnit(x) \in Unit /\ SwappedUnit(SwappedUnit(x)) = x
                  /\ SwappedUnit(x) = 0 <=> x = 0
                  /\ (x % 256) + 256 * (x \div 256) = x
BY SMT DEF SwappedUnit, Unit

\* Units swapped, one by one.
LEMMA SwappedAt ==
  ASSUME NEW u \in Seq(Unit)
  PROVE  /\ Swapped(u) \in Seq(Unit) /\ Len(Swapped(u)) = Len(u)
         /\ \A k \in 1..Len(u) : u[k] \in Unit /\ Swapped(u)[k] = SwappedUnit(u[k])
<1> DEFINE n == Len(u)  w == Swapped(u)
<1>1. n \in Nat /\ DOMAIN u = 1..n /\ \A k \in 1..n : u[k] \in Unit
  BY SMT
<1>2. w \in Seq(Unit)
  BY SwappedType, Zenon
<1> HIDE DEF n
<1>3. DOMAIN w = 1..n /\ \A k \in 1..n : w[k] = SwappedUnit(u[k])
  BY <1>1, Zenon DEF Swapped, SwappedUnit
<1> HIDE DEF w
<1>4. Len(w) = n
  BY <1>1, <1>2, <1>3, SMT
<1> QED BY <1>1, <1>2, <1>3, <1>4, Zenon DEF n, w

\* To swap the bytes twice is to leave them.
LEMMA SwappedTwice ==
  ASSUME NEW u \in Seq(Unit)
  PROVE  Swapped(Swapped(u)) = u
<1> DEFINE w == Swapped(u)  v == Swapped(w)
<1>1. /\ w \in Seq(Unit) /\ Len(w) = Len(u)
      /\ \A k \in 1..Len(u) : u[k] \in Unit /\ w[k] = SwappedUnit(u[k])
  BY SwappedAt, Zenon
<1> HIDE DEF w
<1>2. /\ v \in Seq(Unit) /\ Len(v) = Len(w)
      /\ \A k \in 1..Len(w) : v[k] = SwappedUnit(w[k])
  BY <1>1, SwappedAt, Zenon
<1> HIDE DEF v
<1>3. v \in Seq(Nat) /\ u \in Seq(Nat) /\ Len(v) = Len(u)
  BY <1>1, <1>2, SmallSets, SeqMonotonic, Zenon
<1>4. \A k \in 1..Len(v) : v[k] = u[k]
  <2>1. \A x \in Unit : SwappedUnit(SwappedUnit(x)) = x
    BY SwappedUnitIs
  <2>2. Len(v) = Len(u) /\ Len(w) = Len(u)
    BY <1>1, <1>2, Zenon
  <2> QED BY <1>1, <1>2, <2>1, <2>2, Zenon
<1>5. v = u
  BY <1>3, <1>4, SameText, Zenon
<1> QED BY <1>5, Zenon DEF v, w

\* Swapping, one unit in front of a text.
LEMMA SwappedCons ==
  ASSUME NEW x \in Unit, NEW u \in Seq(Unit)
  PROVE  /\ <<x>> \o u \in Seq(Unit)
         /\ Swapped(<<x>> \o u) = <<SwappedUnit(x)>> \o Swapped(u)
<1> DEFINE t == <<x>> \o u  a == Swapped(t)  n == Len(u)  y == SwappedUnit(x)
           z == Swapped(u)  b == <<y>> \o z
<1>1. /\ n \in Nat /\ t \in Seq(Unit) /\ Len(t) = n + 1 /\ t[1] = x
      /\ \A k \in 1..n : t[k + 1] = u[k]
  BY SMT
<1> HIDE DEF t
<1>2. /\ z \in Seq(Unit) /\ Len(z) = n /\ \A k \in 1..n : z[k] = SwappedUnit(u[k])
  BY SwappedAt, Zenon
<1>3. /\ a \in Seq(Unit) /\ Len(a) = n + 1
      /\ \A k \in 1..n + 1 : a[k] = SwappedUnit(t[k])
  BY <1>1, SwappedAt, Zenon
<1> HIDE DEF z
<1>4. y \in Unit
  BY SwappedUnitIs, Zenon
<1> HIDE DEF y
<1>5. /\ b \in Seq(Unit) /\ Len(b) = n + 1 /\ b[1] = y /\ \A k \in 1..n : b[k + 1] = z[k]
  BY <1>1, <1>2, <1>4, SMT
<1> HIDE DEF a, b, n
<1>6. \A k \in 1..n + 1 : a[k] = b[k]
  <2>1. \A k \in 1..n + 1 : k = 1 \/ (k - 1 \in 1..n /\ (k - 1) + 1 = k)
    BY <1>1, SMT
  <2>2. 1 \in 1..n + 1 /\ \A k \in 1..n : k + 1 \in 1..n + 1
    BY <1>1, SMT
  <2>3. a[1] = b[1]
    <3>1. a[1] = SwappedUnit(x)
      BY <1>1, <1>3, <2>2, Zenon
    <3> QED BY <1>5, <3>1, Zenon DEF y
  <2>4. ASSUME NEW k \in 1..n PROVE a[k + 1] = b[k + 1]
    <3>1. a[k + 1] = SwappedUnit(t[k + 1])
      BY <1>3, <2>2, Zenon
    <3>2. t[k + 1] = u[k] /\ b[k + 1] = z[k] /\ z[k] = SwappedUnit(u[k])
      BY <1>1, <1>2, <1>5, Zenon
    <3> QED BY <3>1, <3>2, Zenon
  <2> QED BY <2>1, <2>3, <2>4, Zenon
<1>7. a \in Seq(Nat) /\ b \in Seq(Nat)
  BY <1>3, <1>5, SmallSets, SeqMonotonic, Zenon
<1>8. a = b
  BY <1>3, <1>5, <1>6, <1>7, SameText, Zenon
<1> QED BY <1>1, <1>8, Zenon DEF a, b, t, y, z

\* Nulls are the same before and after a swap.
LEMMA SwappedWithoutNulls ==
  ASSUME NEW u \in Seq(Unit)
  PROVE  WithoutNulls(Swapped(u)) = Swapped(WithoutNulls(u))
<1> DEFINE Same(s) == WithoutNulls(Swapped(s)) = Swapped(WithoutNulls(s))
           T == {s \in Seq(Unit) : Same(s)}
<1>1. <<>> \in T
  <2>1. <<>> \in Seq(Unit) /\ Swapped(<<>>) = <<>>
    BY SMT DEF Swapped
  <2>2. Same(<<>>)
    BY <2>1, WithoutNullsCons, Zenon
  <2> QED BY <2>1, <2>2, Zenon
<1>2. ASSUME NEW s \in Seq(Unit), s \in T, NEW x \in Unit PROVE <<x>> \o s \in T
  <2> DEFINE t == <<x>> \o s  z == Swapped(s)  w == WithoutNulls(s)  y == SwappedUnit(x)
  <2>1. t \in Seq(Unit) /\ Swapped(t) = <<y>> \o z
    BY SwappedCons, Zenon
  <2>2. s \in Seq(Nat) /\ x \in Nat /\ z \in Seq(Nat) /\ y \in Nat
    <3>1. z \in Seq(Unit)
      BY SwappedType, Zenon
    <3>2. y \in Unit
      BY SwappedUnitIs, Zenon
    <3> HIDE DEF z, y
    <3> QED BY <3>1, <3>2, SmallSets, SeqMonotonic, Zenon
  <2>3. WithoutNulls(z) = Swapped(w)
    BY <1>2, Zenon
  <2>4. WithoutNulls(t) = KeptOf(x) \o w
    BY <2>2, WithoutNullsCons, Zenon
  <2> HIDE DEF z, y
  <2>5. WithoutNulls(<<y>> \o z) = KeptOf(y) \o WithoutNulls(z)
    BY <2>2, WithoutNullsCons, Zenon
  <2>6. w \in Seq(Unit)
    <3>1. w \in Seq(NotZero(Unit))
      BY SmallSets, WithoutNullsIs, Zenon
    <3>2. NotZero(Unit) \subseteq Unit
      BY Zenon DEF NotZero
    <3> QED BY <3>1, <3>2, SeqMonotonic, Zenon
  <2>7. y = 0 <=> x = 0
    BY SwappedUnitIs, Zenon DEF y
  <2> HIDE DEF t, w
  <2>8. CASE x = 0
    <3>1. Swapped(w) \in Seq(Nat) /\ w \in Seq(Nat)
      BY <2>6, SwappedType, SmallSets, SeqMonotonic, Zenon
    <3>2. <<>> \o Swapped(w) = Swapped(w) /\ <<>> \o w = w
      BY <3>1, ConcatEmptySeq, Zenon
    <3>3. Same(t)
      BY <2>1, <2>3, <2>4, <2>5, <2>7, <2>8, <3>2, Zenon DEF KeptOf
    <3> QED BY <2>1, <3>3, Zenon DEF t
  <2>9. CASE x # 0
    <3>1. Swapped(<<x>> \o w) = <<y>> \o Swapped(w)
      BY <2>6, SwappedCons, Zenon DEF y
    <3>2. Same(t)
      BY <2>1, <2>3, <2>4, <2>5, <2>7, <2>9, <3>1, Zenon DEF KeptOf
    <3> QED BY <2>1, <3>2, Zenon DEF t
  <2> QED BY <2>8, <2>9, Zenon
<1> HIDE DEF T
<1>3. \A s \in Seq(Unit) : s \in T
  BY <1>1, <1>2, TextInduction, Zenon
<1> QED BY <1>3, Zenon DEF T

\* Units read from their bytes (FileReadText, FileWriteText).
LEMMA UnitsOfBytes ==
  ASSUME NEW u \in Seq(Unit)
  PROVE  UnitsOf(BytesOf(u)) = u
<1> DEFINE n == Len(u)  b == BytesOf(u)  w == UnitsOf(b)
<1>1. n \in Nat /\ \A k \in 1..n : u[k] \in Unit
  BY SMT
<1>2. b \in Seq(Byte)
  BY BytesOfType
<1>3. b = [k \in 1..2 * n |-> IF k % 2 = 1 THEN u[(k + 1) \div 2] % 256 ELSE u[k \div 2] \div 256]
  BY DEF BytesOf
<1> HIDE DEF b, n
<1>4. Len(b) = 2 * n
  <2>1. DOMAIN b = 1..2 * n
    BY <1>3, Zenon
  <2> QED BY <1>1, <1>2, <2>1, SMT
<1>5. \A k \in 1..n : b[2 * k - 1] = u[k] % 256 /\ b[2 * k] = u[k] \div 256
  <2> TAKE k \in 1..n
  <2>1. /\ 2 * k - 1 \in 1..2 * n /\ (2 * k - 1) % 2 = 1 /\ ((2 * k - 1) + 1) \div 2 = k
        /\ 2 * k \in 1..2 * n /\ (2 * k) % 2 = 0 /\ (2 * k) \div 2 = k
    BY <1>1, SMT
  <2>2. 0 # 1
    OBVIOUS
  <2> DEFINE o == 2 * k - 1  e == 2 * k
  <2> HIDE DEF o, e
  <2>3. b[o] = u[k] % 256
    BY <1>3, <2>1, Zenon DEF o
  <2>4. b[e] = u[k] \div 256
    BY <1>3, <2>1, <2>2, Zenon DEF e
  <2> QED BY <2>3, <2>4, Zenon DEF o, e
<1>6. w \in Seq(Unit) /\ w = [k \in 1..n |-> b[2 * k - 1] + 256 * b[2 * k]]
  <2>1. w \in Seq(Unit)
    BY <1>2, UnitsOfType
  <2>2. Len(b) \div 2 = n
    BY <1>1, <1>4, SMT
  <2> QED BY <2>1, <2>2, Zenon DEF UnitsOf
<1> HIDE DEF w
<1>7. Len(w) = n /\ \A k \in 1..n : w[k] = b[2 * k - 1] + 256 * b[2 * k]
  BY <1>1, <1>6, SMT
<1>8. \A k \in 1..n : w[k] = u[k]
  <2> TAKE k \in 1..n
  <2>1. (u[k] % 256) + 256 * (u[k] \div 256) = u[k]
    BY <1>1, SwappedUnitIs, Zenon
  <2> DEFINE x == u[k] % 256  y == u[k] \div 256  o == b[2 * k - 1]  e == b[2 * k]
  <2>2. o = x /\ e = y
    BY <1>5, Zenon
  <2>3. w[k] = o + 256 * e
    BY <1>7, Zenon
  <2>4. x + 256 * y = u[k]
    BY <2>1, Zenon
  <2> HIDE DEF x, y, o, e
  <2> QED BY <2>2, <2>3, <2>4, Zenon
<1>9. w \in Seq(Nat) /\ u \in Seq(Nat)
  BY <1>6, SmallSets, SeqMonotonic, Zenon
<1>10. w = u
  BY <1>7, <1>8, <1>9, SameText, Zenon DEF n
<1> QED BY <1>10, Zenon DEF w, b

\* The rest of a text from a place on.
LEMMA RestOf ==
  ASSUME NEW S, NEW c \in Seq(S)
  PROVE  /\ SubSeq(c, 1, Len(c)) = c /\ SubSeq(c, Len(c) + 1, Len(c)) = <<>>
         /\ \A k \in 1..Len(c) + 1 : SubSeq(c, k, Len(c)) \in Seq(S)
         /\ \A k \in 1..Len(c) : SubSeq(c, k, Len(c)) = <<c[k]>> \o SubSeq(c, k + 1, Len(c))
<1>1. SubSeq(c, 1, Len(c)) = c /\ SubSeq(c, Len(c) + 1, Len(c)) = <<>>
  BY SMT
<1>2. \A k \in 1..Len(c) + 1 : SubSeq(c, k, Len(c)) \in Seq(S)
  BY SMT
<1>3. \A k \in 1..Len(c) : SubSeq(c, k, Len(c)) = <<c[k]>> \o SubSeq(c, k + 1, Len(c))
  BY SMT
<1> QED BY <1>1, <1>2, <1>3, Zenon

\* A making comes to the places at, one after the other; g[k] is made of the pieces at the
\* k-th of them and behind it.
Comes(m, n, at, D, next, piece, g) ==
  /\ m \in Nat /\ at[m + 1] \in 1..n /\ at[m + 1] \notin D /\ g[m + 1] = <<>>
  /\ \A k \in 1..m : /\ at[k] \in 1..n /\ at[k] \in D /\ next[at[k]] = at[k + 1]
                     /\ g[k] = piece[at[k]] \o g[k + 1]

\* The text that is made is the one made of the pieces at those places.
Reaches(f, at, g) == f[at[1]] = g[1]

\* It is: by induction from the last place back.
LEMMA Retraced ==
  ASSUME NEW m, NEW n, NEW at, NEW D, NEW next, NEW piece, NEW f, NEW g,
         Made(f, n, D, next, piece), Comes(m, n, at, D, next, piece, g)
  PROVE  Reaches(f, at, g)
<1> DEFINE T == {k \in 1..m + 1 : f[at[k]] = g[k]}
<1>0. /\ m \in Nat /\ at[m + 1] \in 1..n /\ at[m + 1] \notin D /\ g[m + 1] = <<>>
      /\ \A k \in 1..m : /\ at[k] \in 1..n /\ at[k] \in D /\ next[at[k]] = at[k + 1]
                         /\ g[k] = piece[at[k]] \o g[k + 1]
  BY Zenon DEF Comes
<1>1. \A i \in 1..n : f[i] = IF i \in D THEN piece[i] \o f[next[i]] ELSE <<>>
  BY Zenon DEF Made
<1>2. ASSUME NEW k \in 1..m + 1, \A j \in k + 1..m + 1 : j \in T PROVE k \in T
  <2>1. CASE k = m + 1
    <3>1. f[at[m + 1]] = <<>>
      BY <1>0, <1>1, Zenon
    <3> QED BY <1>0, <2>1, <3>1, Zenon
  <2>2. CASE k # m + 1
    <3>1. k \in 1..m /\ k + 1 \in k + 1..m + 1
      BY <1>0, <2>2, SMT
    <3>2. f[at[k + 1]] = g[k + 1]
      BY <1>2, <3>1, Zenon
    <3>3. f[at[k]] = piece[at[k]] \o f[next[at[k]]]
      <4>1. at[k] \in 1..n /\ at[k] \in D
        BY <1>0, <3>1, Zenon
      <4> QED BY <1>1, <4>1, Zenon
    <3>4. next[at[k]] = at[k + 1] /\ g[k] = piece[at[k]] \o g[k + 1]
      BY <1>0, <3>1, Zenon
    <3> QED BY <3>2, <3>3, <3>4, Zenon
  <2> QED BY <2>1, <2>2, Zenon
<1>3. m + 1 \in Nat /\ 1 \in 1..m + 1
  BY <1>0, SMT
<1>4. 1 \in T
  <2> HIDE DEF T
  <2> QED BY <1>2, <1>3, Downward, Zenon
<1> QED BY <1>4, Zenon DEF Reaches

\* The places where the characters of a text are, and the end of it.
Places(at, enc, c, s) ==
  /\ s \in Seq(Nat) /\ at[1] = 1 /\ at[Len(c) + 1] = Len(s) + 1
  /\ \A k \in 1..Len(c) : /\ c[k] \in Scalar /\ at[k] \in 1..Len(s)
                          /\ at[k + 1] = at[k] + Len(Encode(enc, c[k]))
                          /\ StandsAt(Encode(enc, c[k]), s, at[k])

\* Every text has them.
LEMMA PlacesOf ==
  ASSUME NEW enc \in Unicode, NEW c \in Seq(Scalar), NEW u, Spells(u, enc, c)
  PROVE  /\ Places([k \in 1..Len(c) + 1 |-> Len(u[k - 1]) + 1], enc, c, u[Len(c)])
         /\ \A k \in 0..Len(c) : Len(u[k]) \in Nat
<1> DEFINE n == Len(c)  s == u[n]  at == [k \in 1..n + 1 |-> Len(u[k - 1]) + 1]
<1>0. enc \in Encoding
  BY UnicodeIs, Zenon
<1>1. n \in Nat /\ n \in 0..n /\ \A k \in 1..n : c[k] \in Scalar /\ k - 1 \in 0..n /\ k \in 0..n
  BY SMT
<1>2. s \in Seq(Nat) /\ u[0] = <<>>
  BY <1>1, Zenon DEF Spells
<1>3. /\ \A k \in 0..n : Len(u[k]) \in Nat
      /\ \A k \in 1..n : /\ StandsAt(Encode(enc, c[k]), s, Len(u[k - 1]) + 1)
                         /\ Len(u[k]) = Len(u[k - 1]) + Len(Encode(enc, c[k]))
  BY <1>0, Standing, Zenon
<1> HIDE DEF n
<1>4. at[1] = 1 /\ at[n + 1] = Len(s) + 1
  <2>1. 1 \in 1..n + 1 /\ n + 1 \in 1..n + 1 /\ 1 - 1 = 0 /\ (n + 1) - 1 = n
        /\ Len(<<>>) + 1 = 1
    BY <1>1, SMT
  <2>2. at[1] = Len(u[0]) + 1 /\ at[n + 1] = Len(u[n]) + 1
    BY <2>1, Zenon
  <2> QED BY <1>2, <2>1, <2>2, Zenon
<1>5. ASSUME NEW k \in 1..n
      PROVE  /\ c[k] \in Scalar /\ at[k] \in 1..Len(s)
             /\ at[k + 1] = at[k] + Len(Encode(enc, c[k]))
             /\ StandsAt(Encode(enc, c[k]), s, at[k])
  <2> DEFINE e == Encode(enc, c[k])  l == Len(e)  p == Len(u[k - 1])  q == Len(u[k])
             m == Len(s)
  <2>1. k \in 1..n + 1 /\ k + 1 \in 1..n + 1 /\ (k + 1) - 1 = k
    BY <1>1, SMT
  <2>2. at[k] = p + 1 /\ at[k + 1] = q + 1
    BY <2>1, Zenon
  <2>3. c[k] \in Scalar /\ StandsAt(e, s, at[k]) /\ q = p + l /\ p \in Nat
    BY <1>1, <1>3, <2>2, Zenon
  <2>4. l \in 1..4
    <3>1. Len(EncodeCharUTF8(c[k])) \in 1..4 /\ Len(EncodeCharUTF16(c[k])) \in 1..2
      BY <2>3, EncodeUTF8Type, EncodeUTF16Type, Zenon
    <3>2. e = EncodeCharUTF8(c[k]) \/ e = EncodeCharUTF16(c[k])
      BY UnicodeIs, Zenon DEF Unicode
    <3>3. \A i \in 1..2 : i \in 1..4
      BY SMT
    <3> HIDE DEF e
    <3> QED BY <3>1, <3>2, <3>3, Zenon
  <2>5. at[k] + l - 1 <= m
    BY <2>3, Zenon DEF StandsAt
  <2>6. m \in Nat
    BY <1>2, SMT
  <2> HIDE DEF at, e, l, p, q, m
  <2>7. at[k] \in 1..m /\ at[k + 1] = at[k] + l
    BY <2>2, <2>3, <2>4, <2>5, <2>6, SMT
  <2> QED BY <2>3, <2>7, Zenon DEF m, l, e
<1> HIDE DEF at
<1>6. Places(at, enc, c, s)
  BY <1>2, <1>4, <1>5, Zenon DEF Places, n
<1> QED BY <1>3, <1>6, Zenon DEF at, n

\* The codes that a loop lists are pieces of one code each.
LEMMA ListsMade ==
  ASSUME NEW n \in Nat, NEW m \in Nat, m < n, NEW next, NEW code, NEW f,
         Lists(f, n, m, next, code)
  PROVE  Made(f, n, 1..m, next, [i \in 1..m |-> <<code[i]>>])
<1> DEFINE D == 1..m  piece == [i \in D |-> <<code[i]>>]
           Here(i) == IF i > m THEN <<>> ELSE <<code[i]>> \o f[next[i]]
<1>1. \A i \in 1..n : i \in D <=> ~(i > m)
  BY SMT
<1>2. \A i \in D : piece[i] = <<code[i]>>
  BY Zenon
<1> HIDE DEF D, piece
<1>3. f = [i \in 1..n |-> Here(i)]
  BY Zenon DEF Lists
<1> HIDE DEF Here
<1>4. \A i \in 1..n : f[i] = Here(i)
  BY <1>3, Zenon
<1>5. f = [i \in 1..n |-> f[i]]
  BY <1>3, <1>4, Zenon
<1>6. ASSUME NEW i \in 1..n PROVE f[i] = IF i \in D THEN piece[i] \o f[next[i]] ELSE <<>>
  BY <1>1, <1>2, <1>4, Zenon DEF Here
<1>7. Made(f, n, D, next, piece)
  BY <1>5, <1>6, Zenon DEF Made
<1> QED BY <1>7, Zenon DEF D, piece

\* A loop that comes to each character and lists its code lists the text.
LEMMA ListedText ==
  ASSUME NEW n \in Nat, NEW enc, NEW c \in Seq(Scalar), NEW s, NEW at, Places(at, enc, c, s),
         Len(s) < n, NEW next, NEW code, NEW f, Lists(f, n, Len(s), next, code),
         \A k \in 1..Len(c) : next[at[k]] = at[k + 1] /\ code[at[k]] = c[k]
  PROVE  f[1] = c
<1> DEFINE m == Len(s)  l == Len(c)  D == 1..m  piece == [i \in D |-> <<code[i]>>]
           g == [k \in 1..l + 1 |-> SubSeq(c, k, l)]
<1>1. s \in Seq(Nat) /\ at[1] = 1 /\ at[l + 1] = m + 1 /\ \A k \in 1..l : at[k] \in 1..m
  BY Zenon DEF Places
<1>2. m \in Nat /\ l \in Nat /\ m < n
  BY <1>1, SMT
<1>3. Made(f, n, D, next, piece)
  BY <1>2, ListsMade
<1>4. /\ \A k \in 1..m : k \in 1..n
      /\ m + 1 \in 1..n /\ m + 1 \notin 1..m
      /\ l + 1 \in 1..l + 1 /\ 1 \in 1..l + 1
      /\ \A k \in 1..l : k \in 1..l + 1 /\ k + 1 \in 1..l + 1
  BY <1>2, SMT
<1>5. /\ g[1] = c /\ g[l + 1] = <<>>
      /\ \A k \in 1..l : g[k] = <<c[k]>> \o g[k + 1]
  <2>1. /\ SubSeq(c, 1, l) = c /\ SubSeq(c, l + 1, l) = <<>>
        /\ \A k \in 1..l : SubSeq(c, k, l) = <<c[k]>> \o SubSeq(c, k + 1, l)
    BY RestOf, Zenon
  <2> HIDE DEF l
  <2> QED BY <1>4, <2>1, Zenon
<1>6. \A i \in D : piece[i] = <<code[i]>>
  BY Zenon
<1> HIDE DEF m, l, g, piece
<1>7. ASSUME NEW k \in 1..l
      PROVE  /\ at[k] \in 1..n /\ at[k] \in D /\ next[at[k]] = at[k + 1]
             /\ g[k] = piece[at[k]] \o g[k + 1]
  <2>1. at[k] \in 1..m /\ next[at[k]] = at[k + 1] /\ code[at[k]] = c[k]
    BY <1>1, Zenon DEF l
  <2>2. at[k] \in 1..n /\ at[k] \in D
    BY <1>4, <2>1, Zenon
  <2>3. piece[at[k]] = <<c[k]>>
    BY <1>6, <2>1, <2>2, Zenon
  <2>4. g[k] = <<c[k]>> \o g[k + 1]
    BY <1>5, Zenon
  <2> QED BY <2>1, <2>2, <2>3, <2>4, Zenon
<1>8. Reaches(f, at, g)
  <2>1. Comes(l, n, at, D, next, piece, g)
    BY <1>1, <1>2, <1>4, <1>5, <1>7, Zenon DEF Comes
  <2> HIDE DEF D
  <2> QED BY <1>3, <2>1, Retraced, Zenon
<1> QED BY <1>1, <1>5, <1>8, Zenon DEF Reaches

\* The loop over bytes: the place behind the character at each place, and its code.
Next8(s, n) == [i \in 1..n |-> DecodeCharUTF8(s, i).next]
Code8(s, n) == [i \in 1..n |-> OrMark(DecodeCharUTF8(s, i).code)]

\* CodesOfUTF8 is such a list.
LEMMA CodesOfUTF8Lists ==
  ASSUME NEW s \in Seq(Nat)
  PROVE  \E n \in Nat : \E f : /\ Len(s) < n /\ Lists(f, n, Len(s), Next8(s, n), Code8(s, n))
                               /\ CodesOfUTF8(s) = f[1]
<1> DEFINE m == Len(s)  n == 4 * m + 5  next == Next8(s, n)  code == Code8(s, n)
           Is(f) == f = [i \in 1..n |->
                          IF i > m THEN <<>>
                          ELSE LET d == DecodeCharUTF8(s, i) IN <<OrMark(d.code)>> \o f[d.next]]
<1>1. m \in Nat /\ n \in Nat /\ m < n /\ \A i \in 1..m : i \in 1..n
  BY SMT
<1>2. ASSUME NEW i \in 1..m PROVE next[i] \in i + 1..n /\ code[i] \in Nat
  <2>1. DecodeCharUTF8(s, i).next \in i + 1..m + 1 /\ OrMark(DecodeCharUTF8(s, i).code) \in Nat
    BY <1>1, UTF8GoesOn, UTF8Code, Zenon
  <2>2. \A k \in i + 1..m + 1 : k \in i + 1..n
    BY <1>1, SMT
  <2> HIDE DEF n
  <2> QED BY <1>1, <2>1, <2>2, Zenon DEF Next8, Code8
<1>3. CodesOfUTF8(s) = (CHOOSE f : Is(f))[1]
  BY DEF CodesOfUTF8
<1> HIDE DEF m, n
<1>4. \A f : Is(f) <=> Lists(f, n, m, next, code)
  BY Zenon DEF Lists, Next8, Code8
<1> HIDE DEF Is, next, code
<1>5. \E f : Lists(f, n, m, next, code)
  BY <1>1, <1>2, Listing
<1>6. \E f : Lists(f, n, m, next, code) /\ CodesOfUTF8(s) = f[1]
  BY <1>3, <1>4, <1>5, Zenon
<1> QED BY <1>1, <1>6, Zenon DEF m, next, code

\* Of units UTF-16 makes characters, whatever they are; a null may be among them.
LEMMA UTF16Any ==
  ASSUME NEW s \in Seq(Unit), NEW i \in 1..Len(s)
  PROVE  /\ DecodeCharUTF16(s, i).next \in i + 1..Len(s) + 1
         /\ OrMark(DecodeCharUTF16(s, i).code) \in Scalar
<1> DEFINE d == DecodeCharUTF16(s, i)  x == s[i]  y == s[i + 1]
<1>1. \A k \in 1..Len(s) : s[k] \in Unit
  BY SMT
<1>2. Len(s) \in Nat /\ i + 1 \in i + 1..Len(s) + 1
  BY SMT
<1>3. \A a, b : Decoded(a, b).code = a /\ Decoded(a, b).next = b
  BY SMT DEF Decoded
<1>4. OrMark(Bad) \in Scalar
  BY SMT DEF OrMark, Bad, Mark, Scalar, IsScalar, IsCode
<1>5. \A a \in Scalar : OrMark(a) = a
  BY SMT DEF OrMark, Bad, Scalar
<1>6. x \in Unit
  BY <1>1, Zenon
<1>7. CASE ~(x \div 2048 = 27)
  <2>1. d = Decoded(x, i + 1)
    BY <1>7, SMT DEF DecodeCharUTF16
  <2> HIDE DEF x
  <2>2. x \in Scalar
    BY <1>6, <1>7, SMT DEF Unit, Scalar, IsScalar, IsCode
  <2>3. d.code = x /\ d.next = i + 1
    BY <1>3, <2>1, Zenon
  <2> QED BY <1>2, <1>5, <2>2, <2>3, Zenon
<1>8. CASE x \div 2048 = 27 /\ (i = Len(s) \/ (i # Len(s) /\ y = 0))
  <2>1. d = Decoded(Bad, i + 1)
    BY <1>8, SMT DEF DecodeCharUTF16
  <2>2. d.code = Bad /\ d.next = i + 1
    BY <1>3, <2>1, Zenon
  <2> QED BY <1>2, <1>4, <2>2, Zenon
<1>9. CASE x \div 2048 = 27 /\ i # Len(s) /\ y # 0
  <2> DEFINE c == (x % 1024) * 1024 + (y % 1024) + 65536
  <2>1. i + 1 \in 1..Len(s) /\ i + 2 \in i + 1..Len(s) + 1
    BY <1>2, <1>9, SMT
  <2>2. y \in Unit
    BY <1>1, <2>1, Zenon
  <2>4. d = Decoded(c, i + 2)
    BY <1>9, SMT DEF DecodeCharUTF16
  <2> HIDE DEF x, y
  <2>5. x % 1024 \in Nat /\ x % 1024 < 1024 /\ y % 1024 \in Nat /\ y % 1024 < 1024
    BY <1>6, <2>2, SMT DEF Unit
  <2>6. c \in Scalar
    BY <2>5, SMT DEF Scalar, IsScalar, IsCode
  <2> HIDE DEF c
  <2>7. d.code = c /\ d.next = i + 2
    BY <1>3, <2>4, Zenon
  <2> QED BY <1>5, <2>1, <2>6, <2>7, Zenon
<1> QED BY <1>7, <1>8, <1>9

\* The loop over units, and what it makes of them.
Next16(s, n) == [i \in 1..n |-> DecodeCharUTF16(s, i).next]
Code16(s, n) == [i \in 1..n |-> OrMark(DecodeCharUTF16(s, i).code)]

\* CodesOfUTF16 is such a list.
LEMMA CodesOfUTF16Lists ==
  ASSUME NEW s \in Seq(Unit)
  PROVE  /\ CodesOfUTF16(s) \in Seq(Scalar)
         /\ \E n \in Nat : \E f : /\ Len(s) < n
                                  /\ Lists(f, n, Len(s), Next16(s, n), Code16(s, n))
                                  /\ CodesOfUTF16(s) = f[1]
<1> DEFINE m == Len(s)  n == 2 * m + 3  next == Next16(s, n)  code == Code16(s, n)
           Is(f) == f = [i \in 1..n |->
                          IF i > m THEN <<>>
                          ELSE LET d == DecodeCharUTF16(s, i) IN <<OrMark(d.code)>> \o f[d.next]]
<1>1. m \in Nat /\ n \in Nat /\ m < n /\ \A i \in 1..m : i \in 1..n
  BY SMT
<1>2. ASSUME NEW i \in 1..m PROVE next[i] \in i + 1..n /\ code[i] \in Scalar
  <2>1. /\ DecodeCharUTF16(s, i).next \in i + 1..m + 1
        /\ OrMark(DecodeCharUTF16(s, i).code) \in Scalar
    BY <1>1, UTF16Any, Zenon
  <2>2. \A k \in i + 1..m + 1 : k \in i + 1..n
    BY <1>1, SMT
  <2> HIDE DEF n
  <2> QED BY <1>1, <2>1, <2>2, Zenon DEF Next16, Code16
<1>3. CodesOfUTF16(s) = (CHOOSE f : Is(f))[1]
  BY DEF CodesOfUTF16
<1> HIDE DEF m, n
<1>4. \A f : Is(f) <=> Lists(f, n, m, next, code)
  BY Zenon DEF Lists, Next16, Code16
<1>5. Scalar \in SUBSET Nat
  BY SmallSets, Zenon
<1> HIDE DEF Is, next, code
<1>6. /\ \E f : Lists(f, n, m, next, code)
      /\ \A f : Lists(f, n, m, next, code) => f[1] \in Seq(Scalar)
  BY <1>1, <1>2, <1>5, Listing
<1>7. /\ CodesOfUTF16(s) \in Seq(Scalar)
      /\ \E f : Lists(f, n, m, next, code) /\ CodesOfUTF16(s) = f[1]
  BY <1>3, <1>4, <1>6, Zenon
<1> QED BY <1>1, <1>7, Zenon DEF m, next, code

\* What lies behind a buffer are units.
LEMMA BeyondUnits == \A x \in Beyond : x \in Unit
BY TextAssumption, SMT DEF Unit

\* Load reads bytes from a file of another kind too.
LEMMA AstrayInv ==
  ASSUME FileInv, LoadAstray
  PROVE  FileInv'
<1> DEFINE open == OpenedToRead(file, flags)  s == Behind(open.bom)
           b == NullsRemoved(s)  m == Len(b) - Len(b) \div 2
           r == ReadText(s, open.flags, open.enc)
           t(rest) == Encoded("UTF-8", CodesOfUTF16(UnitsAstray(b, rest)))
<1>1. /\ file # Absent /\ flags' = open.flags /\ state' = "astray" /\ file' = file
      /\ \E rest \in [1..m -> Beyond] :
           text' = IF open.enc = "UTF-16LE" THEN r ELSE t(rest)
  BY Zenon DEF LoadAstray
<1>2. flags \in SUBSET FileFlags /\ file \in Seq(Byte)
  BY <1>1, FileTypeIs, Zenon DEF FileInv
<1>3. /\ open.flags \in SUBSET FileFlags /\ ReadAs(open.flags, open.enc) /\ open.bom \in Seq(Byte)
  BY <1>2, OpenedToReadIs, Zenon
<1> HIDE DEF open
<1>4. s \in Seq(Byte)
  <2> DEFINE n == Len(open.bom)
  <2>1. n \in Nat /\ s = SubSeq(file, n + 1, Len(file))
    BY <1>3, SMT DEF Behind
  <2> HIDE DEF n, s
  <2> QED BY <1>2, <2>1, SMT
<1> HIDE DEF s
<1>5. r \in Seq(Byte)
  BY <1>3, <1>4, ReadTextSound, Zenon DEF IsText
<1>6. b \in Seq(Byte)
  <2>1. b \in Seq(NotZero(Byte))
    BY <1>4, SmallSets, NullsRemovedSound, Zenon
  <2> HIDE DEF b
  <2> QED BY <2>1, SmallSets, SeqMonotonic, Zenon
<1> HIDE DEF b, r
<1>7. ASSUME NEW rest \in [1..m -> Beyond] PROVE t(rest) \in Seq(Byte)
  <2>1. m \in Nat
    <3>1. Len(b) \in Nat
      BY <1>6, SMT
    <3> QED BY <3>1, SMT
  <2>2. rest \in Seq(Unit)
    <3>1. \A x \in Beyond : x \in Unit
      BY BeyondUnits
    <3> HIDE DEF m
    <3>2. \A k \in 1..m : rest[k] \in Beyond
      BY <1>7
    <3>3. \A k \in 1..m : rest[k] \in Unit
      BY <3>1, <3>2, Zenon
    <3>4. rest = [k \in 1..m |-> rest[k]]
      BY <1>7
    <3>5. [k \in 1..m |-> rest[k]] \in [1..m -> Unit]
      BY <3>3, Zenon
    <3>6. rest \in [1..m -> Unit]
      BY <3>4, <3>5, Zenon
    <3> QED BY <2>1, <3>6, SMT
  <2> DEFINE w == UnitsAstray(b, rest)
  <2>3. w \in Seq(Unit)
    BY <1>6, <2>2, UnitsOfType, Joined, Zenon DEF UnitsAstray
  <2> HIDE DEF w
  <2>4. CodesOfUTF16(w) \in Seq(Scalar)
    BY <2>3, CodesOfUTF16Lists, Zenon
  <2>5. Encoded("UTF-8", CodesOfUTF16(w)) \in Seq(Byte)
    BY <2>4, EncodedBytes, Zenon
  <2> QED BY <2>5, Zenon DEF w
<1> HIDE DEF t, m
<1>8. text' \in Seq(Byte) /\ "astray" # "loaded"
  <2>1. "astray" # "loaded"
    BY SMT
  <2> QED BY <1>1, <1>5, <1>7, <2>1, Zenon
<1> QED BY <1>1, <1>2, <1>3, <1>8, QuietInv, Zenon

\* Every operation of the file keeps the invariant: a load by LoadInv, a save and a file written
\* by others because they write bytes, the rest because they leave the text or set it.
LEMMA FileNextInv ==
  ASSUME FileInv, [FileNext]_fileVars
  PROVE  FileInv'
<1>0. /\ flags \in SUBSET FileFlags /\ (file = Absent \/ file \in Seq(Byte))
      /\ text \in Seq(Byte) /\ state \in {"set", "loaded", "astray", "saved"}
  BY FileTypeIs, Zenon DEF FileInv
<1>1. ASSUME Load PROVE FileInv'
  BY <1>1, LoadInv
<1>9. ASSUME LoadAstray PROVE FileInv'
  BY <1>9, AstrayInv
<1>2. ASSUME LoadFails PROVE FileInv'
  <2>1. <<>> \in Seq(Byte) /\ "set" # "loaded"
    BY SMT
  <2>2. text' = <<>> /\ state' = "set" /\ flags' = flags /\ file' = file
    BY <1>2, Zenon DEF LoadFails
  <2> QED BY <1>0, <2>1, <2>2, QuietInv, Zenon
<1>3. ASSUME Save PROVE FileInv'
  <2> DEFINE row == OpenedToWrite(flags)
             enc == IF row # NoBom THEN row.enc
                    ELSE IF Declared(text) # "" THEN Declared(text) ELSE "UTF-8"
             t == row.bom \o WrittenText(text, flags, enc)
  <2>1. file' = t /\ state' = "saved" /\ text' = text /\ flags' = flags
    BY <1>3, Zenon DEF Save
  <2>2. t \in Seq(Byte) /\ "saved" # "loaded"
    BY <1>0, SavedBytes, Zenon
  <2> HIDE DEF t
  <2> QED BY <1>0, <2>1, <2>2, QuietInv, Zenon
<1>4. ASSUME NEW c \in Texts, SetText(c) PROVE FileInv'
  <2>1. Encoded("UTF-8", c) \in Seq(Byte) /\ "set" # "loaded"
    BY TextsAre, EncodedBytes, Zenon
  <2>2. text' = Encoded("UTF-8", c) /\ state' = "set" /\ flags' = flags /\ file' = file
    BY <1>4, Zenon DEF SetText
  <2> QED BY <1>0, <2>1, <2>2, QuietInv, Zenon
<1>5. ASSUME NEW f \in {{}, {"LE"}, {"BE"}, {"preamble"}}, SetDocFlags(f) PROVE FileInv'
  <2>1. f \in SUBSET FileFlags
    BY Zenon DEF FileFlags
  <2>2. flags' = f /\ text' = text /\ file' = file /\ state' = state
    BY <1>5, Zenon DEF SetDocFlags
  <2> QED BY <1>0, <2>1, <2>2, QuietInv, Zenon
<1>6. ASSUME NEW c \in Texts, NEW e \in {"UTF-8", "preamble", "LE", "BE", "ISO-8859-1"},
             OthersWrite(c, e)
      PROVE  FileInv'
  <2> DEFINE t == BomOf(e) \o InFile(c, e)
  <2>1. /\ e = "ISO-8859-1" => Kept(c, e) # Unknown
        /\ file' = t /\ text' = text /\ flags' = flags /\ state' = state
    BY <1>6, Zenon DEF OthersWrite
  <2>2. t \in Seq(Byte)
    BY <2>1, InFileBytes, MarkedBytes, Zenon
  <2> HIDE DEF t
  <2> QED BY <1>0, <2>1, <2>2, QuietInv, Zenon
<1>7. ASSUME NEW n \in 0..MaxChars + 1, NEW e \in {"", "preamble", "LE", "BE"},
             NEW b \in [1..n -> Garbage], OthersWriteBytes(b, e)
      PROVE  FileInv'
  <2> DEFINE t == BomOf(e) \o b
  <2>1. file' = t /\ text' = text /\ flags' = flags /\ state' = state
    BY <1>7, Zenon DEF OthersWriteBytes
  <2>2. b \in Seq(Byte)
    <3> HIDE DEF t
    <3> QED BY GarbageBytes, Zenon
  <2>4. t \in Seq(Byte)
    BY <2>2, MarkedBytes, Zenon
  <2> HIDE DEF t
  <2> QED BY <1>0, <2>1, <2>4, QuietInv, Zenon
<1>8. CASE UNCHANGED fileVars
  <2>1. text' = text /\ flags' = flags /\ file' = file /\ state' = state
    BY <1>8, Zenon DEF fileVars
  <2> QED BY <1>0, <2>1, QuietInv, Zenon
<1> QED BY <1>1, <1>2, <1>3, <1>4, <1>5, <1>6, <1>7, <1>8, <1>9, Zenon DEF FileNext

\* Whatever bytes a file holds, in any of the encodings, with any mark and of any length, the
\* text that Load hands to the parser is UTF-8 without nulls, or declares an encoding that
\* nobody knows and is without nulls (FileRead, FileReadText, IConv): after every load that does
\* not go astray, whatever loads went astray before it.
THEOREM LoadedTextAlways == FileSpec => [](FileTypeOK /\ LoadedIsText)
<1>1. FileInit => FileInv
  BY FileInitInv
<1>2. FileInv /\ [FileNext]_fileVars => FileInv'
  BY FileNextInv
<1>3. FileInv => FileTypeOK /\ LoadedIsText
  BY DEF FileInv
<1> QED BY <1>1, <1>2, <1>3, PTL DEF FileSpec

\* A text that was written in UTF-8 or in UTF-16 is read as itself.
LEMMA CodesOfEncoded ==
  ASSUME NEW c \in Seq(Scalar)
  PROVE  /\ CodesOfUTF8(Encoded("UTF-8", c)) = c
         /\ CodesOfUTF16(Encoded("UTF-16", c)) = c
<1>0. \A a, b : Decoded(a, b).code = a /\ Decoded(a, b).next = b
  BY SMT DEF Decoded
<1>a. \A x \in Scalar : OrMark(x) = x /\ x \in Nat /\ IsScalar(x) /\ IsCode(x)
  BY SMT DEF OrMark, Bad, Scalar, IsScalar, IsCode
<1>b. \A m \in Nat : \A i \in 1..m : i \in Nat \ {0}
  BY SMT
<1>c. \A n, m \in Nat : m < n => \A i \in 1..m : i \in 1..n
  BY SMT
<1>1. CodesOfUTF8(Encoded("UTF-8", c)) = c
  <2>1. PICK u : Spells(u, "UTF-8", c) /\ Encoded("UTF-8", c) = u[Len(c)]
    BY UnicodeIs, Spelled, Zenon
  <2> DEFINE s == u[Len(c)]
  <2>2. PICK at : Places(at, "UTF-8", c, s)
    BY <2>1, UnicodeIs, PlacesOf, Zenon
  <2>3. s \in Seq(Nat) /\ Len(s) \in Nat
    <3>1. s \in Seq(Nat)
      BY <2>2, Zenon DEF Places
    <3> QED BY <3>1, LenProperties, Zenon
  <2> HIDE DEF s
  <2>n. PICK n \in Nat :
          \E f : /\ Len(s) < n /\ Lists(f, n, Len(s), Next8(s, n), Code8(s, n))
                 /\ CodesOfUTF8(s) = f[1]
    BY <2>3, CodesOfUTF8Lists, Zenon
  <2>4. PICK f : /\ Len(s) < n /\ Lists(f, n, Len(s), Next8(s, n), Code8(s, n))
                 /\ CodesOfUTF8(s) = f[1]
    BY <2>n, Zenon
  <2>5. ASSUME NEW k \in 1..Len(c)
        PROVE  Next8(s, n)[at[k]] = at[k + 1] /\ Code8(s, n)[at[k]] = c[k]
    <3> DEFINE i == at[k]  x == c[k]  e == EncodeCharUTF8(x)
    <3>1. /\ x \in Scalar /\ i \in 1..Len(s) /\ at[k + 1] = i + Len(e) /\ StandsAt(e, s, i)
      BY <2>2, UnicodeIs, Zenon DEF Places
    <3> HIDE DEF i, x
    <3>2. x \in Nat /\ IsCode(x) /\ i \in Nat \ {0} /\ i \in 1..n /\ OrMark(x) = x
      BY <1>a, <1>b, <1>c, <2>3, <2>4, <3>1, Zenon
    <3>3. DecodeCharUTF8(s, i) = Decoded(x, at[k + 1])
      BY <2>3, <3>1, <3>2, UTF8RoundTrip, Zenon
    <3>4. Next8(s, n)[i] = at[k + 1] /\ Code8(s, n)[i] = x
      <4>1. /\ Next8(s, n)[i] = DecodeCharUTF8(s, i).next
            /\ Code8(s, n)[i] = OrMark(DecodeCharUTF8(s, i).code)
        BY <3>2, Zenon DEF Next8, Code8
      <4>2. DecodeCharUTF8(s, i).code = x /\ DecodeCharUTF8(s, i).next = at[k + 1]
        BY <3>3, SMT DEF Decoded
      <4>3. OrMark(x) = x
        BY <3>2, Zenon
      <4> QED BY <4>1, <4>2, <4>3, Zenon
    <3> QED BY <3>4, Zenon DEF i, x
  <2>6. CodesOfUTF8(s) = c
    BY <2>2, <2>4, <2>5, ListedText
  <2> QED BY <2>1, <2>6, Zenon DEF s
<1>2. CodesOfUTF16(Encoded("UTF-16", c)) = c
  <2>1. PICK u : Spells(u, "UTF-16", c) /\ Encoded("UTF-16", c) = u[Len(c)]
    BY UnicodeIs, Spelled, Zenon
  <2> DEFINE s == u[Len(c)]
  <2>2. PICK at : Places(at, "UTF-16", c, s)
    BY <2>1, UnicodeIs, PlacesOf, Zenon
  <2>3. s \in Seq(Nat) /\ Len(s) \in Nat /\ s \in Seq(Unit)
    <3>1. s \in Seq(Nat)
      BY <2>2, Zenon DEF Places
    <3> QED BY <2>1, <3>1, LenProperties, EncodedBytes, Zenon
  <2> HIDE DEF s
  <2>n. PICK n \in Nat :
          \E f : /\ Len(s) < n /\ Lists(f, n, Len(s), Next16(s, n), Code16(s, n))
                 /\ CodesOfUTF16(s) = f[1]
    BY <2>3, CodesOfUTF16Lists, Zenon
  <2>4. PICK f : /\ Len(s) < n /\ Lists(f, n, Len(s), Next16(s, n), Code16(s, n))
                 /\ CodesOfUTF16(s) = f[1]
    BY <2>n, Zenon
  <2>5. ASSUME NEW k \in 1..Len(c)
        PROVE  Next16(s, n)[at[k]] = at[k + 1] /\ Code16(s, n)[at[k]] = c[k]
    <3> DEFINE i == at[k]  x == c[k]  e == EncodeCharUTF16(x)
    <3>1. /\ x \in Scalar /\ i \in 1..Len(s) /\ at[k + 1] = i + Len(e) /\ StandsAt(e, s, i)
      BY <2>2, UnicodeIs, Zenon DEF Places
    <3> HIDE DEF i, x
    <3>2. x \in Nat /\ IsScalar(x) /\ i \in Nat \ {0} /\ i \in 1..n /\ OrMark(x) = x
      BY <1>a, <1>b, <1>c, <2>3, <2>4, <3>1, Zenon
    <3>3. DecodeCharUTF16(s, i) = Decoded(x, at[k + 1])
      BY <2>3, <3>1, <3>2, UTF16RoundTrip, Zenon
    <3>4. Next16(s, n)[i] = at[k + 1] /\ Code16(s, n)[i] = x
      <4>1. /\ Next16(s, n)[i] = DecodeCharUTF16(s, i).next
            /\ Code16(s, n)[i] = OrMark(DecodeCharUTF16(s, i).code)
        BY <3>2, Zenon DEF Next16, Code16
      <4>2. DecodeCharUTF16(s, i).code = x /\ DecodeCharUTF16(s, i).next = at[k + 1]
        BY <3>3, SMT DEF Decoded
      <4>3. OrMark(x) = x
        BY <3>2, Zenon
      <4> QED BY <4>1, <4>2, <4>3, Zenon
    <3> QED BY <3>4, Zenon DEF i, x
  <2>6. CodesOfUTF16(s) = c
    BY <2>2, <2>4, <2>5, ListedText
  <2> QED BY <2>1, <2>6, Zenon DEF s
<1> QED BY <1>1, <1>2, Zenon

\* The first byte of a character tells how many follow.
LEMMA LeadTells ==
  ASSUME NEW x \in Scalar
  PROVE  LET e == EncodeCharUTF8(x)
         IN e[1] \notin 194..247 \/ Extra(e[1]) = Len(e) - 1
<1> DEFINE e == EncodeCharUTF8(x)
<1>0. x \in Nat /\ x < 1114112
  BY SMT DEF Scalar, IsScalar, IsCode
<1>1. CASE x < 128
  <2>1. e = <<x>>
    BY <1>1, SMT DEF EncodeCharUTF8
  <2> HIDE DEF e
  <2>2. e[1] = x
    BY <2>1
  <2> QED BY <1>0, <1>1, <2>2, SMT DEF e
<1>2. CASE ~(x < 128) /\ x < 2048
  <2> DEFINE a == (x \div 64) % 32  b == 128 + (x % 64)
  <2>1. e = <<192 + a, b>>
    BY <1>2, SMT DEF EncodeCharUTF8
  <2>2. a \in 0..31
    BY <1>0, SMT
  <2>3. IsLead(192 + a, 1, a)
    <3> HIDE DEF a
    <3> QED BY <2>2, LeadBytes
  <2> HIDE DEF e, a, b
  <2>4. e[1] = 192 + a /\ Len(e) = 2
    BY <2>1
  <2> QED BY <2>3, <2>4, SMT DEF IsLead, e
<1>3. CASE ~(x < 2048) /\ x < 65536
  <2> DEFINE a == (x \div 4096) % 16  b == 128 + ((x \div 64) % 64)  d == 128 + (x % 64)
  <2>1. e = <<224 + a, b, d>>
    BY <1>0, <1>3, SMT DEF EncodeCharUTF8
  <2>2. a \in 0..15
    BY <1>0, SMT
  <2>3. IsLead(224 + a, 2, a)
    <3> HIDE DEF a
    <3> QED BY <2>2, LeadBytes
  <2> HIDE DEF e, a, b, d
  <2>4. e[1] = 224 + a /\ Len(e) = 3
    BY <2>1
  <2> QED BY <2>3, <2>4, SMT DEF IsLead, e
<1>4. CASE ~(x < 65536)
  <2> DEFINE a == (x \div 262144) % 8  b == 128 + ((x \div 4096) % 64)
             d == 128 + ((x \div 64) % 64)  h == 128 + (x % 64)
  <2>1. e = <<240 + a, b, d, h>>
    BY <1>0, <1>4, SMT DEF EncodeCharUTF8
  <2>2. a \in 0..7
    BY <1>0, SMT
  <2>3. IsLead(240 + a, 3, a)
    <3> HIDE DEF a
    <3> QED BY <2>2, LeadBytes
  <2> HIDE DEF e, a, b, d, h
  <2>4. e[1] = 240 + a /\ Len(e) = 4
    BY <2>1
  <2> QED BY <2>3, <2>4, SMT DEF IsLead, e
<1> QED BY <1>0, <1>1, <1>2, <1>3, <1>4

\* A character that stands in a text as a whole is not incomplete.
LEMMA StandsComplete ==
  ASSUME NEW s \in Seq(Nat), NEW i \in 1..Len(s), NEW x \in Scalar,
         StandsAt(EncodeCharUTF8(x), s, i)
  PROVE  ~Incomplete(s, i)
<1> DEFINE e == EncodeCharUTF8(x)  l == Len(e)  m == Len(s)
<1>1. l \in 1..4 /\ (e[1] \notin 194..247 \/ Extra(e[1]) = l - 1)
  BY EncodeUTF8Type, LeadTells
<1>2. i + l - 1 <= m /\ \A j \in 1..l : s[i + j - 1] = e[j]
  BY Zenon DEF StandsAt
<1>3. m \in Nat
  BY SMT
<1> HIDE DEF e, l
<1>4. 1 \in 1..l /\ i + 1 - 1 = i
  BY <1>1, SMT
<1>5. s[i] = e[1]
  BY <1>2, <1>4, Zenon
<1>6. CASE e[1] \notin 194..247
  BY <1>5, <1>6 DEF Incomplete
<1>7. CASE Extra(e[1]) = l - 1
  <2>1. ~(m - i < Extra(s[i]))
    BY <1>1, <1>2, <1>3, <1>5, <1>7, SMT
  <2> QED BY <2>1, Zenon DEF Incomplete
<1> QED BY <1>1, <1>6, <1>7, Zenon

\* iconv makes of a text what the other encoding makes of it, if it has all of its characters.
LEMMA IConvEncoded ==
  ASSUME NEW enc \in Encoding, NEW c \in Seq(Scalar),
         \A k \in 1..Len(c) : Encode(enc, c[k]) # <<>>
  PROVE  IConv(enc, Encoded("UTF-8", c)) = Encoded(enc, c)
<1>1. PICK u : Spells(u, "UTF-8", c) /\ Encoded("UTF-8", c) = u[Len(c)]
  BY UnicodeIs, Spelled, Zenon
<1> DEFINE s == u[Len(c)]  l == Len(c)  n == Len(s) + 1
           g == [k \in 1..l + 1 |-> Encoded(enc, SubSeq(c, k, l))]
           next == NextTaken(enc, s)  piece == PieceTaken(enc, s)
<1>2. PICK at : Places(at, "UTF-8", c, s)
  BY <1>1, UnicodeIs, PlacesOf, Zenon
<1>3. /\ s \in Seq(Nat) /\ at[1] = 1 /\ at[l + 1] = n
      /\ \A k \in 1..l : at[k] \in 1..Len(s)
  BY <1>2, Zenon DEF Places
<1>4. /\ l \in Nat /\ n \in Nat /\ n \in 1..n /\ n \notin Taken(s)
      /\ \A i \in 1..Len(s) : i \in 1..n /\ i <= Len(s) /\ i \in Nat \ {0}
      /\ l + 1 \in 1..l + 1 /\ 1 \in 1..l + 1
      /\ \A k \in 1..l : k \in 1..l + 1 /\ k + 1 \in 1..l + 1
  <2>1. l \in Nat /\ Len(s) \in Nat
    BY <1>3, LenProperties, Zenon
  <2> HIDE DEF l, s
  <2> QED BY <2>1, SMT DEF Taken
<1>5. /\ g[1] = Encoded(enc, c) /\ g[l + 1] = <<>>
      /\ \A k \in 1..l : g[k] = Encode(enc, c[k]) \o g[k + 1]
  <2>1. /\ SubSeq(c, 1, l) = c /\ SubSeq(c, l + 1, l) = <<>>
        /\ \A k \in 1..l + 1 : SubSeq(c, k, l) \in Seq(Scalar)
        /\ \A k \in 1..l : SubSeq(c, k, l) = <<c[k]>> \o SubSeq(c, k + 1, l)
    BY RestOf, Zenon
  <2>2. \A k \in 1..l : c[k] \in Scalar
    BY SMT
  <2> HIDE DEF l
  <2>3. g[1] = Encoded(enc, c) /\ g[l + 1] = <<>>
    BY <1>4, <2>1, EncodedEmpty, Zenon
  <2>4. ASSUME NEW k \in 1..l PROVE g[k] = Encode(enc, c[k]) \o g[k + 1]
    <3> DEFINE x == c[k]  r == SubSeq(c, k + 1, l)  t == SubSeq(c, k, l)
    <3>1. x \in Scalar /\ r \in Seq(Scalar) /\ t = <<x>> \o r
      BY <1>4, <2>1, <2>2, Zenon
    <3>2. g[k] = Encoded(enc, t) /\ g[k + 1] = Encoded(enc, r)
      BY <1>4, Zenon
    <3> HIDE DEF x, r, t
    <3>3. Encoded(enc, <<x>> \o r) = Encode(enc, x) \o Encoded(enc, r)
      BY <3>1, EncodedCons, Zenon
    <3> HIDE DEF g
    <3>4. g[k] = Encode(enc, x) \o g[k + 1]
      BY <3>1, <3>2, <3>3, Zenon
    <3> QED BY <3>4, Zenon DEF x
  <2> QED BY <2>3, <2>4, Zenon
<1>6. PICK f : Made(f, n, Taken(s), next, piece) /\ IConv(enc, s) = f[1]
  BY <1>3, IConvMade, Zenon
<1>7. ASSUME NEW k \in 1..l
      PROVE  /\ at[k] \in 1..n /\ at[k] \in Taken(s) /\ next[at[k]] = at[k + 1]
             /\ piece[at[k]] = Encode(enc, c[k])
  <2> DEFINE i == at[k]  x == c[k]  e == EncodeCharUTF8(x)  v == at[k + 1]
  <2>1. x \in Scalar /\ i \in 1..Len(s) /\ v = i + Len(e) /\ StandsAt(e, s, i)
    BY <1>2, UnicodeIs, Zenon DEF Places
  <2>2. Encode(enc, x) # <<>>
    BY Zenon
  <2>3. i \in 1..n /\ i <= Len(s) /\ i \in Nat \ {0}
    BY <1>4, <2>1, Zenon
  <2> HIDE DEF i, x, v, s
  <2>4. ~Incomplete(s, i)
    BY <1>3, <2>1, StandsComplete, Zenon
  <2>5. CharAt(s, i) = Decoded(x, v)
    BY <1>3, <2>1, <2>3, CharAtEncoded, Zenon
  <2>6. CharAt(s, i).code = x /\ CharAt(s, i).next = v
    BY <2>5, SMT DEF Decoded
  <2>7. x # Bad
    BY <2>1, SMT DEF Bad, Scalar
  <2>8. ~Refused(enc, s, i)
    BY <2>2, <2>6, <2>7, Zenon DEF Refused
  <2>9. i \in Taken(s)
    BY <2>3, <2>4, Zenon DEF Taken
  <2>10. next[i] = v /\ piece[i] = Encode(enc, x)
    BY <2>3, <2>6, <2>8, Zenon DEF NextTaken, PieceTaken
  <2> QED BY <2>3, <2>9, <2>10, Zenon DEF i, x, v
<1> HIDE DEF s, l, n, g, next, piece
<1>8. ASSUME NEW k \in 1..l
      PROVE  /\ at[k] \in 1..n /\ at[k] \in Taken(s) /\ next[at[k]] = at[k + 1]
             /\ g[k] = piece[at[k]] \o g[k + 1]
  BY <1>5, <1>7, Zenon
<1>9. Comes(l, n, at, Taken(s), next, piece, g)
  BY <1>3, <1>4, <1>5, <1>8, Zenon DEF Comes
<1>10. Reaches(f, at, g)
  BY <1>6, <1>9, Retraced, Zenon
<1>11. IConv(enc, s) = Encoded(enc, c)
  BY <1>3, <1>5, <1>6, <1>10, Zenon DEF Reaches
<1> QED BY <1>1, <1>11, Zenon DEF s

\* An encoding that gives characters as they are gives their text as it is.
LEMMA EncodedItself ==
  ASSUME NEW enc \in Encoding, NEW C \in SUBSET Scalar, \A x \in C : Encode(enc, x) = <<x>>,
         NEW c \in Seq(C)
  PROVE  Encoded(enc, c) = c
<1> DEFINE T == {s \in Seq(C) : Encoded(enc, s) = s}
<1>1. <<>> \in T
  <2>1. <<>> \in Seq(C)
    BY SMT
  <2> QED BY <2>1, EncodedEmpty, Zenon
<1>2. ASSUME NEW s \in Seq(C), s \in T, NEW x \in C PROVE <<x>> \o s \in T
  <2>1. s \in Seq(Scalar) /\ x \in Scalar
    BY SeqMonotonic, Zenon
  <2>2. Encoded(enc, <<x>> \o s) = Encode(enc, x) \o Encoded(enc, s)
    BY <2>1, EncodedCons, Zenon
  <2>3. <<x>> \o s \in Seq(C)
    BY SMT
  <2>4. Encode(enc, x) = <<x>> /\ Encoded(enc, s) = s
    BY <1>2, Zenon
  <2> QED BY <2>2, <2>3, <2>4, Zenon
<1> HIDE DEF T
<1>3. \A s \in Seq(C) : s \in T
  BY <1>1, <1>2, TextInduction, Zenon
<1> QED BY <1>3, Zenon DEF T

\* What is written is numbers.
LEMMA EncodedNumbers ==
  ASSUME NEW enc \in Encoding, NEW c \in Seq(Scalar)
  PROVE  Encoded(enc, c) \in Seq(Nat)
<1>1. \A y \in Scalar : Encode(enc, y) \in Seq(Nat)
  BY EncodeType, Zenon
<1>2. Scalar \in SUBSET Scalar
  OBVIOUS
<1> QED BY <1>1, <1>2, EncodedIn, Zenon

\* Two texts, one after the other.
LEMMA EncodedJoined ==
  ASSUME NEW enc \in Encoding, NEW a \in Seq(Scalar), NEW b \in Seq(Scalar)
  PROVE  Encoded(enc, a \o b) = Encoded(enc, a) \o Encoded(enc, b)
<1> DEFINE Both(s) == Encoded(enc, s \o b) = Encoded(enc, s) \o Encoded(enc, b)
           T == {s \in Seq(Scalar) : Both(s)}
<1>1. <<>> \in T
  <2>1. <<>> \in Seq(Scalar) /\ <<>> \o b = b
    BY SMT
  <2>2. Encoded(enc, b) \in Seq(Nat)
    BY EncodedNumbers, Zenon
  <2>3. <<>> \o Encoded(enc, b) = Encoded(enc, b)
    BY <2>2, ConcatEmptySeq, Zenon
  <2>4. Both(<<>>)
    BY <2>1, <2>3, EncodedEmpty, Zenon
  <2> QED BY <2>1, <2>4, Zenon
<1>2. ASSUME NEW s \in Seq(Scalar), s \in T, NEW x \in Scalar PROVE <<x>> \o s \in T
  <2> DEFINE t == <<x>> \o s  E == Encoded(enc, s)  B == Encoded(enc, b)  e == Encode(enc, x)
  <2>1. t \in Seq(Scalar) /\ Encoded(enc, t) = e \o E
    BY EncodedCons, Zenon
  <2>2. s \o b \in Seq(Scalar) /\ <<x>> \in Seq(Nat) /\ s \in Seq(Nat) /\ b \in Seq(Nat)
    <3>1. s \o b \in Seq(Scalar)
      BY Joined, Zenon
    <3>2. <<x>> \in Seq(Nat)
      BY SmallSets, SMT
    <3> QED BY <3>1, <3>2, SmallSets, SeqMonotonic, Zenon
  <2>3. t \o b = <<x>> \o (s \o b)
    <3>1. ThreeOf(<<x>>, s, b)
      BY <2>2, ThreeJoined, Zenon
    <3> QED BY <3>1, Zenon DEF ThreeOf
  <2>4. Encoded(enc, <<x>> \o (s \o b)) = e \o Encoded(enc, s \o b)
    BY <2>2, EncodedCons, Zenon
  <2>5. Encoded(enc, s \o b) = E \o B
    BY <1>2, Zenon
  <2>6. e \o (E \o B) = (e \o E) \o B
    <3>1. e \in Seq(Nat) /\ E \in Seq(Nat) /\ B \in Seq(Nat)
      BY EncodeType, EncodedNumbers, Zenon
    <3>2. ThreeOf(e, E, B)
      BY <3>1, ThreeJoined, Zenon
    <3> QED BY <3>2, Zenon DEF ThreeOf
  <2> HIDE DEF t, E, B, e
  <2>7. Encoded(enc, t \o b) = Encoded(enc, t) \o B
    BY <2>1, <2>3, <2>4, <2>5, <2>6, Zenon
  <2> QED BY <2>1, <2>7, Zenon DEF t, B
<1> HIDE DEF T
<1>3. \A s \in Seq(Scalar) : s \in T
  BY <1>1, <1>2, TextInduction, Zenon
<1> QED BY <1>3, Zenon DEF T

\* A part of a text is cut in two.
LEMMA Cut ==
  ASSUME NEW s \in Seq(Nat), NEW m \in 0..Len(s), NEW i \in 1..m + 1, NEW q \in i..m + 1
  PROVE  SubSeq(s, i, m) = SubSeq(s, i, q - 1) \o SubSeq(s, q, m)
<1> DEFINE a == SubSeq(s, i, m)  b == SubSeq(s, i, q - 1)  d == SubSeq(s, q, m)
<1>1. a \in Seq(Nat) /\ Len(a) = m - i + 1 /\ \A j \in 1..m - i + 1 : a[j] = s[i + j - 1]
  BY SMT
<1>2. b \in Seq(Nat) /\ Len(b) = q - i /\ \A j \in 1..q - i : b[j] = s[i + j - 1]
  BY SMT
<1>3. d \in Seq(Nat) /\ Len(d) = m - q + 1 /\ \A j \in 1..m - q + 1 : d[j] = s[q + j - 1]
  BY SMT
<1> HIDE DEF a, b, d
<1>4. b \o d \in Seq(Nat) /\ Len(b \o d) = m - i + 1
  BY <1>2, <1>3, SMT
<1>5. ASSUME NEW j \in 1..m - i + 1 PROVE a[j] = (b \o d)[j]
  <2>1. CASE j <= q - i
    BY <1>1, <1>2, <1>3, <2>1, SMT
  <2>2. CASE j > q - i
    <3> DEFINE l == j - (q - i)
    <3>1. l \in 1..m - q + 1 /\ q + l - 1 = i + j - 1
      BY <2>2, SMT
    <3>2. d[l] = s[q + l - 1]
      BY <1>3, <3>1, Zenon
    <3>3. (b \o d)[j] = d[l]
      <4>1. j \in 1..Len(b) + Len(d) /\ ~(j <= Len(b)) /\ j - Len(b) = l
        BY <1>2, <1>3, <2>2, SMT
      <4>2. (b \o d)[j] = IF j <= Len(b) THEN b[j] ELSE d[j - Len(b)]
        BY <1>2, <1>3, <4>1, ConcatProperties, Zenon
      <4> QED BY <4>1, <4>2, Zenon
    <3>4. a[j] = s[i + j - 1]
      BY <1>1, Zenon
    <3> QED BY <3>1, <3>2, <3>3, <3>4, Zenon
  <2>3. j <= q - i \/ j > q - i
    BY SMT
  <2> QED BY <2>1, <2>2, <2>3, Zenon
<1>6. \A j \in 1..Len(a) : a[j] = (b \o d)[j]
  BY <1>1, <1>5, Zenon
<1>7. a = b \o d
  BY <1>1, <1>4, <1>6, SameText, Zenon
<1> QED BY <1>7, Zenon DEF a, b, d

\* The beginning of a text of n characters, and what one more of them adds.
LEMMA EncodedBegins ==
  ASSUME NEW enc \in Encoding, NEW c \in Seq(Scalar), NEW k \in 0..Len(c)
  PROVE  LET p == SubSeq(c, 1, k)  r == SubSeq(c, k + 1, Len(c))
         IN /\ p \in Seq(Scalar) /\ r \in Seq(Scalar) /\ Len(p) = k
            /\ Encoded(enc, c) = Encoded(enc, p) \o Encoded(enc, r)
            /\ k < Len(c) => /\ c[k + 1] \in Scalar
                             /\ Encoded(enc, SubSeq(c, 1, k + 1))
                                = Encoded(enc, p) \o Encode(enc, c[k + 1])
<1> DEFINE p == SubSeq(c, 1, k)  r == SubSeq(c, k + 1, Len(c))
<1>1. p \in Seq(Scalar) /\ r \in Seq(Scalar) /\ Len(p) = k /\ c = p \o r
  <2>1. Len(c) \in Nat /\ c = SubSeq(c, 1, Len(c)) /\ k + 1 \in 1..Len(c) + 1
    BY SMT
  <2>2. p \in Seq(Scalar) /\ Len(p) = k
    BY SMT
  <2>3. r \in Seq(Scalar)
    BY SMT
  <2>4. c \in Seq(Nat)
    BY SmallSets, SeqMonotonic, Zenon
  <2>5. SubSeq(c, 1, Len(c)) = SubSeq(c, 1, (k + 1) - 1) \o SubSeq(c, k + 1, Len(c))
    <3>1. Len(c) \in 0..Len(c) /\ 1 \in 1..Len(c) + 1 /\ k + 1 \in 1..Len(c) + 1
      BY <2>1, SMT
    <3> QED BY <2>4, <3>1, Cut, Zenon
  <2>6. (k + 1) - 1 = k
    BY SMT
  <2> QED BY <2>1, <2>2, <2>3, <2>5, <2>6
<1>2. Encoded(enc, c) = Encoded(enc, p) \o Encoded(enc, r)
  <2> HIDE DEF p, r
  <2>1. Encoded(enc, p \o r) = Encoded(enc, p) \o Encoded(enc, r)
    BY <1>1, EncodedJoined, Zenon
  <2> QED BY <1>1, <2>1, Zenon
<1>3. ASSUME k < Len(c)
      PROVE  /\ c[k + 1] \in Scalar
             /\ Encoded(enc, SubSeq(c, 1, k + 1)) = Encoded(enc, p) \o Encode(enc, c[k + 1])
  <2> DEFINE x == c[k + 1]  o == <<x>>
  <2>1. x \in Scalar /\ SubSeq(c, 1, k + 1) = p \o o
    BY <1>3, SMT
  <2>2. <<>> \in Seq(Scalar) /\ o \o <<>> = o /\ o \in Seq(Scalar)
    <3> HIDE DEF x
    <3> QED BY <2>1, SMT
  <2> HIDE DEF x
  <2>3. Encoded(enc, o \o <<>>) = Encode(enc, x) \o Encoded(enc, <<>>)
    BY <2>1, <2>2, EncodedCons, Zenon
  <2>4. Encode(enc, x) \in Seq(Nat)
    BY <2>1, EncodeType, Zenon
  <2>5. Encode(enc, x) \o <<>> = Encode(enc, x)
    BY <2>4, ConcatEmptySeq, Zenon
  <2>6. Encoded(enc, o) = Encode(enc, x)
    BY <2>2, <2>3, <2>5, EncodedEmpty, Zenon
  <2> HIDE DEF o, p
  <2>7. Encoded(enc, p \o o) = Encoded(enc, p) \o Encoded(enc, o)
    BY <1>1, <2>2, EncodedJoined, Zenon
  <2> QED BY <2>1, <2>6, <2>7, Zenon DEF x
<1> QED BY <1>1, <1>2, <1>3, Zenon

\* Whatever is UTF-8 is a text that was written in UTF-8.
LEMMA UTF8IsEncoded ==
  ASSUME NEW s \in Seq(Nat), IsUTF8(s)
  PROVE  \E d \in Seq(Scalar) : s = Encoded("UTF-8", d)
<1> DEFINE m == Len(s)  n == m + 1
<1>1. m \in Nat /\ n \in Nat /\ 1 \in 1..n /\ SubSeq(s, 1, m) = s
  BY SMT
<1>2. PICK f : IsUTF8From(f, s) /\ IsUTF8(s) = f[1]
  BY IsUTF8Defined, Zenon
<1> DEFINE Written(i) == \E d \in Seq(Scalar) : SubSeq(s, i, m) = Encoded("UTF-8", d)
           T == {i \in 1..n : f[i] => Written(i)}
<1>3. ASSUME NEW i \in 1..n, \A j \in i + 1..n : j \in T PROVE i \in T
  <2> SUFFICES ASSUME f[i] PROVE Written(i)
    BY Zenon
  <2>1. i > m \/ (CharAt(s, i).code # Bad /\ f[CharAt(s, i).next])
    BY <1>2, IsUTF8At, Zenon
  <2>2. CASE i > m
    <3>1. SubSeq(s, i, m) = <<>> /\ <<>> \in Seq(Scalar)
      BY <1>1, <2>2, SMT
    <3>2. SubSeq(s, i, m) = Encoded("UTF-8", <<>>)
      BY <3>1, UnicodeIs, EncodedEmpty, Zenon
    <3> QED BY <3>1, <3>2, Zenon
  <2>3. CASE ~(i > m)
    <3> DEFINE x == CharAt(s, i).code  q == CharAt(s, i).next
    <3>1. i \in 1..m
      BY <1>1, <2>3, SMT
    <3>2. x \in Scalar /\ q \in i + 1..m + 1 /\ EncodeCharUTF8(x) = SubSeq(s, i, q - 1) /\ f[q]
      BY <2>1, <2>3, <3>1, CharAtGoesOn, Zenon
    <3> HIDE DEF x, q, n
    <3>3. q \in T
      BY <1>3, <3>2, Zenon DEF n
    <3>4. PICK d \in Seq(Scalar) : SubSeq(s, q, m) = Encoded("UTF-8", d)
      BY <3>2, <3>3, Zenon
    <3>5. SubSeq(s, i, m) = SubSeq(s, i, q - 1) \o SubSeq(s, q, m)
      <4>1. m \in 0..Len(s) /\ i \in 1..m + 1 /\ q \in i..m + 1
        BY <1>1, <3>1, <3>2, SMT
      <4> QED BY <4>1, Cut, Zenon
    <3>6. <<x>> \o d \in Seq(Scalar)
          /\ Encoded("UTF-8", <<x>> \o d) = EncodeCharUTF8(x) \o Encoded("UTF-8", d)
      <4>1. "UTF-8" \in Encoding /\ Encode("UTF-8", x) = EncodeCharUTF8(x)
        BY UnicodeIs, Zenon
      <4>2. <<x>> \o d \in Seq(Scalar)
            /\ Encoded("UTF-8", <<x>> \o d) = Encode("UTF-8", x) \o Encoded("UTF-8", d)
        BY <3>2, <4>1, EncodedCons, Zenon
      <4> QED BY <4>1, <4>2, Zenon
    <3>7. SubSeq(s, i, m) = Encoded("UTF-8", <<x>> \o d)
      BY <3>2, <3>4, <3>5, <3>6, Zenon
    <3> QED BY <3>6, <3>7, Zenon
  <2> QED BY <2>2, <2>3
<1>4. 1 \in T
  <2> HIDE DEF T, n
  <2> QED BY <1>1, <1>3, Downward, Zenon
<1>5. Written(1)
  BY <1>2, <1>4, Zenon
<1> QED BY <1>1, <1>5, Zenon

---------------------------------------------------------------------------
(* LoadedAsMeant and SavedAsLoaded. *)

\* One row of the table of marks, or none.
LEMMA FirstOnly ==
  /\ First({}) = NoBom
  /\ \A k \in 1..3 : First({k}) = BomTable[k]
<1>1. First({}) = NoBom
  BY Zenon DEF First
<1>2. ASSUME NEW k \in 1..3 PROVE First({k}) = BomTable[k]
  <2>1. k <= k
    BY SMT
  <2>2. (CHOOSE i \in {k} : \A j \in {k} : i <= j) = k
    BY <2>1, Zenon
  <2>3. {k} # {}
    BY Zenon
  <2>4. First({k}) = BomTable[CHOOSE i \in {k} : \A j \in {k} : i <= j]
    BY <2>3, Zenon DEF First
  <2> QED BY <2>2, <2>4, Zenon
<1> QED BY <1>1, <1>2

\* A row of the table: its flag, its encoding and the first byte of its mark.
RowIs(k, flag, enc, head) ==
  /\ BomTable[k].flag = flag /\ BomTable[k].enc = enc
  /\ BomTable[k].bom \in Seq(Byte) /\ BomTable[k].bom # <<>> /\ BomTable[k].bom[1] = head

\* The three rows of it.
LEMMA EachRow ==
  /\ RowIs(1, "preamble", "UTF-8", 239) /\ RowIs(2, "LE", "UTF-16LE", 255)
  /\ RowIs(3, "BE", "UTF-16BE", 254)
<1> DEFINE x == <<239, 187, 191>>  y == <<255, 254>>  z == <<254, 255>>
<1>1. /\ x # <<>> /\ x[1] = 239 /\ y # <<>> /\ y[1] = 255 /\ z # <<>> /\ z[1] = 254
  OBVIOUS
<1> HIDE DEF x, y, z
<1>2. BomTable = <<[bom |-> x, enc |-> "UTF-8", flag |-> "preamble"],
                   [bom |-> y, enc |-> "UTF-16LE", flag |-> "LE"],
                   [bom |-> z, enc |-> "UTF-16BE", flag |-> "BE"]>>
  BY DEF BomTable, x, y, z
<1>3. /\ BomTable[1].bom = x /\ BomTable[1].enc = "UTF-8" /\ BomTable[1].flag = "preamble"
      /\ BomTable[2].bom = y /\ BomTable[2].enc = "UTF-16LE" /\ BomTable[2].flag = "LE"
      /\ BomTable[3].bom = z /\ BomTable[3].enc = "UTF-16BE" /\ BomTable[3].flag = "BE"
  BY <1>2, SMT
<1>4. 1 \in 1..3 /\ 2 \in 1..3 /\ 3 \in 1..3
  BY SMT
<1>5. /\ BomTable[1].bom \in Seq(Byte) /\ BomTable[2].bom \in Seq(Byte)
      /\ BomTable[3].bom \in Seq(Byte)
  BY <1>4, BomRows, Zenon
<1> QED BY <1>1, <1>3, <1>5, Zenon DEF RowIs

\* Their places.
LEMMA ThreeRows == 1 \in 1..3 /\ 2 \in 1..3 /\ 3 \in 1..3
BY SMT

\* Two rows differ; a row has a mark that no text begins with, and a flag that is no encoding.
Differ(i, k) ==
  BomTable[i].flag # BomTable[k].flag /\ BomTable[i].bom[1] # BomTable[k].bom[1]
Marks(k) ==
  /\ BomTable[k].bom \in Seq(Byte) /\ BomTable[k].bom # <<>> /\ BomTable[k].bom[1] \notin Begins
  /\ BomTable[k].flag \in FileFlags /\ BomTable[k].flag # ""
  /\ BomTable[k].flag # "UTF-8" /\ BomTable[k].flag # "ISO-8859-1"

\* No two rows agree in anything.
LEMMA RowsDiffer ==
  /\ \A k \in 1..3 : Marks(k) /\ BomTable[k] # NoBom
  /\ \A i, k \in 1..3 : i = k \/ Differ(i, k)
<1>1. 239 \notin Begins /\ 254 \notin Begins /\ 255 \notin Begins
  BY SMT DEF Begins, Less, DeclUTF8, DeclLatin, DeclOther
<1>2. Marks(1)
  BY <1>1, EachRow, Zenon DEF RowIs, Marks, FileFlags
<1>3. Marks(2)
  BY <1>1, EachRow, Zenon DEF RowIs, Marks, FileFlags
<1>4. Marks(3)
  BY <1>1, EachRow, Zenon DEF RowIs, Marks, FileFlags
<1> DEFINE f(k) == BomTable[k].flag  h(k) == BomTable[k].bom[1]
<1>5. /\ f(1) = "preamble" /\ f(2) = "LE" /\ f(3) = "BE"
      /\ h(1) = 239 /\ h(2) = 255 /\ h(3) = 254
  BY EachRow, Zenon DEF RowIs
<1>6. /\ f(1) # f(2) /\ f(2) # f(1) /\ f(1) # f(3) /\ f(3) # f(1) /\ f(2) # f(3) /\ f(3) # f(2)
      /\ h(1) # h(2) /\ h(2) # h(1) /\ h(1) # h(3) /\ h(3) # h(1) /\ h(2) # h(3) /\ h(3) # h(2)
  <2> HIDE DEF f, h
  <2> QED BY <1>5, SMT
<1>7. Differ(1, 2) /\ Differ(2, 1)
  BY <1>6, Zenon DEF Differ
<1>8. Differ(1, 3) /\ Differ(3, 1)
  BY <1>6, Zenon DEF Differ
<1>9. Differ(2, 3) /\ Differ(3, 2)
  BY <1>6, Zenon DEF Differ
<1>10. \A k \in 1..3 : k = 1 \/ k = 2 \/ k = 3
  BY SMT
<1>11. ASSUME NEW k \in 1..3 PROVE Marks(k)
  <2>1. CASE k = 1
    BY <1>2, <2>1
  <2>2. CASE k = 2
    BY <1>3, <2>2
  <2>3. CASE k = 3
    BY <1>4, <2>3
  <2> QED BY <1>10, <2>1, <2>2, <2>3, Zenon
<1>12. ASSUME NEW i \in 1..3, NEW k \in 1..3 PROVE i = k \/ Differ(i, k)
  <2>1. CASE k = 1
    BY <1>7, <1>8, <1>10, <2>1, Zenon
  <2>2. CASE k = 2
    BY <1>7, <1>9, <1>10, <2>2, Zenon
  <2>3. CASE k = 3
    BY <1>8, <1>9, <1>10, <2>3, Zenon
  <2> QED BY <1>10, <2>1, <2>2, <2>3, Zenon
<1>13. \A k \in 1..3 : BomTable[k] # NoBom
  BY BomRows, Zenon
<1> QED BY <1>11, <1>12, <1>13, Zenon

\* A text that begins with another one.
LEMMA PrefixHead ==
  ASSUME NEW b \in Seq(Byte), NEW s \in Seq(Byte), b # <<>>, IsPrefix(b, s)
  PROVE  s # <<>> /\ s[1] = b[1]
<1>1. Len(b) \in Nat /\ Len(b) >= 1 /\ Len(s) \in Nat /\ Len(b) <= Len(s)
  BY SMT DEF IsPrefix
<1>2. SubSeq(b, 1, Len(b))[1] = b[1] /\ SubSeq(s, 1, Len(b))[1] = s[1]
  BY <1>1, SMT
<1>3. s[1] = b[1]
  BY <1>2, Zenon DEF IsPrefix
<1>4. s # <<>>
  BY <1>1, SMT
<1> QED BY <1>3, <1>4

\* A text behind another one.
LEMMA PrefixOf ==
  ASSUME NEW b \in Seq(Nat), NEW t \in Seq(Nat)
  PROVE  /\ IsPrefix(b, b \o t) /\ SubSeq(b \o t, 1, Len(b)) = b
         /\ SubSeq(b \o t, Len(b) + 1, Len(b \o t)) = t
<1> DEFINE w == b \o t  l == Len(b)  a == SubSeq(w, 1, l)  d == SubSeq(w, l + 1, Len(w))
<1>1. w \in Seq(Nat) /\ Len(w) = l + Len(t) /\ l \in Nat /\ Len(t) \in Nat
  BY SMT
<1>2. \A j \in 1..Len(b) + Len(t) : w[j] = IF j <= Len(b) THEN b[j] ELSE t[j - Len(b)]
  BY ConcatProperties, Zenon
<1> HIDE DEF w
<1>3. a \in Seq(Nat) /\ Len(a) = l /\ \A j \in 1..l : a[j] = w[j]
  BY <1>1, SMT
<1>4. d \in Seq(Nat) /\ Len(d) = Len(t) /\ \A j \in 1..Len(t) : d[j] = w[l + 1 + j - 1]
  BY <1>1, SMT
<1> HIDE DEF a, d
<1>5. \A j \in 1..Len(a) : a[j] = b[j]
  <2> TAKE j \in 1..Len(a)
  <2>1. j \in 1..Len(b) + Len(t) /\ j <= Len(b) /\ j \in 1..l
    BY <1>1, <1>3, SMT
  <2> QED BY <1>2, <1>3, <2>1, Zenon
<1>6. \A j \in 1..Len(d) : d[j] = t[j]
  <2> TAKE j \in 1..Len(d)
  <2> DEFINE L == Len(b)  M == Len(t)
  <2>m. M \in Nat /\ L \in Nat /\ l = L /\ j \in 1..M
    BY <1>1, <1>4, Zenon
  <2> HIDE DEF L, M, l
  <2>n. l + 1 + j - 1 \in 1..L + M /\ ~(l + 1 + j - 1 <= L) /\ (l + 1 + j - 1) - L = j
    BY <2>m, SMT
  <2>1. /\ l + 1 + j - 1 \in 1..Len(b) + Len(t) /\ ~(l + 1 + j - 1 <= Len(b)) /\ j \in 1..Len(t)
        /\ (l + 1 + j - 1) - Len(b) = j
    BY <2>m, <2>n, Zenon DEF L, M
  <2>2. w[l + 1 + j - 1] = t[(l + 1 + j - 1) - Len(b)]
    BY <1>2, <2>1, Zenon
  <2> QED BY <1>4, <2>1, <2>2, Zenon
<1>7. a = b
  BY <1>3, <1>5, SameText, Zenon
<1>8. d = t
  BY <1>4, <1>6, SameText, Zenon
<1>9. SubSeq(b, 1, Len(b)) = b
  BY RestOf, Zenon
<1>10. Len(b) <= Len(w)
  BY <1>1, SMT
<1>11. SubSeq(w, 1, Len(b)) = b
  BY <1>7, Zenon DEF a
<1>12. IsPrefix(b, w)
  BY <1>9, <1>10, <1>11, Zenon DEF IsPrefix
<1> QED BY <1>8, <1>11, <1>12, Zenon DEF d, w

\* The fields of a file that is opened.
LEMMA OpenedFields ==
  \A o, x, y, z : o = [flags |-> x, enc |-> y, bom |-> z] => o.flags = x /\ o.enc = y /\ o.bom = z
BY SMT

\* What a text declares is told by its first character.
LEMMA DeclaredSame ==
  ASSUME NEW c, NEW s, s = <<>> <=> c = <<>>, c # <<>> => s[1] = c[1]
  PROVE  Declared(s) = Declared(c)
<1>1. CASE c = <<>>
  BY <1>1, Zenon DEF Declared
<1>2. CASE c # <<>>
  <2> DEFINE D(x) == CASE x = DeclUTF8  -> "UTF-8"
                       [] x = DeclLatin -> "ISO-8859-1"
                       [] x = DeclOther -> "other"
                       [] OTHER         -> ""
  <2>1. s # <<>> /\ s[1] = c[1]
    BY <1>2, Zenon
  <2>2. Declared(s) = D(s[1]) /\ Declared(c) = D(c[1])
    BY <1>2, <2>1, Zenon DEF Declared
  <2> HIDE DEF D
  <2> QED BY <2>1, <2>2, Zenon
<1> QED BY <1>1, <1>2, Zenon

\* A file with a mark is opened with that mark.
LEMMA OpenedMarked ==
  ASSUME NEW k \in 1..3, NEW t \in Seq(Byte), NEW f
  PROVE  LET s == BomTable[k].bom \o t  open == OpenedToRead(s, f)
         IN /\ s # <<>> /\ open.flags = (f \ {"LE", "preamble"}) \cup {BomTable[k].flag}
            /\ open.enc = BomTable[k].enc /\ open.bom = BomTable[k].bom
<1> DEFINE b == BomTable[k].bom  s == b \o t  open == OpenedToRead(s, f)
           rows == {i \in DOMAIN BomTable : IsPrefix(BomTable[i].bom, s)}
           row == First(rows)  decl == Declared(s)
           fs == (f \ {"LE", "preamble"}) \cup ({row.flag} \ {""})
           e == IF row # NoBom THEN row.enc ELSE decl
<1>2. b \in Seq(Byte) /\ b # <<>>
  BY RowsDiffer, Zenon DEF Marks
<1>3. s \in Seq(Byte)
  BY <1>2, Joined, Zenon
<1>4. IsPrefix(b, s)
  <2>1. b \in Seq(Nat) /\ t \in Seq(Nat)
    BY <1>2, SmallSets, SeqMonotonic, Zenon
  <2> HIDE DEF b
  <2> QED BY <2>1, PrefixOf, Zenon DEF b
<1>5. s # <<>> /\ s[1] = b[1]
  <2> HIDE DEF s, b
  <2> QED BY <1>2, <1>3, <1>4, PrefixHead, Zenon
<1>7. \A i \in 1..3 : IsPrefix(BomTable[i].bom, s) => i = k
  <2> SUFFICES ASSUME NEW i \in 1..3, IsPrefix(BomTable[i].bom, s) PROVE i = k
    BY Zenon
  <2>2. BomTable[i].bom \in Seq(Byte) /\ BomTable[i].bom # <<>>
    BY RowsDiffer, Zenon DEF Marks
  <2> HIDE DEF s
  <2>3. s[1] = BomTable[i].bom[1]
    BY <1>3, <2>2, PrefixHead, Zenon
  <2>4. BomTable[i].bom[1] = BomTable[k].bom[1]
    BY <1>5, <2>3, Zenon
  <2> QED BY <2>4, RowsDiffer, Zenon DEF Differ
<1>8. rows = {k}
  <2>1. DOMAIN BomTable = 1..3
    BY BomRows, Zenon
  <2> HIDE DEF s
  <2> QED BY <1>4, <1>7, <2>1, Zenon
<1>9. row = BomTable[k]
  BY <1>8, FirstOnly, Zenon
<1> HIDE DEF row
<1>10. BomTable[k] # NoBom /\ BomTable[k].flag # ""
  BY RowsDiffer, Zenon DEF Marks
<1>11. open = [flags |-> fs, enc |-> e, bom |-> row.bom]
  BY <1>5, Zenon DEF OpenedToRead, row
<1>13. open.flags = fs /\ open.enc = e /\ open.bom = row.bom
  <2> HIDE DEF open, fs, e
  <2> QED BY <1>11, OpenedFields, Zenon
<1>14. fs = (f \ {"LE", "preamble"}) \cup {BomTable[k].flag}
  BY <1>9, <1>10, Zenon
<1>15. e = BomTable[k].enc
  BY <1>9, <1>10, Zenon
<1> HIDE DEF open, fs, e
<1> QED BY <1>5, <1>9, <1>13, <1>14, <1>15, Zenon DEF open

\* A file that begins with a character of ours has none.
LEMMA OpenedUnmarked ==
  ASSUME NEW s \in Seq(Byte), s # <<>>, s[1] \in Begins, NEW f
  PROVE  LET open == OpenedToRead(s, f)
         IN /\ open.flags = f \ {"LE", "preamble"}
            /\ open.enc = Declared(s) /\ open.bom = <<>>
<1> DEFINE open == OpenedToRead(s, f)
           rows == {i \in DOMAIN BomTable : IsPrefix(BomTable[i].bom, s)}
           row == First(rows)  decl == Declared(s)
           fs == (f \ {"LE", "preamble"}) \cup ({row.flag} \ {""})
           e == IF row # NoBom THEN row.enc ELSE decl
<1>2. \A i \in 1..3 : ~IsPrefix(BomTable[i].bom, s)
  <2> SUFFICES ASSUME NEW i \in 1..3, IsPrefix(BomTable[i].bom, s) PROVE FALSE
    BY Zenon
  <2>2. BomTable[i].bom \in Seq(Byte) /\ BomTable[i].bom # <<>>
    BY RowsDiffer, Zenon DEF Marks
  <2>3. s[1] = BomTable[i].bom[1]
    BY <2>2, PrefixHead, Zenon
  <2> QED BY <2>3, RowsDiffer, Zenon DEF Marks
<1>3. rows = {}
  <2>1. DOMAIN BomTable = 1..3
    BY BomRows, Zenon
  <2> QED BY <1>2, <2>1, Zenon
<1>4. row = NoBom
  BY <1>3, FirstOnly, Zenon
<1> HIDE DEF row
<1>5. open = [flags |-> fs, enc |-> e, bom |-> row.bom]
  BY Zenon DEF OpenedToRead, row
<1>7. open.flags = fs /\ open.enc = e /\ open.bom = row.bom
  <2> HIDE DEF open, fs, e
  <2> QED BY <1>5, OpenedFields, Zenon
<1>8. fs = f \ {"LE", "preamble"} /\ e = decl /\ row.bom = <<>>
  BY <1>4, BomRows, Zenon
<1> HIDE DEF open, fs, e
<1> QED BY <1>7, <1>8, Zenon DEF open

\* A file that is opened to be written gets the mark that its flag remembers, or none.
LEMMA OpenedToWriteIs ==
  /\ OpenedToWrite({}) = NoBom
  /\ \A k \in 1..3 : OpenedToWrite({BomTable[k].flag}) = BomTable[k]
<1>1. DOMAIN BomTable = 1..3
  BY BomRows, Zenon
<1>2. OpenedToWrite({}) = NoBom
  <2>1. {k \in DOMAIN BomTable : BomTable[k].flag \in {}} = {}
    BY Zenon
  <2> QED BY <2>1, FirstOnly, Zenon DEF OpenedToWrite
<1>3. ASSUME NEW k \in 1..3 PROVE OpenedToWrite({BomTable[k].flag}) = BomTable[k]
  <2>1. \A i \in 1..3 : BomTable[i].flag = BomTable[k].flag => i = k
    BY RowsDiffer, Zenon DEF Differ
  <2>2. {i \in DOMAIN BomTable : BomTable[i].flag \in {BomTable[k].flag}} = {k}
    BY <1>1, <2>1, Zenon
  <2> QED BY <2>2, FirstOnly, Zenon DEF OpenedToWrite
<1> QED BY <1>2, <1>3

\* The kinds of files that hold a text: with a mark, declared, or plain UTF-8.
FileKind == {"UTF-8", "preamble", "LE", "BE", "ISO-8859-1"}

\* Each kind has a mark of its own, or none.
LEMMA MarkIs ==
  /\ BomOf("UTF-8") = <<>> /\ BomOf("ISO-8859-1") = <<>>
  /\ \A k \in 1..3 : BomOf(BomTable[k].flag) = BomTable[k].bom
<1>1. DOMAIN BomTable = 1..3
  BY BomRows, Zenon
<1>2. ASSUME NEW e, e = "UTF-8" \/ e = "ISO-8859-1" PROVE BomOf(e) = <<>>
  <2>1. \A i \in 1..3 : BomTable[i].flag # e
    BY <1>2, RowsDiffer, Zenon DEF Marks
  <2>2. {k \in DOMAIN BomTable : BomTable[k].flag = e} = {}
    BY <1>1, <2>1, Zenon
  <2> QED BY <2>2, FirstOnly, BomRows, Zenon DEF BomOf
<1>3. ASSUME NEW k \in 1..3 PROVE BomOf(BomTable[k].flag) = BomTable[k].bom
  <2>1. \A i \in 1..3 : BomTable[i].flag = BomTable[k].flag => i = k
    BY RowsDiffer, Zenon DEF Differ
  <2>2. {i \in DOMAIN BomTable : BomTable[i].flag = BomTable[k].flag} = {k}
    BY <1>1, <2>1, Zenon
  <2> QED BY <2>2, FirstOnly, Zenon DEF BomOf
<1> QED BY <1>2, <1>3, Zenon

\* A text that begins as those of the model do, and one without nulls besides.
IsMeant(c) == c \in Seq(Scalar) /\ (c # <<>> => c[1] \in Begins)
IsClean(c) == IsMeant(c) /\ c \in Seq(NotZero(Scalar))

\* The characters a text may begin with are ASCII and not null.
LEMMA BeginsAre ==
  \A x \in Begins : x \in Nat /\ x # 0 /\ x < 128 /\ x \in Scalar
BY SMT DEF Begins, Less, DeclUTF8, DeclLatin, DeclOther, Scalar, IsScalar, IsCode

\* One character in front of a text.
LEMMA InFront1 ==
  \A x \in Nat : \A s \in Seq(Nat) : <<x>> \o s # <<>> /\ (<<x>> \o s)[1] = x
BY SMT

\* Without its nulls it begins with the same character.
LEMMA CleanIs ==
  ASSUME NEW c, IsMeant(c)
  PROVE  IsClean(WithoutNulls(c))
<1>0. c \in Seq(Nat) /\ Scalar \in SUBSET Nat
  BY SmallSets, SeqMonotonic, Zenon DEF IsMeant
<1>1. WithoutNulls(c) \in Seq(NotZero(Scalar))
  BY <1>0, WithoutNullsIs, Zenon DEF IsMeant
<1>2. WithoutNulls(c) \in Seq(Scalar)
  BY <1>1, SmallSets, SeqMonotonic, Zenon
<1>3. CASE c = <<>>
  <2>1. WithoutNulls(c) = <<>>
    BY <1>3, WithoutNullsCons, Zenon
  <2> QED BY <1>1, <1>2, <2>1, Zenon DEF IsClean, IsMeant
<1>4. CASE c # <<>>
  <2> DEFINE x == c[1]  r == SubSeq(c, 1 + 1, Len(c))
  <2>1. x \in Begins
    BY <1>4, Zenon DEF IsMeant
  <2>2. 1 \in 1..Len(c) /\ 1 + 1 \in 1..Len(c) + 1
    BY <1>0, <1>4, SMT
  <2>3. SubSeq(c, 1, Len(c)) = <<x>> \o r /\ r \in Seq(Nat) /\ SubSeq(c, 1, Len(c)) = c
    BY <1>0, <2>2, RestOf, Zenon
  <2>4. x \in Nat /\ x # 0
    BY <2>1, BeginsAre, Zenon
  <2> HIDE DEF x, r
  <2>5. WithoutNulls(<<x>> \o r) = KeptOf(x) \o WithoutNulls(r) /\ WithoutNulls(r) \in Seq(Nat)
    BY <2>3, <2>4, WithoutNullsCons, Zenon
  <2>6. KeptOf(x) = <<x>>
    BY <2>4, Zenon DEF KeptOf
  <2>7. WithoutNulls(c) = <<x>> \o WithoutNulls(r)
    BY <2>3, <2>5, <2>6, Zenon
  <2>8. WithoutNulls(c)[1] = x
    BY <2>4, <2>5, <2>7, InFront1, Zenon
  <2> QED BY <1>1, <1>2, <2>1, <2>8, Zenon DEF IsClean, IsMeant
<1> QED BY <1>3, <1>4

\* A text has no nulls to take out when it has none.
LEMMA CleanStays ==
  ASSUME NEW c, IsClean(c)
  PROVE  WithoutNulls(c) = c /\ c \in Seq(Scalar)
<1>1. Scalar \in SUBSET Nat
  BY SmallSets, Zenon
<1> QED BY <1>1, WithoutNullsIs, Zenon DEF IsClean, IsMeant

\* In UTF-8 the text begins with the same character and declares the same.
LEMMA EncodedHead ==
  ASSUME NEW c, IsMeant(c)
  PROVE  LET s == Encoded("UTF-8", c)
         IN /\ s \in Seq(Byte) /\ (s = <<>> <=> c = <<>>) /\ (c # <<>> => s[1] = c[1])
            /\ Declared(s) = Declared(c)
<1> DEFINE s == Encoded("UTF-8", c)
<1>0. "UTF-8" \in Encoding /\ c \in Seq(Scalar)
  BY UnicodeIs, Zenon DEF IsMeant
<1>1. s \in Seq(Byte)
  BY <1>0, EncodedBytes, Zenon
<1>2. CASE c = <<>>
  <2>1. s = <<>>
    BY <1>0, <1>2, EncodedEmpty, Zenon
  <2> HIDE DEF s
  <2> QED BY <1>1, <1>2, <2>1, DeclaredSame, Zenon DEF s
<1>3. CASE c # <<>>
  <2> DEFINE x == c[1]  r == SubSeq(c, 1 + 1, Len(c))
  <2>1. x \in Begins
    BY <1>3, Zenon DEF IsMeant
  <2>2. 1 \in 1..Len(c) /\ 1 + 1 \in 1..Len(c) + 1
    BY <1>0, <1>3, SMT
  <2>3. SubSeq(c, 1, Len(c)) = <<x>> \o r /\ r \in Seq(Scalar) /\ SubSeq(c, 1, Len(c)) = c
    BY <1>0, <2>2, RestOf, Zenon
  <2>4. x \in Nat /\ x < 128 /\ x \in Scalar
    BY <2>1, BeginsAre, Zenon
  <2> HIDE DEF x, r
  <2>5. Encode("UTF-8", x) = <<x>>
    <3>1. EncodeCharUTF8(x) = <<x>>
      BY <2>4, SMT DEF EncodeCharUTF8
    <3> QED BY <3>1, UnicodeIs, Zenon
  <2>6. Encoded("UTF-8", <<x>> \o r) = Encode("UTF-8", x) \o Encoded("UTF-8", r)
    BY <1>0, <2>3, <2>4, EncodedCons, Zenon
  <2>7. s = <<x>> \o Encoded("UTF-8", r)
    BY <2>3, <2>5, <2>6, Zenon
  <2>8. Encoded("UTF-8", r) \in Seq(Nat)
    BY <1>0, <2>3, EncodedNumbers, Zenon
  <2> HIDE DEF s
  <2>9. s # <<>> /\ s[1] = c[1]
    BY <2>4, <2>7, <2>8, InFront1, Zenon DEF x
  <2>10. Declared(s) = Declared(c)
    BY <1>3, <2>9, DeclaredSame, Zenon
  <2> QED BY <1>1, <1>3, <2>9, <2>10, Zenon DEF s
<1> QED BY <1>2, <1>3

\* What the file of each kind holds behind its mark.
LEMMA InFileIs ==
  \A c : /\ InFile(c, "UTF-8") = Encoded("UTF-8", c)
         /\ InFile(c, "preamble") = Encoded("UTF-8", c)
         /\ InFile(c, "LE") = BytesOf(Encoded("UTF-16", c))
         /\ InFile(c, "BE") = BytesOf(Swapped(Encoded("UTF-16", c)))
         /\ InFile(c, "ISO-8859-1") = c
<1> TAKE c
<1>1. InFile(c, "UTF-8") = Encoded("UTF-8", c)
  BY DEF InFile
<1>2. InFile(c, "preamble") = Encoded("UTF-8", c)
  BY DEF InFile
<1>3. InFile(c, "LE") = BytesOf(Encoded("UTF-16", c))
  BY DEF InFile
<1>4. InFile(c, "BE") = BytesOf(Swapped(Encoded("UTF-16", c)))
  BY DEF InFile
<1>5. InFile(c, "ISO-8859-1") = c
  BY DEF InFile
<1> QED BY <1>1, <1>2, <1>3, <1>4, <1>5

\* The flag that remembers the mark of a kind of file, and what its declaration must be.
FlagOf(e) == {e} \cap FileFlags
Suits(e, c) ==
  /\ e = "UTF-8" => Declared(c) \in {"", "UTF-8"}
  /\ e = "ISO-8859-1" => Declared(c) = "ISO-8859-1" /\ c \in Seq(Byte)
EncRead(enc, e, c) ==
  /\ e = "UTF-8" \/ e = "ISO-8859-1" => enc = Declared(c)
  /\ e = "preamble" => enc = "UTF-8"
  /\ e = "LE" => enc = "UTF-16LE"
  /\ e = "BE" => enc = "UTF-16BE"

\* Only no text at all is nothing in the file.
LEMMA NothingInFile ==
  ASSUME NEW c, IsMeant(c), NEW e \in FileKind, Suits(e, c)
  PROVE  InFile(c, e) \in Seq(Byte) /\ (InFile(c, e) = <<>> => c = <<>>)
<1>0. c \in Seq(Scalar) /\ <<>> \in Seq(Unit) /\ "UTF-16" \in Encoding /\ <<>> \in Seq(Scalar)
  <2>1. <<>> \in Seq(Unit) /\ <<>> \in Seq(Scalar)
    BY SMT
  <2> QED BY <2>1, UnicodeIs, Zenon DEF IsMeant
<1> DEFINE u == Encoded("UTF-16", c)
<1>1. u \in Seq(Unit) /\ Swapped(u) \in Seq(Unit) /\ Swapped(Swapped(u)) = u
  <2>1. u \in Seq(Unit)
    BY <1>0, EncodedBytes, Zenon
  <2> HIDE DEF u
  <2> QED BY <2>1, SwappedAt, SwappedTwice, Zenon
<1>2. u = <<>> => c = <<>>
  <2>1. CodesOfUTF16(u) = c /\ CodesOfUTF16(Encoded("UTF-16", <<>>)) = <<>>
    BY <1>0, CodesOfEncoded, Zenon
  <2>2. Encoded("UTF-16", <<>>) = <<>>
    BY <1>0, EncodedEmpty, Zenon
  <2> QED BY <2>1, <2>2, Zenon
<1> HIDE DEF u
<1>3. \A v \in Seq(Unit) : BytesOf(v) \in Seq(Byte) /\ (BytesOf(v) = <<>> => v = <<>>)
  <2>1. BytesOf(<<>>) = <<>>
    <3>1. 1..2 * Len(<<>>) = 1..0
      BY SMT
    <3>2. BytesOf(<<>>) \in Seq(Byte) /\ DOMAIN BytesOf(<<>>) = 1..2 * Len(<<>>)
      BY <1>0, BytesOfType, Zenon DEF BytesOf
    <3> DEFINE b == BytesOf(<<>>)
    <3> HIDE DEF b
    <3>3. b \in Seq(Byte) /\ DOMAIN b = 1..0
      BY <3>1, <3>2, Zenon DEF b
    <3> QED BY <3>3, SMT DEF b
  <2>2. ASSUME NEW v \in Seq(Unit), BytesOf(v) = <<>> PROVE v = <<>>
    BY <1>0, <2>1, <2>2, UnitsOfBytes, Zenon
  <2> QED BY <2>2, BytesOfType, Zenon
<1>4. Swapped(u) = <<>> => u = <<>>
  <2>1. Swapped(<<>>) = <<>>
    <3> DEFINE b == Swapped(<<>>)
    <3>1. b \in Seq(Unit) /\ Len(b) = Len(<<>>)
      BY <1>0, SwappedAt, Zenon
    <3> HIDE DEF b
    <3>2. b = <<>>
      BY <3>1, SMT
    <3> QED BY <3>2, Zenon DEF b
  <2> QED BY <1>1, <2>1, Zenon
<1>5. CASE e = "UTF-8" \/ e = "preamble"
  <2>1. InFile(c, e) = Encoded("UTF-8", c)
    BY <1>5, InFileIs, Zenon
  <2> QED BY <2>1, EncodedHead, Zenon
<1>6. CASE e = "LE"
  <2>1. InFile(c, e) = BytesOf(u)
    BY <1>6, InFileIs, Zenon DEF u
  <2> QED BY <1>1, <1>2, <1>3, <2>1, Zenon
<1>7. CASE e = "BE"
  <2>1. InFile(c, e) = BytesOf(Swapped(u))
    BY <1>7, InFileIs, Zenon DEF u
  <2> QED BY <1>1, <1>2, <1>3, <1>4, <2>1, Zenon
<1>8. CASE e = "ISO-8859-1"
  <2>1. InFile(c, e) = c
    BY <1>8, InFileIs, Zenon
  <2> QED BY <1>8, <2>1, Zenon DEF Suits
<1> QED BY <1>5, <1>6, <1>7, <1>8, Zenon DEF FileKind

\* A file of some kind that holds a text.
StandsFor(s, e, c) == s = BomOf(e) \o InFile(c, e) /\ Suits(e, c)

\* Every kind of file is unmarked or is one of the rows.
LEMMA KindIs ==
  ASSUME NEW e \in FileKind
  PROVE  \/ (e = "UTF-8" \/ e = "ISO-8859-1") /\ FlagOf(e) = {}
         \/ \E k \in 1..3 : BomTable[k].flag = e /\ FlagOf(e) = {e}
<1>1. 1 \in 1..3 /\ 2 \in 1..3 /\ 3 \in 1..3
  BY SMT
<1>2. CASE e = "UTF-8" \/ e = "ISO-8859-1"
  <2>1. e \notin FileFlags
    BY <1>2, Zenon DEF FileFlags
  <2> QED BY <1>2, <2>1, Zenon DEF FlagOf
<1>3. CASE e = "preamble"
  <2>1. BomTable[1].flag = e
    BY <1>3, EachRow, Zenon DEF RowIs
  <2>2. FlagOf(e) = {e}
    BY <1>3, Zenon DEF FlagOf, FileFlags
  <2> QED BY <1>1, <2>1, <2>2, Zenon
<1>4. CASE e = "LE"
  <2>1. BomTable[2].flag = e
    BY <1>4, EachRow, Zenon DEF RowIs
  <2>2. FlagOf(e) = {e}
    BY <1>4, Zenon DEF FlagOf, FileFlags
  <2> QED BY <1>1, <2>1, <2>2, Zenon
<1>5. CASE e = "BE"
  <2>1. BomTable[3].flag = e
    BY <1>5, EachRow, Zenon DEF RowIs
  <2>2. FlagOf(e) = {e}
    BY <1>5, Zenon DEF FlagOf, FileFlags
  <2> QED BY <1>1, <2>1, <2>2, Zenon
<1> QED BY <1>2, <1>3, <1>4, <1>5, Zenon DEF FileKind

\* How a file that holds a text is opened.
Opens(open, s, e, c, f) ==
  \/ s = <<>> /\ c = <<>> /\ open.flags = f /\ open.bom = <<>> /\ FlagOf(e) = {}
  \/ /\ s # <<>> /\ open.flags = (f \ {"LE", "preamble"}) \cup FlagOf(e)
     /\ SubSeq(s, Len(open.bom) + 1, Len(s)) = InFile(c, e)
     /\ (open.bom # <<>> => FlagOf(e) # {})
     /\ EncRead(open.enc, e, c)

\* FileOpen finds it so.
LEMMA OpensAs ==
  ASSUME NEW c, IsMeant(c), NEW e \in FileKind, NEW s, StandsFor(s, e, c), NEW f
  PROVE  Opens(OpenedToRead(s, f), s, e, c, f)
<1> DEFINE t == InFile(c, e)  open == OpenedToRead(s, f)
<1>1. t \in Seq(Byte) /\ (t = <<>> => c = <<>>) /\ Suits(e, c)
  BY NothingInFile, Zenon DEF StandsFor
<1>2. s = BomOf(e) \o t
  BY Zenon DEF StandsFor
<1> HIDE DEF t
<1>3. CASE (e = "UTF-8" \/ e = "ISO-8859-1") /\ FlagOf(e) = {}
  <2>1. s = t
    <3>1. <<>> \o t = t
      BY <1>1, ConcatEmptySeq, Zenon
    <3>2. BomOf(e) = <<>>
      BY <1>3, MarkIs, Zenon
    <3> QED BY <1>2, <3>1, <3>2, Zenon
  <2>2. CASE s = <<>>
    <3>1. open = [flags |-> f, enc |-> "", bom |-> <<>>]
      BY <2>2, Zenon DEF OpenedToRead
    <3>3. open.flags = f /\ open.bom = <<>>
      <4> HIDE DEF open
      <4> QED BY <3>1, OpenedFields, Zenon
    <3> QED BY <1>1, <1>3, <2>1, <2>2, <3>3, Zenon DEF Opens
  <2>3. CASE s # <<>>
    <3>1. /\ c # <<>> => t # <<>> /\ t[1] = c[1]
          /\ Declared(t) = Declared(c)
      <4>1. CASE e = "UTF-8"
        <5>1. t = Encoded("UTF-8", c)
          BY <4>1, InFileIs, Zenon DEF t
        <5> DEFINE r == Encoded("UTF-8", c)
        <5>2. (r = <<>> <=> c = <<>>) /\ (c # <<>> => r[1] = c[1]) /\ Declared(r) = Declared(c)
          BY EncodedHead, Zenon
        <5> HIDE DEF r
        <5>3. t = r
          BY <5>1, Zenon DEF r
        <5> QED BY <5>2, <5>3, Zenon
      <4>2. CASE e = "ISO-8859-1"
        <5>1. t = c
          BY <4>2, InFileIs, Zenon DEF t
        <5> QED BY <5>1, Zenon
      <4> QED BY <1>3, <4>1, <4>2
    <3>2. c # <<>>
      <4>1. CASE e = "UTF-8"
        <5>1. t = Encoded("UTF-8", c)
          BY <4>1, InFileIs, Zenon DEF t
        <5> QED BY <2>1, <2>3, <5>1, EncodedHead, Zenon
      <4>2. CASE e = "ISO-8859-1"
        <5>1. t = c
          BY <4>2, InFileIs, Zenon DEF t
        <5> QED BY <2>1, <2>3, <5>1, Zenon
      <4> QED BY <1>3, <4>1, <4>2
    <3>3. s[1] \in Begins /\ s \in Seq(Byte)
      BY <1>1, <2>1, <3>1, <3>2, Zenon DEF IsMeant
    <3>4. open.flags = f \ {"LE", "preamble"} /\ open.enc = Declared(s) /\ open.bom = <<>>
      BY <2>3, <3>3, OpenedUnmarked, Zenon
    <3>5. SubSeq(s, Len(open.bom) + 1, Len(s)) = t
      <4>1. Len(<<>>) + 1 = 1
        BY SMT
      <4>2. SubSeq(s, 1, Len(s)) = s
        BY <3>3, RestOf, Zenon
      <4> QED BY <2>1, <3>4, <4>1, <4>2, Zenon
    <3>6. EncRead(open.enc, e, c)
      <4>1. e # "preamble" /\ e # "LE" /\ e # "BE"
        BY <1>3, Zenon
      <4> QED BY <2>1, <3>1, <3>4, <4>1, Zenon DEF EncRead
    <3>7. open.flags = (f \ {"LE", "preamble"}) \cup FlagOf(e)
      BY <1>3, <3>4, Zenon
    <3> HIDE DEF open
    <3> QED BY <2>3, <3>4, <3>5, <3>6, <3>7, Zenon DEF Opens, open, t
  <2> QED BY <2>2, <2>3
<1>4. ASSUME NEW k \in 1..3, BomTable[k].flag = e, FlagOf(e) = {e}
      PROVE  Opens(open, s, e, c, f)
  <2> DEFINE b == BomTable[k].bom
  <2>1. s = b \o t
    BY <1>2, <1>4, MarkIs, Zenon
  <2>2. /\ s # <<>> /\ open.flags = (f \ {"LE", "preamble"}) \cup {BomTable[k].flag}
        /\ open.enc = BomTable[k].enc /\ open.bom = b
    BY <1>1, <2>1, OpenedMarked, Zenon
  <2>3. SubSeq(s, Len(b) + 1, Len(s)) = t
    <3>2. b \in Seq(Byte)
      BY RowsDiffer, Zenon DEF Marks
    <3> HIDE DEF b
    <3>1. b \in Seq(Nat) /\ t \in Seq(Nat)
      BY <1>1, <3>2, SmallSets, SeqMonotonic, Zenon
    <3>3. SubSeq(b \o t, Len(b) + 1, Len(b \o t)) = t
      BY <3>1, PrefixOf, Zenon
    <3> QED BY <2>1, <3>3, Zenon
  <2>4. EncRead(BomTable[k].enc, e, c)
    <3>1. k = 1 \/ k = 2 \/ k = 3
      BY SMT
    <3>2. CASE k = 1
      <4>1. BomTable[k].enc = "UTF-8" /\ e = "preamble"
        BY <1>4, <3>2, EachRow, Zenon DEF RowIs
      <4>2. e # "UTF-8" /\ e # "ISO-8859-1" /\ e # "LE" /\ e # "BE"
        BY <4>1, Zenon
      <4> QED BY <4>1, <4>2, Zenon DEF EncRead
    <3>3. CASE k = 2
      <4>1. BomTable[k].enc = "UTF-16LE" /\ e = "LE"
        BY <1>4, <3>3, EachRow, Zenon DEF RowIs
      <4>2. e # "UTF-8" /\ e # "ISO-8859-1" /\ e # "preamble" /\ e # "BE"
        BY <4>1, Zenon
      <4> QED BY <4>1, <4>2, Zenon DEF EncRead
    <3>4. CASE k = 3
      <4>1. BomTable[k].enc = "UTF-16BE" /\ e = "BE"
        BY <1>4, <3>4, EachRow, Zenon DEF RowIs
      <4>2. e # "UTF-8" /\ e # "ISO-8859-1" /\ e # "preamble" /\ e # "LE"
        BY <4>1, Zenon
      <4> QED BY <4>1, <4>2, Zenon DEF EncRead
    <3> QED BY <3>1, <3>2, <3>3, <3>4
  <2> HIDE DEF open, b
  <2> QED BY <1>4, <2>2, <2>3, <2>4, Zenon DEF Opens, t, b
<1> QED BY <1>3, <1>4, KindIs, Zenon

\* A text with a length is not nothing.
LEMMA NotNothing == \A w : Len(w) \in 1..4 => w # <<>>
BY Len(<<>>) = 0, 0 \notin 1..4, Zenon

\* What iconv writes of a text in UTF-8, in the two encodings.
LEMMA IConvSame ==
  /\ \A d \in Seq(Scalar) : IConv("UTF-8", Encoded("UTF-8", d)) = Encoded("UTF-8", d)
  /\ \A d \in Seq(Byte) : d \in Seq(Scalar) /\ IConv("ISO-8859-1", Encoded("UTF-8", d)) = d
<1>0. "UTF-8" \in Encoding /\ "ISO-8859-1" \in Encoding
  BY SMT DEF Encoding
<1>1. ASSUME NEW d \in Seq(Scalar)
      PROVE  IConv("UTF-8", Encoded("UTF-8", d)) = Encoded("UTF-8", d)
  <2>1. ASSUME NEW k \in 1..Len(d) PROVE Encode("UTF-8", d[k]) # <<>>
    <3>1. d[k] \in Scalar
      BY SMT
    <3>2. EncodeCharUTF8(d[k]) \in Seq(Byte) /\ Len(EncodeCharUTF8(d[k])) \in 1..4
      BY <3>1, EncodeUTF8Type, Zenon
    <3>3. EncodeCharUTF8(d[k]) # <<>>
      BY <3>2, NotNothing, Zenon
    <3> QED BY <3>3, UnicodeIs, Zenon
  <2> QED BY <1>0, <2>1, IConvEncoded, Zenon
<1>2. Byte \in SUBSET Scalar /\ \A x \in Byte : Encode("ISO-8859-1", x) = <<x>>
  <2>1. Byte \in SUBSET Scalar /\ \A x \in Byte : x < 256
    BY SMT DEF Byte, Scalar, IsScalar, IsCode
  <2> QED BY <2>1, UnicodeIs, Zenon
<1>3. ASSUME NEW d \in Seq(Byte)
      PROVE  d \in Seq(Scalar) /\ IConv("ISO-8859-1", Encoded("UTF-8", d)) = d
  <2>1. d \in Seq(Scalar)
    BY <1>2, SeqMonotonic, Zenon
  <2>2. \A k \in 1..Len(d) : Encode("ISO-8859-1", d[k]) # <<>>
    <3>1. \A k \in 1..Len(d) : d[k] \in Byte
      BY SMT
    <3>2. \A x : <<x>> # <<>>
      BY SMT
    <3> QED BY <1>2, <3>1, <3>2, Zenon
  <2>3. IConv("ISO-8859-1", Encoded("UTF-8", d)) = Encoded("ISO-8859-1", d)
    BY <1>0, <2>1, <2>2, IConvEncoded, Zenon
  <2>4. Encoded("ISO-8859-1", d) = d
    BY <1>0, <1>2, EncodedItself, Zenon
  <2> QED BY <2>1, <2>3, <2>4, Zenon
<1> QED BY <1>1, <1>3

\* What Load makes of the text behind the mark (FileReadText).
LEMMA ReadAsMeant ==
  ASSUME NEW c, IsMeant(c), NEW e \in FileKind, Suits(e, c), NEW enc, EncRead(enc, e, c)
  PROVE  ReadText(InFile(c, e), FlagOf(e), enc) = Encoded("UTF-8", WithoutNulls(c))
<1> DEFINE t == InFile(c, e)  f == FlagOf(e)  w == WithoutNulls(c)  u == Encoded("UTF-16", c)
           v == Encoded("UTF-16", w)  g == Encoded("UTF-8", w)
<1>0. /\ "UTF-8" \in Encoding /\ "UTF-8" \in Unicode /\ "UTF-16" \in Unicode
      /\ c \in Seq(Scalar) /\ w \in Seq(Scalar)
      /\ Byte \in SUBSET Nat /\ Unit \in SUBSET Nat /\ Scalar \in SUBSET Nat
  <2>1. w \in Seq(Scalar)
    BY CleanIs, Zenon DEF IsClean, IsMeant
  <2> QED BY <2>1, UnicodeIs, SmallSets, Zenon DEF IsMeant
<1>1. t \in Seq(Byte) /\ (t = <<>> => c = <<>>)
  BY NothingInFile, Zenon
<1>2. u \in Seq(Unit) /\ v \in Seq(Unit)
  <2> HIDE DEF w
  <2> QED BY <1>0, EncodedBytes, Zenon
<1>3. WithoutNulls(u) = v
  BY <1>0, EncodedWithoutNulls, Zenon
<1>4. CodesOfUTF16(v) = w
  <2> HIDE DEF w
  <2> QED BY <1>0, CodesOfEncoded, Zenon
<1> HIDE DEF t, f, u, v, g
<1>5. CASE t = <<>>
  <2>1. w = <<>>
    BY <1>1, <1>5, WithoutNullsCons, Zenon
  <2>2. g = <<>>
    BY <1>0, <2>1, EncodedEmpty, Zenon DEF g
  <2>3. ReadText(t, f, enc) = <<>>
    BY <1>5, Zenon DEF ReadText
  <2> QED BY <2>2, <2>3, Zenon DEF t, f, g
<1>6. CASE t # <<>> /\ e = "LE"
  <2>1. f = {"LE"}
    BY <1>6, Zenon DEF f, FlagOf, FileFlags
  <2>2. f \cap {"LE", "BE"} # {} /\ ~EndianSwapRequired(f)
    <3>1. "LE" # "BE"
      BY Zenon
    <3> QED BY <2>1, <3>1, Zenon DEF EndianSwapRequired
  <2>3. ReadText(t, f, enc) = Encoded("UTF-8", CodesOfUTF16(NullsRemoved(UnitsOf(t))))
    BY <1>6, <2>2, Zenon DEF ReadText
  <2>4. UnitsOf(t) = u
    <3>1. t = BytesOf(u)
      BY <1>6, InFileIs, Zenon DEF t, u
    <3> QED BY <1>2, <3>1, UnitsOfBytes, Zenon
  <2>5. NullsRemoved(u) = v
    BY <1>0, <1>2, <1>3, NullsRemovedIs, Zenon
  <2> QED BY <1>4, <2>3, <2>4, <2>5, Zenon DEF t, f
<1>7. CASE t # <<>> /\ e = "BE"
  <2>1. f = {"BE"}
    BY <1>7, Zenon DEF f, FlagOf, FileFlags
  <2>2. f \cap {"LE", "BE"} # {} /\ EndianSwapRequired(f)
    BY <2>1, Zenon DEF EndianSwapRequired
  <2>3. ReadText(t, f, enc) = Encoded("UTF-8", CodesOfUTF16(Swapped(NullsRemoved(UnitsOf(t)))))
    BY <1>7, <2>2, Zenon DEF ReadText
  <2>4. Swapped(u) \in Seq(Unit)
    BY <1>2, SwappedAt, Zenon
  <2>5. UnitsOf(t) = Swapped(u)
    <3>1. t = BytesOf(Swapped(u))
      BY <1>7, InFileIs, Zenon DEF t, u
    <3> QED BY <2>4, <3>1, UnitsOfBytes, Zenon
  <2>6. NullsRemoved(Swapped(u)) = Swapped(v)
    <3>1. NullsRemoved(Swapped(u)) = WithoutNulls(Swapped(u))
      BY <1>0, <2>4, NullsRemovedIs, Zenon
    <3>2. WithoutNulls(Swapped(u)) = Swapped(WithoutNulls(u))
      BY <1>2, SwappedWithoutNulls, Zenon
    <3> QED BY <1>3, <3>1, <3>2, Zenon
  <2>7. Swapped(Swapped(v)) = v
    BY <1>2, SwappedTwice, Zenon
  <2> QED BY <1>4, <2>3, <2>5, <2>6, <2>7, Zenon DEF t, f
<1>8. CASE t # <<>> /\ e # "LE" /\ e # "BE"
  <2>1. ~(f \cap {"LE", "BE"} # {})
    BY <1>8, Zenon DEF f, FlagOf
  <2>2. ReadText(t, f, enc) = ToMemory(IF enc = "" THEN "UTF-8" ELSE enc, NullsRemoved(t))
    BY <1>8, <2>1, Zenon DEF ReadText
  <2>3. NullsRemoved(t) = WithoutNulls(t)
    BY <1>0, <1>1, NullsRemovedIs, Zenon
  <2>4. CASE e = "UTF-8" \/ e = "preamble"
    <3>1. (IF enc = "" THEN "UTF-8" ELSE enc) = "UTF-8"
      <4>1. enc = "" \/ enc = "UTF-8"
        BY <2>4, Zenon DEF EncRead, Suits
      <4> QED BY <4>1, Zenon
    <3>2. ReadText(t, f, enc) = IConv("UTF-8", WithoutNulls(t))
      BY <2>2, <2>3, <3>1, ToMemoryIs, Zenon
    <3>3. t = Encoded("UTF-8", c)
      BY <2>4, InFileIs, Zenon DEF t
    <3>4. WithoutNulls(t) = g
      BY <1>0, <3>3, EncodedWithoutNulls, Zenon DEF g
    <3>5. IConv("UTF-8", g) = g
      <4> HIDE DEF w
      <4> QED BY <1>0, IConvSame, Zenon DEF g
    <3> QED BY <3>2, <3>4, <3>5, Zenon DEF t, f, g
  <2>5. CASE e = "ISO-8859-1"
    <3>1. (IF enc = "" THEN "UTF-8" ELSE enc) = "ISO-8859-1"
      <4>1. enc = "ISO-8859-1" /\ "ISO-8859-1" # ""
        BY <2>5, Zenon DEF EncRead, Suits
      <4> QED BY <4>1, Zenon
    <3>2. ReadText(t, f, enc) = Encoded("UTF-8", WithoutNulls(t))
      BY <2>2, <2>3, <3>1, ToMemoryIs, Zenon
    <3>3. t = c
      BY <2>5, InFileIs, Zenon DEF t
    <3> QED BY <3>2, <3>3, Zenon DEF t, f
  <2> QED BY <1>8, <2>4, <2>5, Zenon DEF FileKind
<1> QED BY <1>5, <1>6, <1>7, <1>8, Zenon

\* The characters that UTF-16 holds in single units.
Single == {x \in Scalar : x < 65536}

\* A character among them is one unit of UTF-16, itself.
LEMMA SingleIs ==
  /\ Single \in SUBSET Scalar
  /\ \A x \in Single : Encode("UTF-16", x) = <<x>>
<1>1. \A x \in Single : EncodeCharUTF16(x) = <<x>>
  BY SMT DEF Single, EncodeCharUTF16
<1>2. Single \in SUBSET Scalar
  BY SMT DEF Single
<1> QED BY <1>1, <1>2, UnicodeIs, Zenon

\* PerformConversion to UTF-16 is right for texts of them.
LEMMA ToUnitsEncoded ==
  ASSUME NEW c \in Seq(Single)
  PROVE  ToUnits(Encoded("UTF-8", c)) = Encoded("UTF-16", c)
<1> DEFINE s == Encoded("UTF-8", c)  codes == CodesOfUTF8(s)
<1>0. c \in Seq(Scalar) /\ "UTF-16" \in Encoding
  BY SingleIs, UnicodeIs, SeqMonotonic, Zenon
<1>1. codes = c
  BY <1>0, CodesOfEncoded, Zenon
<1>2. ToUnits(s) = [k \in DOMAIN codes |-> codes[k] % 65536]
  BY DEF ToUnits
<1> HIDE DEF codes, s
<1>3. ToUnits(s) = [k \in DOMAIN c |-> c[k] % 65536]
  BY <1>1, <1>2
<1>4. \A k \in DOMAIN c : c[k] % 65536 = c[k]
  <2>1. \A x \in Single : x % 65536 = x
    BY SMT DEF Single, Scalar
  <2>2. \A k \in DOMAIN c : c[k] \in Single
    BY SMT
  <2> QED BY <2>1, <2>2
<1>5. c = [k \in DOMAIN c |-> c[k]]
  BY SMT
<1>6. ToUnits(s) = c
  BY <1>3, <1>4, <1>5
<1>7. Encoded("UTF-16", c) = c
  BY <1>0, SingleIs, EncodedItself, Zenon
<1> QED BY <1>6, <1>7, Zenon DEF s

\* At most one mark is remembered.
FlagSets == {{}, {"LE"}, {"BE"}, {"preamble"}}

\* Load of a file that holds something makes it so, if it does not go astray.
LEMMA FlagsOpened ==
  ASSUME NEW s, s # <<>>, NEW f \in SUBSET FileFlags,
         "BE" \in f => OpenedToRead(s, f).enc = "UTF-16BE"
  PROVE  OpenedToRead(s, f).flags \in FlagSets
<1> DEFINE open == OpenedToRead(s, f)
           rows == {i \in DOMAIN BomTable : IsPrefix(BomTable[i].bom, s)}
           row == First(rows)  decl == Declared(s)
           fs == (f \ {"LE", "preamble"}) \cup ({row.flag} \ {""})
           e == IF row # NoBom THEN row.enc ELSE decl
<1>1. open = [flags |-> fs, enc |-> e, bom |-> row.bom]
  BY Zenon DEF OpenedToRead
<1>2. open.flags = fs /\ open.enc = e
  <2> HIDE DEF open, row, fs, e
  <2> QED BY <1>1, OpenedFields, Zenon
<1>3. row = NoBom \/ \E k \in 1..3 : row = BomTable[k]
  BY FirstIs, BomRows, Zenon
<1>4. "BE" \in f => e = "UTF-16BE"
  BY <1>2, Zenon
<1> HIDE DEF open, row
<1>5. /\ row.flag = "" \/ row.flag \in FileFlags
      /\ "BE" \in f => row.flag = "BE"
  <2>1. CASE row = NoBom
    <3>1. row.flag = "" /\ e = decl
      BY <2>1, BomRows, Zenon
    <3>2. decl # "UTF-16BE"
      BY DeclaredNotBE, Zenon
    <3> QED BY <1>4, <3>1, <3>2, Zenon
  <2>2. ASSUME NEW k \in 1..3, row = BomTable[k]
        PROVE  row.flag \in FileFlags /\ ("BE" \in f => row.flag = "BE")
    <3>1. /\ \/ row.enc = "UTF-8" /\ row.flag = "preamble"
             \/ row.enc = "UTF-16LE" /\ row.flag = "LE"
             \/ row.enc = "UTF-16BE" /\ row.flag = "BE"
          /\ row # NoBom
      BY <2>2, BomRows, Zenon
    <3>2. row.flag \in FileFlags
      BY <3>1, Zenon DEF FileFlags
    <3>3. ASSUME "BE" \in f PROVE row.flag = "BE"
      <4>1. row.enc = "UTF-16BE"
        BY <1>4, <3>1, <3>3, Zenon
      <4>2. row.enc # "UTF-8" /\ row.enc # "UTF-16LE"
        BY <4>1, Zenon
      <4> QED BY <3>1, <4>2, Zenon
    <3> QED BY <3>2, <3>3
  <2> QED BY <1>3, <2>1, <2>2, Zenon
<1> DEFINE r == row.flag
<1> HIDE DEF r
<1>6. fs = (f \ {"LE", "preamble"}) \cup ({r} \ {""})
  BY Zenon DEF r
<1> HIDE DEF fs, e
<1>7. CASE "BE" \in f
  <2>1. r = "BE" /\ "BE" # "" /\ "BE" # "LE" /\ "BE" # "preamble"
    BY <1>5, <1>7, Zenon DEF r
  <2>2. fs = {"BE"}
    <3>1. {r} \ {""} = {"BE"}
      BY <2>1, Zenon
    <3>2. f \ {"LE", "preamble"} = {"BE"}
      BY <1>7, <2>1, Zenon DEF FileFlags
    <3> QED BY <1>6, <3>1, <3>2, Zenon
  <2> QED BY <1>2, <2>2, Zenon DEF FlagSets, open
<1>8. CASE "BE" \notin f
  <2>1. f \ {"LE", "preamble"} = {}
    BY <1>8, Zenon DEF FileFlags
  <2>2. fs = {r} \ {""}
    BY <1>6, <2>1, Zenon
  <2>3. CASE r = ""
    <3>1. fs = {}
      BY <2>2, <2>3, Zenon
    <3> QED BY <1>2, <3>1, Zenon DEF FlagSets, open
  <2>4. CASE r # "" /\ r \in FileFlags
    <3>1. fs = {r}
      BY <2>2, <2>4, Zenon
    <3> QED BY <1>2, <2>4, <3>1, Zenon DEF FlagSets, FileFlags, open
  <2> QED BY <1>5, <2>3, <2>4, Zenon DEF r
<1> QED BY <1>7, <1>8

\* The mark of the file alone is remembered, as one of UTF-16BE comes before no other.
LEMMA FlagsKept ==
  ASSUME NEW f \in SUBSET FileFlags, NEW e \in FileKind, "BE" \in f => e = "BE"
  PROVE  (f \ {"LE", "preamble"}) \cup FlagOf(e) = FlagOf(e)
<1>1. CASE "BE" \in f
  <2>1. "BE" # "LE" /\ "BE" # "preamble" /\ e = "BE"
    BY <1>1, Zenon
  <2>2. FlagOf(e) = {"BE"}
    BY <2>1, Zenon DEF FlagOf, FileFlags
  <2>3. f \ {"LE", "preamble"} = {"BE"}
    BY <1>1, <2>1, Zenon DEF FileFlags
  <2> QED BY <2>2, <2>3, Zenon
<1>2. CASE "BE" \notin f
  <2>1. f \ {"LE", "preamble"} = {}
    BY <1>2, Zenon DEF FileFlags
  <2> QED BY <2>1, Zenon
<1> QED BY <1>1, <1>2

\* The invariant: a file whose text is known holds that text in one of the encodings, what was
\* loaded from it or saved to it is that text without its nulls, and what was set has none. More
\* than one mark is remembered only after loads that went astray, and until a load that does not.
FileSound ==
  meant # Unknown => IsMeant(meant) /\ \E e \in FileKind : StandsFor(file, e, meant)
TextSound ==
  /\ file = Absent => state = "set"
  /\ state = "set" => \E d : IsClean(d) /\ text = Encoded("UTF-8", d)
  /\ state \in {"loaded", "saved"} /\ meant # Unknown
       => text = Encoded("UTF-8", WithoutNulls(meant))
FlagSound ==
  \/ flags \in FlagSets
  \/ state = "astray" /\ file # <<>>
  \/ state \in {"loaded", "saved"} /\ meant = Unknown
FileTruth == FileInv /\ FlagSound /\ FileSound /\ TextSound

\* No text is that of no characters.
LEMMA NoText == IsClean(<<>>) /\ Encoded("UTF-8", <<>>) = <<>> /\ WithoutNulls(<<>>) = <<>>
<1>1. <<>> \in Seq(Scalar) /\ <<>> \in Seq(NotZero(Scalar))
  BY SMT
<1>2. "UTF-8" \in Encoding
  BY UnicodeIs, Zenon
<1>3. IsClean(<<>>)
  BY <1>1, Zenon DEF IsClean, IsMeant
<1> QED BY <1>2, <1>3, EncodedEmpty, WithoutNullsCons, Zenon

\* Load reads what the file stands for.
LEMMA LoadTruth ==
  ASSUME FileTruth, Load
  PROVE  FileTruth'
<1> DEFINE open == OpenedToRead(file, flags)
           s == SubSeq(file, Len(open.bom) + 1, Len(file))
<1>1. /\ file # Absent /\ flags' = open.flags /\ text' = ReadText(s, open.flags, open.enc)
      /\ state' = "loaded" /\ file' = file /\ meant' = meant
  BY Zenon DEF Load, Behind
<1>2. "BE" \in flags /\ file # <<>> => open.enc = "UTF-16BE"
  BY Zenon DEF Load, Astray
<1>3. FileInv /\ FlagSound /\ FileSound /\ TextSound /\ flags \in SUBSET FileFlags
  BY FileTypeIs, Zenon DEF FileTruth, FileInv
<1>4. FileInv'
  BY <1>3, LoadInv
<1>5. FlagSound'
  <2>1. CASE file = <<>>
    <3>1. open = [flags |-> flags, enc |-> "", bom |-> <<>>]
      BY <2>1, Zenon DEF OpenedToRead
    <3>2. flags' = flags
      <4> HIDE DEF open
      <4> QED BY <1>1, <3>1, OpenedFields, Zenon
    <3> QED BY <1>1, <1>3, <2>1, <3>2, Zenon DEF FlagSound
  <2>2. CASE file # <<>>
    <3>1. flags' \in FlagSets
      BY <1>1, <1>2, <1>3, <2>2, FlagsOpened, Zenon
    <3> QED BY <3>1, Zenon DEF FlagSound
  <2> QED BY <2>1, <2>2
<1>6. FileSound'
  BY <1>1, <1>3, Zenon DEF FileSound
<1>7. "loaded" # "set"
  BY Zenon
<1>8. ASSUME meant # Unknown
      PROVE  text' = Encoded("UTF-8", WithoutNulls(meant))
  <2>1. IsMeant(meant) /\ \E e \in FileKind : StandsFor(file, e, meant)
    BY <1>3, <1>8, Zenon DEF FileSound
  <2>2. PICK e \in FileKind : StandsFor(file, e, meant)
    BY <2>1, Zenon
  <2>3. Opens(open, file, e, meant, flags) /\ Suits(e, meant)
    BY <2>1, <2>2, OpensAs, Zenon DEF StandsFor
  <2> HIDE DEF open
  <2>4. CASE /\ file = <<>> /\ meant = <<>> /\ open.flags = flags /\ open.bom = <<>>
             /\ FlagOf(e) = {}
    <3>1. s = <<>>
      <4>1. SubSeq(<<>>, Len(<<>>) + 1, Len(<<>>)) = <<>>
        BY SMT
      <4> QED BY <2>4, <4>1, Zenon
    <3>2. text' = <<>>
      <4> HIDE DEF s
      <4> QED BY <1>1, <3>1, Zenon DEF ReadText
    <3> QED BY <2>4, <3>2, NoText, Zenon
  <2>5. CASE /\ file # <<>> /\ open.flags = (flags \ {"LE", "preamble"}) \cup FlagOf(e)
             /\ s = InFile(meant, e)
             /\ (open.bom # <<>> => FlagOf(e) # {})
             /\ EncRead(open.enc, e, meant)
    <3>1. ASSUME "BE" \in flags PROVE e = "BE"
      <4>1. open.enc = "UTF-16BE"
        BY <1>2, <2>5, <3>1, Zenon
      <4>2. open.enc # "UTF-16LE" /\ open.enc # "UTF-8"
        BY <4>1, Zenon
      <4>3. open.enc # Declared(meant)
        BY <4>1, DeclaredNotBE, Zenon
      <4> HIDE DEF open
      <4> QED BY <2>5, <4>2, <4>3, Zenon DEF EncRead, FileKind
    <3>2. open.flags = FlagOf(e)
      <4>1. (flags \ {"LE", "preamble"}) \cup FlagOf(e) = FlagOf(e)
        BY <1>3, <3>1, FlagsKept, Zenon
      <4> QED BY <2>5, <4>1, Zenon
    <3>3. ReadText(InFile(meant, e), FlagOf(e), open.enc) = Encoded("UTF-8", WithoutNulls(meant))
      BY <2>1, <2>3, <2>5, ReadAsMeant, Zenon
    <3> HIDE DEF s
    <3> QED BY <1>1, <2>5, <3>2, <3>3, Zenon
  <2> QED BY <2>3, <2>4, <2>5, Zenon DEF Opens
<1>9. TextSound'
  BY <1>1, <1>7, <1>8, Zenon DEF TextSound
<1> QED BY <1>4, <1>5, <1>6, <1>9, Zenon DEF FileTruth

\* A load that goes astray leaves the file as it is.
LEMMA AstrayTruth ==
  ASSUME FileTruth, LoadAstray
  PROVE  FileTruth'
<1>1. /\ file # Absent /\ file # <<>> /\ state' = "astray" /\ file' = file /\ meant' = meant
  BY Zenon DEF LoadAstray, Astray
<1>2. FileInv /\ FileSound
  BY Zenon DEF FileTruth
<1>3. FileInv'
  BY <1>2, AstrayInv
<1>4. FileSound' /\ FlagSound'
  BY <1>1, <1>2, Zenon DEF FileSound, FlagSound
<1>5. "astray" # "set" /\ "astray" # "loaded" /\ "astray" # "saved"
  BY Zenon
<1>6. TextSound'
  BY <1>1, <1>5, Zenon DEF TextSound
<1> QED BY <1>3, <1>4, <1>6, Zenon DEF FileTruth

\* What Load hands over then stands for what was meant.
LEMMA TruthMeans ==
  ASSUME FileTruth
  PROVE  LoadedAsMeant
<1>1. SUFFICES ASSUME state = "loaded", meant # Unknown
               PROVE  CodesOfUTF8(text) = WithoutNulls(meant)
  BY Zenon DEF LoadedAsMeant
<1>2. "loaded" # "set"
  BY Zenon
<1>3. text = Encoded("UTF-8", WithoutNulls(meant)) /\ IsMeant(meant)
  BY <1>1, <1>2, Zenon DEF FileTruth, FileSound, TextSound
<1>4. WithoutNulls(meant) \in Seq(Scalar)
  BY <1>3, CleanIs, Zenon DEF IsClean, IsMeant
<1> QED BY <1>3, <1>4, CodesOfEncoded, Zenon

\* What an encoding keeps are the characters it has.
LEMMA KeptIs ==
  ASSUME NEW d \in Seq(Scalar), NEW enc, Kept(d, enc) # Unknown
  PROVE  /\ Kept(d, enc) = d
         /\ enc = "UTF-16LE" \/ enc = "UTF-16BE" => d \in Seq(Single)
         /\ enc = "ISO-8859-1" => d \in Seq(Byte)
<1> DEFINE limit == CASE enc \in {"UTF-16LE", "UTF-16BE"} -> 65536
                      [] enc = "ISO-8859-1" -> 256
                      [] OTHER -> 1114112
<1>1. Kept(d, enc) = IF \A k \in DOMAIN d : d[k] < limit THEN d ELSE Unknown
  BY DEF Kept
<1>2. enc = "UTF-16LE" \/ enc = "UTF-16BE" => limit = 65536
  BY SMT
<1>3. enc = "ISO-8859-1" => limit = 256
  BY SMT
<1> HIDE DEF limit
<1>4. Kept(d, enc) = d /\ \A k \in DOMAIN d : d[k] < limit
  BY <1>1, Zenon
<1>5. ASSUME enc = "UTF-16LE" \/ enc = "UTF-16BE" PROVE d \in Seq(Single)
  <2>1. \A k \in 1..Len(d) : d[k] \in Scalar /\ d[k] < 65536
    BY <1>2, <1>4, <1>5, SMT
  <2>2. \A k \in 1..Len(d) : d[k] \in Single
    BY <2>1, SMT DEF Single
  <2> QED BY <2>2, SMT
<1>6. ASSUME enc = "ISO-8859-1" PROVE d \in Seq(Byte)
  <2>1. \A k \in 1..Len(d) : d[k] \in Scalar /\ d[k] < 256
    BY <1>3, <1>4, <1>6, SMT
  <2>2. \A k \in 1..Len(d) : d[k] \in Byte
    BY <2>1, SMT DEF Byte, Scalar
  <2> QED BY <2>2, SMT
<1> QED BY <1>4, <1>5, <1>6, Zenon

\* A text that is written as a file of some kind, with the mark that goes with the flags.
Writes(s, f, e, d) == s = InFile(d, e) /\ f = FlagOf(e) /\ Suits(e, d)

\* FileWriteText does it.
LEMMA WritesAs ==
  ASSUME NEW d, IsClean(d), NEW f \in FlagSets, NEW enc, enc # "other", Kept(d, enc) # Unknown,
         LET row == OpenedToWrite(f)  s == Encoded("UTF-8", d)
         IN enc = IF row # NoBom THEN row.enc ELSE IF Declared(s) # "" THEN Declared(s) ELSE "UTF-8"
  PROVE  \E e \in FileKind : /\ Writes(WrittenText(Encoded("UTF-8", d), f, enc), f, e, d)
                             /\ OpenedToWrite(f).bom = BomOf(e)
<1> DEFINE s == Encoded("UTF-8", d)  row == OpenedToWrite(f)  t == WrittenText(s, f, enc)
<1>0. d \in Seq(Scalar) /\ Declared(s) = Declared(d)
  BY EncodedHead, Zenon DEF IsClean, IsMeant
<1>1. enc = IF row # NoBom THEN row.enc ELSE IF Declared(d) # "" THEN Declared(d) ELSE "UTF-8"
  BY <1>0, Zenon
<1>2. ~(f \cap {"LE", "BE"} # {}) => t = IConv(enc, s)
  <2>1. FromMemory(enc, s) = IConv(enc, s)
    BY Zenon DEF FromMemory
  <2> HIDE DEF s
  <2>2. ~(f \cap {"LE", "BE"} # {}) => t = FromMemory(enc, s)
    BY Zenon DEF WrittenText
  <2> QED BY <2>1, <2>2, Zenon
<1>3. 1 \in 1..3 /\ 2 \in 1..3 /\ 3 \in 1..3
  BY ThreeRows
<1> HIDE DEF s, t, row
<1>4. CASE f = {}
  <2>1. ~(f \cap {"LE", "BE"} # {})
    BY <1>4, Zenon
  <2>2. row = NoBom /\ row.bom = <<>>
    BY <1>4, OpenedToWriteIs, BomRows, Zenon DEF row
  <2>3. enc = IF Declared(d) # "" THEN Declared(d) ELSE "UTF-8"
    BY <1>1, <2>2, Zenon
  <2>4. \/ enc = "UTF-8" /\ Declared(d) \in {"", "UTF-8"}
        \/ enc = "ISO-8859-1" /\ Declared(d) = "ISO-8859-1"
    BY <2>3, DeclaredIs, Zenon
  <2>5. CASE enc = "UTF-8" /\ Declared(d) \in {"", "UTF-8"}
    <3>1. t = s
      BY <1>0, <1>2, <2>1, <2>5, IConvSame, Zenon DEF s
    <3>2. t = InFile(d, "UTF-8") /\ BomOf("UTF-8") = <<>>
      BY <3>1, InFileIs, MarkIs, Zenon DEF s
    <3>3. FlagOf("UTF-8") = {} /\ Suits("UTF-8", d) /\ "UTF-8" \in FileKind
      BY <2>5, Zenon DEF FlagOf, FileFlags, Suits, FileKind
    <3> QED BY <1>4, <2>2, <3>2, <3>3, Zenon DEF Writes, s, t, row
  <2>6. CASE enc = "ISO-8859-1" /\ Declared(d) = "ISO-8859-1"
    <3>1. d \in Seq(Byte)
      BY <1>0, <2>6, KeptIs, Zenon
    <3>2. t = d
      BY <1>2, <2>1, <2>6, <3>1, IConvSame, Zenon DEF s
    <3>3. t = InFile(d, "ISO-8859-1") /\ BomOf("ISO-8859-1") = <<>>
      BY <3>2, InFileIs, MarkIs, Zenon
    <3>4. FlagOf("ISO-8859-1") = {} /\ Suits("ISO-8859-1", d) /\ "ISO-8859-1" \in FileKind
      BY <2>6, <3>1, Zenon DEF FlagOf, FileFlags, Suits, FileKind
    <3> QED BY <1>4, <2>2, <3>3, <3>4, Zenon DEF Writes, s, t, row
  <2> QED BY <2>4, <2>5, <2>6
<1>5. ASSUME NEW k \in 1..3, f = {BomTable[k].flag}
      PROVE  /\ row.bom = BomOf(BomTable[k].flag) /\ enc = BomTable[k].enc
             /\ f = FlagOf(BomTable[k].flag)
  <2>1. row = BomTable[k] /\ row # NoBom /\ BomTable[k].flag \in FileFlags
    BY <1>5, OpenedToWriteIs, RowsDiffer, Zenon DEF row, Marks
  <2> QED BY <1>1, <1>5, <2>1, MarkIs, Zenon DEF FlagOf
<1>6. CASE f = {"preamble"}
  <2>1. BomTable[1].flag = "preamble" /\ BomTable[1].enc = "UTF-8"
    BY EachRow, Zenon DEF RowIs
  <2>2. row.bom = BomOf("preamble") /\ enc = "UTF-8" /\ f = FlagOf("preamble")
    BY <1>3, <1>5, <1>6, <2>1, Zenon
  <2>3. ~(f \cap {"LE", "BE"} # {})
    BY <1>6, Zenon
  <2>4. t = s
    BY <1>0, <1>2, <2>2, <2>3, IConvSame, Zenon DEF s
  <2>5. t = InFile(d, "preamble")
    BY <2>4, InFileIs, Zenon DEF s
  <2>6. Suits("preamble", d) /\ "preamble" \in FileKind
    BY Zenon DEF Suits, FileKind
  <2> QED BY <2>2, <2>5, <2>6, Zenon DEF Writes, s, t, row
<1>7. CASE f = {"LE"} \/ f = {"BE"}
  <2>1. /\ BomTable[2].flag = "LE" /\ BomTable[2].enc = "UTF-16LE"
        /\ BomTable[3].flag = "BE" /\ BomTable[3].enc = "UTF-16BE"
    BY EachRow, Zenon DEF RowIs
  <2>2. /\ f = {"LE"} => row.bom = BomOf("LE") /\ enc = "UTF-16LE" /\ f = FlagOf("LE")
        /\ f = {"BE"} => row.bom = BomOf("BE") /\ enc = "UTF-16BE" /\ f = FlagOf("BE")
    BY <1>3, <1>5, <2>1, Zenon
  <2>3. d \in Seq(Single)
    BY <1>0, <1>7, <2>2, KeptIs, Zenon
  <2>4. ToUnits(s) = Encoded("UTF-16", d)
    BY <2>3, ToUnitsEncoded, Zenon DEF s
  <2>5. f \cap {"LE", "BE"} # {}
    BY <1>7, Zenon
  <2>6. t = BytesOf(IF EndianSwapRequired(f) THEN Swapped(ToUnits(s)) ELSE ToUnits(s))
    BY <2>5, Zenon DEF WrittenText, t
  <2>7. CASE f = {"LE"}
    <3>1. ~EndianSwapRequired(f)
      <4>1. "LE" # "BE"
        BY Zenon
      <4> QED BY <2>7, <4>1, Zenon DEF EndianSwapRequired
    <3>2. t = InFile(d, "LE")
      BY <2>4, <2>6, <3>1, InFileIs, Zenon
    <3>3. Suits("LE", d) /\ "LE" \in FileKind
      BY Zenon DEF Suits, FileKind
    <3> QED BY <2>2, <2>7, <3>2, <3>3, Zenon DEF Writes, s, t, row
  <2>8. CASE f = {"BE"}
    <3>1. EndianSwapRequired(f)
      BY <2>8, Zenon DEF EndianSwapRequired
    <3>2. t = InFile(d, "BE")
      BY <2>4, <2>6, <3>1, InFileIs, Zenon
    <3>3. Suits("BE", d) /\ "BE" \in FileKind
      BY Zenon DEF Suits, FileKind
    <3> QED BY <2>2, <2>8, <3>2, <3>3, Zenon DEF Writes, s, t, row
  <2> QED BY <1>7, <2>7, <2>8
<1> QED BY <1>4, <1>6, <1>7, Zenon DEF FlagSets

\* What Save writes stands for the text in memory, unless the encoding cannot hold all of it.
LEMMA SaveWrites ==
  ASSUME FileTruth, Save, meant' # Unknown
  PROVE  /\ IsClean(meant') /\ text = Encoded("UTF-8", meant')
         /\ state # "set" => meant # Unknown /\ meant' = WithoutNulls(meant)
         /\ \E e \in FileKind : StandsFor(file', e, meant') /\ flags = FlagOf(e)
<1> DEFINE row == OpenedToWrite(flags)
           enc == IF row # NoBom THEN row.enc
                  ELSE IF Declared(text) # "" THEN Declared(text) ELSE "UTF-8"
<1>1. /\ file' = row.bom \o WrittenText(text, flags, enc)
      /\ meant' = IF enc = "other" \/ state = "astray" \/ (meant = Unknown /\ state # "set")
                    THEN Unknown
                  ELSE Kept(CodesOfUTF8(text), enc)
  BY Zenon DEF Save
<1>0. FlagSound /\ FileSound /\ TextSound /\ state \in {"set", "loaded", "astray", "saved"}
  BY FileTypeIs, Zenon DEF FileTruth, FileInv
<1>3. /\ enc # "other" /\ ~(meant = Unknown /\ state # "set") /\ state # "astray"
      /\ meant' = Kept(CodesOfUTF8(text), enc)
  <2> HIDE DEF enc
  <2> QED BY <1>1, Zenon
<1>2. flags \in FlagSets /\ FileSound /\ TextSound /\ state \in {"set", "loaded", "saved"}
  <2>1. "set" # "loaded" /\ "set" # "saved"
    BY Zenon
  <2> HIDE DEF enc
  <2> QED BY <1>0, <1>3, <2>1, Zenon DEF FlagSound
<1>4. PICK d : /\ IsClean(d) /\ text = Encoded("UTF-8", d)
               /\ state # "set" => meant # Unknown /\ d = WithoutNulls(meant)
  <2>1. CASE state = "set"
    BY <1>2, <2>1, Zenon DEF TextSound
  <2>2. CASE state # "set"
    <3>1. meant # Unknown
      BY <1>3, <2>2, Zenon
    <3>2. IsMeant(meant) /\ text = Encoded("UTF-8", WithoutNulls(meant))
      BY <1>2, <2>2, <3>1, Zenon DEF FileSound, TextSound
    <3>3. IsClean(WithoutNulls(meant))
      BY <3>2, CleanIs, Zenon
    <3> QED BY <3>1, <3>2, <3>3, Zenon
  <2> QED BY <2>1, <2>2
<1>5. d \in Seq(Scalar)
  BY <1>4, Zenon DEF IsClean, IsMeant
<1>6. CodesOfUTF8(text) = d
  BY <1>4, <1>5, CodesOfEncoded, Zenon
<1>7. Kept(d, enc) # Unknown /\ meant' = Kept(d, enc)
  <2> HIDE DEF enc
  <2> QED BY <1>3, <1>6, Zenon
<1>8. meant' = d
  <2> HIDE DEF enc
  <2> QED BY <1>5, <1>7, KeptIs, Zenon
<1>9. PICK e \in FileKind : /\ Writes(WrittenText(Encoded("UTF-8", d), flags, enc), flags, e, d)
                            /\ OpenedToWrite(flags).bom = BomOf(e)
  <2>1. enc = IF row # NoBom THEN row.enc
              ELSE IF Declared(Encoded("UTF-8", d)) # "" THEN Declared(Encoded("UTF-8", d))
              ELSE "UTF-8"
    BY <1>4, Zenon
  <2> HIDE DEF enc
  <2> QED BY <1>2, <1>3, <1>4, <1>7, <2>1, WritesAs, Zenon
<1>10. StandsFor(file', e, d) /\ flags = FlagOf(e)
  <2> HIDE DEF enc
  <2>1. file' = BomOf(e) \o InFile(d, e) /\ flags = FlagOf(e) /\ Suits(e, d)
    BY <1>1, <1>4, <1>9, Zenon DEF Writes
  <2> QED BY <2>1, Zenon DEF StandsFor
<1> QED BY <1>4, <1>8, <1>10, Zenon

\* A file of bytes is there.
LEMMA BytesAreThere ==
  ASSUME NEW s \in Seq(Byte)
  PROVE  s # Absent
<1>1. SUFFICES ASSUME s = Absent PROVE FALSE
  OBVIOUS
<1>2. s[1] = -1 /\ s[1] \in Byte
  BY <1>1, SMT DEF Absent
<1> QED BY <1>2, SMT DEF Byte

\* Save keeps the invariant.
LEMMA SaveTruth ==
  ASSUME FileTruth, Save
  PROVE  FileTruth'
<1> DEFINE row == OpenedToWrite(flags)
           enc == IF row # NoBom THEN row.enc
                  ELSE IF Declared(text) # "" THEN Declared(text) ELSE "UTF-8"
<1>1. /\ file' = row.bom \o WrittenText(text, flags, enc)
      /\ state' = "saved" /\ text' = text /\ flags' = flags
  BY Zenon DEF Save
<1>2. FileInv /\ FlagSound
  BY Zenon DEF FileTruth
<1>3. file' # Absent
  <2>1. text \in Seq(Byte) /\ flags \in SUBSET FileFlags
    BY <1>2, FileTypeIs, Zenon DEF FileInv
  <2>2. row.bom \o WrittenText(text, flags, enc) \in Seq(Byte)
    BY <2>1, SavedBytes, Zenon
  <2> HIDE DEF row, enc
  <2> QED BY <1>1, <2>2, BytesAreThere, Zenon
<1>4. FileInv'
  BY <1>2, FileNextInv, Zenon DEF FileNext
<1>5. "saved" # "set"
  BY Zenon
<1>6. ASSUME meant' # Unknown
      PROVE  /\ IsMeant(meant') /\ \E e \in FileKind : StandsFor(file', e, meant')
             /\ text' = Encoded("UTF-8", WithoutNulls(meant'))
  <2>1. /\ IsClean(meant') /\ text = Encoded("UTF-8", meant')
        /\ \E e \in FileKind : StandsFor(file', e, meant')
    BY <1>6, SaveWrites, Zenon
  <2>2. WithoutNulls(meant') = meant'
    BY <2>1, CleanStays, Zenon
  <2> QED BY <1>1, <2>1, <2>2, Zenon DEF IsClean
<1>7. FileSound'
  BY <1>6, Zenon DEF FileSound
<1>8. TextSound'
  BY <1>1, <1>3, <1>5, <1>6, Zenon DEF TextSound
<1>9. FlagSound'
  <2>1. ASSUME meant' # Unknown PROVE flags \in FlagSets
    <3>1. PICK e \in FileKind : flags = FlagOf(e)
      BY <2>1, SaveWrites, Zenon
    <3>2. FlagOf(e) = {} \/ (FlagOf(e) = {e} /\ e \in FileFlags)
      BY Zenon DEF FlagOf
    <3>3. \A x \in FileFlags : {x} \in FlagSets
      BY Zenon DEF FlagSets, FileFlags
    <3> QED BY <3>1, <3>2, <3>3, Zenon DEF FlagSets
  <2> QED BY <1>1, <2>1, Zenon DEF FlagSound
<1> QED BY <1>4, <1>7, <1>8, <1>9, Zenon DEF FileTruth

\* What is written back is what was read, as the flags still are those of the file.
LEMMA WrittenBack ==
  ASSUME FileTruth, Save, state = "loaded", meant # Unknown, meant' # Unknown,
         WithoutNulls(meant) = meant, file # <<>>, flags = OpenedToRead(file, {}).flags
  PROVE  file' = file
<1> DEFINE open == OpenedToRead(file, {})
<1>1. IsMeant(meant) /\ \E e \in FileKind : StandsFor(file, e, meant)
  BY Zenon DEF FileTruth, FileSound
<1>2. meant' = meant /\ \E e \in FileKind : StandsFor(file', e, meant') /\ flags = FlagOf(e)
  <2>1. "loaded" # "set"
    BY Zenon
  <2> QED BY <2>1, SaveWrites, Zenon
<1>3. PICK e \in FileKind : StandsFor(file, e, meant)
  BY <1>1, Zenon
<1>4. PICK g \in FileKind : StandsFor(file', g, meant) /\ flags = FlagOf(g)
  BY <1>2, Zenon
<1>5. flags = FlagOf(e)
  <2>1. Opens(open, file, e, meant, {})
    BY <1>1, <1>3, OpensAs, Zenon
  <2>2. open.flags = ({} \ {"LE", "preamble"}) \cup FlagOf(e)
    <3> HIDE DEF open
    <3> QED BY <2>1, Zenon DEF Opens
  <2> QED BY <2>2, Zenon
<1>6. e = g
  <2>1. CASE FlagOf(e) = {}
    <3>1. (e = "UTF-8" \/ e = "ISO-8859-1") /\ (g = "UTF-8" \/ g = "ISO-8859-1")
      BY <1>4, <1>5, <2>1, KindIs, Zenon
    <3>2. /\ e = "UTF-8" => Declared(meant) \in {"", "UTF-8"}
          /\ g = "UTF-8" => Declared(meant) \in {"", "UTF-8"}
          /\ e = "ISO-8859-1" => Declared(meant) = "ISO-8859-1"
          /\ g = "ISO-8859-1" => Declared(meant) = "ISO-8859-1"
      BY <1>3, <1>4, Zenon DEF StandsFor, Suits
    <3>3. "ISO-8859-1" \notin {"", "UTF-8"}
      BY Zenon
    <3> QED BY <3>1, <3>2, <3>3, Zenon
  <2>2. CASE FlagOf(e) # {}
    <3>1. FlagOf(e) = {e} /\ FlagOf(g) = {g}
      BY <1>4, <1>5, <2>2, KindIs, Zenon
    <3> QED BY <1>4, <1>5, <3>1, Zenon
  <2> QED BY <2>1, <2>2
<1> QED BY <1>3, <1>4, <1>6, Zenon DEF StandsFor

\* The texts of the model begin as ours do.
LEMMA TextsMeant ==
  ASSUME NEW c \in Texts
  PROVE  IsMeant(c)
<1>1. c \in Seq(Scalar)
  BY TextsAre
<1>2. ASSUME c # <<>> PROVE c[1] \in Begins
  <2>1. PICK b \in Begins, r \in Tails : c = <<b>> \o r
    BY <1>2, Zenon DEF Texts
  <2>2. PICK n \in 0..MaxChars : r \in [1..n -> Chars]
    BY <2>1, Zenon DEF Tails
  <2>3. b \in Nat
    BY <2>1, BeginsAre, Zenon
  <2>4. \A x \in Chars : x \in Nat
    BY TextAssumption, SMT DEF IsScalar, IsCode
  <2>5. r \in [1..n -> Nat] /\ n \in Nat
    BY <2>2, <2>4, TextAssumption, SMT
  <2>6. r \in Seq(Nat)
    BY <2>5, SMT
  <2> QED BY <2>1, <2>3, <2>6, InFront1, Zenon
<1> QED BY <1>1, <1>2, Zenon DEF IsMeant

\* A text that is set has no nulls.
LEMMA SetIsClean ==
  ASSUME NEW c \in Texts, 0 \notin ToSet(c)
  PROVE  IsClean(c)
<1>1. IsMeant(c) /\ c \in Seq(Scalar)
  BY TextsMeant, Zenon DEF IsMeant
<1>2. \A k \in 1..Len(c) : c[k] \in Scalar /\ c[k] # 0
  <2>1. \A k \in 1..Len(c) : c[k] \in Scalar /\ c[k] \in ToSet(c)
    BY <1>1, SMT DEF ToSet
  <2> QED BY <2>1, Zenon
<1>3. \A k \in 1..Len(c) : c[k] \in NotZero(Scalar)
  BY <1>2, Zenon DEF NotZero
<1>4. c \in Seq(NotZero(Scalar))
  <2> DEFINE S == NotZero(Scalar)
  <2>1. \A k \in 1..Len(c) : c[k] \in S
    BY <1>3, Zenon
  <2> HIDE DEF S
  <2>2. c \in Seq(S)
    BY <1>1, <2>1, SMT
  <2> QED BY <2>2, Zenon DEF S
<1> QED BY <1>1, <1>4, Zenon DEF IsClean

\* Others write a text that the file then stands for.
LEMMA OthersSuit ==
  ASSUME NEW c \in Texts, NEW e \in FileKind, OthersWrite(c, e)
  PROVE  StandsFor(file', e, c) /\ meant' = c
<1>1. /\ e = "ISO-8859-1" => c # <<>> /\ c[1] = DeclLatin /\ Kept(c, e) # Unknown
      /\ e = "UTF-8" => Declared(c) \in {"", "UTF-8"}
      /\ file' = BomOf(e) \o InFile(c, e) /\ meant' = c
  BY Zenon DEF OthersWrite
<1>2. ASSUME e = "ISO-8859-1" PROVE Declared(c) = "ISO-8859-1" /\ c \in Seq(Byte)
  <2>1. c \in Seq(Byte)
    BY <1>1, <1>2, TextsAre, KeptIs, Zenon
  <2>2. DeclLatin # DeclUTF8
    BY SMT DEF DeclLatin, DeclUTF8
  <2>3. Declared(c) = "ISO-8859-1"
    <3> DEFINE D(x) == CASE x = DeclUTF8  -> "UTF-8"
                         [] x = DeclLatin -> "ISO-8859-1"
                         [] x = DeclOther -> "other"
                         [] OTHER         -> ""
    <3>1. c # <<>> /\ c[1] = DeclLatin
      BY <1>1, <1>2, Zenon
    <3>2. Declared(c) = D(c[1])
      BY <3>1, Zenon DEF Declared
    <3>3. DeclLatin # DeclOther
      BY SMT DEF DeclLatin, DeclOther
    <3>4. D(DeclLatin) = "ISO-8859-1"
      BY <2>2, <3>3, Zenon
    <3> HIDE DEF D
    <3> QED BY <3>1, <3>2, <3>4, Zenon
  <2> QED BY <2>1, <2>3
<1>3. Suits(e, c)
  BY <1>1, <1>2, Zenon DEF Suits
<1> QED BY <1>1, <1>3, Zenon DEF StandsFor

\* Operations that leave the text and what the file stands for.
LEMMA QuietTruth ==
  ASSUME FileTruth, FileInv', flags' = flags \/ flags' \in FlagSets,
         text' = text, file' = file, meant' = meant, state' = state
  PROVE  FileTruth'
<1>1. FileSound' /\ TextSound' /\ FlagSound'
  BY Zenon DEF FileTruth, FileSound, TextSound, FlagSound
<1> QED BY <1>1, Zenon DEF FileTruth

\* Operations that set the text of an object.
LEMMA SetTruth ==
  ASSUME FileTruth, FileInv', file = Absent, flags' = flags, file' = file, meant' = meant,
         state' = "set", NEW d, IsClean(d), text' = Encoded("UTF-8", d)
  PROVE  FileTruth'
<1>0. "set" # "loaded" /\ "set" # "saved" /\ "set" # "astray"
  BY Zenon
<1>1. FileSound'
  BY Zenon DEF FileTruth, FileSound
<1>2. TextSound'
  BY <1>0, Zenon DEF TextSound
<1>3. FlagSound'
  BY <1>0, Zenon DEF FileTruth, FlagSound, TextSound
<1> QED BY <1>1, <1>2, <1>3, Zenon DEF FileTruth

\* Files that others write, before anything was loaded.
LEMMA OthersTruth ==
  ASSUME FileTruth, FileInv', flags' = flags, text' = text, state' = state, file = Absent,
         meant' # Unknown => IsMeant(meant') /\ \E e \in FileKind : StandsFor(file', e, meant')
  PROVE  FileTruth'
<1>1. FileSound'
  BY Zenon DEF FileSound
<1>0. "set" # "loaded" /\ "set" # "saved" /\ "set" # "astray"
  BY Zenon
<1>2. state = "set" /\ \E d : IsClean(d) /\ text = Encoded("UTF-8", d)
  BY Zenon DEF FileTruth, TextSound
<1>3. TextSound'
  BY <1>0, <1>2, Zenon DEF TextSound
<1>4. FlagSound'
  BY <1>0, <1>2, Zenon DEF FileTruth, FlagSound
<1> QED BY <1>1, <1>3, <1>4, Zenon DEF FileTruth

\* At first nothing is known.
LEMMA InitTruth == FileInit => FileTruth
<1> SUFFICES ASSUME FileInit PROVE FileTruth
  OBVIOUS
<1>1. text = <<>> /\ flags = {} /\ file = Absent /\ meant = Unknown /\ state = "set"
  BY Zenon DEF FileInit
<1>2. FileInv
  BY FileInitInv
<1>3. FileSound
  BY <1>1, Zenon DEF FileSound
<1>4. TextSound
  <2>1. "set" # "loaded" /\ "set" # "saved"
    BY Zenon
  <2> QED BY <1>1, <2>1, NoText, Zenon DEF TextSound
<1>5. FlagSound
  BY <1>1, Zenon DEF FlagSets, FlagSound
<1> QED BY <1>2, <1>3, <1>4, <1>5, Zenon DEF FileTruth

\* Every operation keeps the invariant.
LEMMA NextTruth ==
  ASSUME FileTruth, [FileNext]_fileVars
  PROVE  FileTruth'
<1>0. FileInv'
  <2>1. FileInv
    BY Zenon DEF FileTruth
  <2> QED BY <2>1, FileNextInv
<1>1. ASSUME Load PROVE FileTruth'
  BY <1>1, LoadTruth
<1>9. ASSUME LoadAstray PROVE FileTruth'
  BY <1>9, AstrayTruth
<1>2. ASSUME LoadFails PROVE FileTruth'
  <2>1. /\ text' = <<>> /\ state' = "set" /\ flags' = flags /\ file' = file /\ meant' = meant
        /\ file = Absent
    BY <1>2, Zenon DEF LoadFails
  <2>2. IsClean(<<>>) /\ text' = Encoded("UTF-8", <<>>)
    BY <2>1, NoText, Zenon
  <2> QED BY <1>0, <2>1, <2>2, SetTruth, Zenon
<1>3. ASSUME Save PROVE FileTruth'
  BY <1>3, SaveTruth
<1>4. ASSUME NEW c \in Texts, 0 \notin ToSet(c), SetText(c) PROVE FileTruth'
  <2>1. /\ text' = Encoded("UTF-8", c) /\ state' = "set" /\ flags' = flags /\ file' = file
        /\ meant' = meant /\ file = Absent
    BY <1>4, Zenon DEF SetText
  <2>2. IsClean(c)
    BY <1>4, SetIsClean, Zenon
  <2> QED BY <1>0, <2>1, <2>2, SetTruth, Zenon
<1>5. ASSUME NEW f \in {{}, {"LE"}, {"BE"}, {"preamble"}}, SetDocFlags(f) PROVE FileTruth'
  <2>1. flags' = f /\ text' = text /\ file' = file /\ meant' = meant /\ state' = state
    BY <1>5, Zenon DEF SetDocFlags
  <2>2. f \in FlagSets
    BY Zenon DEF FlagSets
  <2> QED BY <1>0, <2>1, <2>2, QuietTruth, Zenon
<1>6. ASSUME NEW c \in Texts, NEW e \in {"UTF-8", "preamble", "LE", "BE", "ISO-8859-1"},
             OthersWrite(c, e)
      PROVE  FileTruth'
  <2>1. e \in FileKind
    BY Zenon DEF FileKind
  <2>2. StandsFor(file', e, c) /\ meant' = c
    BY <1>6, <2>1, OthersSuit, Zenon
  <2>3. IsMeant(meant')
    BY <2>2, TextsMeant, Zenon
  <2>4. file = Absent /\ flags' = flags /\ text' = text /\ state' = state
    BY <1>6, Zenon DEF OthersWrite
  <2>5. \E x \in FileKind : StandsFor(file', x, meant')
    BY <2>1, <2>2, Zenon
  <2> QED BY <1>0, <2>3, <2>4, <2>5, OthersTruth, Zenon
<1>7. ASSUME NEW n \in 0..MaxChars + 1, NEW e \in {"", "preamble", "LE", "BE"},
             NEW b \in [1..n -> Garbage], OthersWriteBytes(b, e)
      PROVE  FileTruth'
  <2>1. file = Absent /\ flags' = flags /\ text' = text /\ state' = state /\ meant' = Unknown
    BY <1>7, Zenon DEF OthersWriteBytes
  <2> QED BY <1>0, <2>1, OthersTruth, Zenon
<1>8. CASE UNCHANGED fileVars
  <2>1. text' = text /\ flags' = flags /\ file' = file /\ state' = state /\ meant' = meant
    BY <1>8, Zenon DEF fileVars
  <2> QED BY <1>0, <2>1, QuietTruth, Zenon
<1> QED BY <1>1, <1>2, <1>3, <1>4, <1>5, <1>6, <1>7, <1>8, <1>9, Zenon DEF FileNext

\* A file in any of the encodings, with any of the marks and of any length, whether this program
\* wrote it or another one did, is loaded as the text it stands for, without its null characters
\* (FileOpen, FileReadText, FileWriteText), after any loads and saves with the same object, by
\* every load but those that go astray: of a file of another kind when the object has the flag of
\* UTF-16BE. Whatever lies behind the buffer those leave nothing in the flags that the next load
\* would go wrong by.
THEOREM LoadedAsMeantAlways == FileSpec => []LoadedAsMeant
<1>1. FileInit => FileTruth
  BY InitTruth
<1>2. FileTruth /\ [FileNext]_fileVars => FileTruth'
  BY NextTruth
<1>3. FileTruth => LoadedAsMeant
  BY TruthMeans
<1> QED BY <1>1, <1>2, <1>3, PTL DEF FileSpec

\* Save writes back the file that was loaded, byte for byte and mark for mark, as long as the
\* file is text without nulls that its encoding holds (m_nDocFlags, BomTable).
THEOREM SavedAsLoadedAlways == FileSpec => SavedAsLoaded
<1> DEFINE P == /\ state = "loaded" /\ state' = "saved" /\ meant # Unknown /\ meant' # Unknown
                /\ 0 \notin ToSet(meant) /\ file # <<>> /\ flags = OpenedToRead(file, {}).flags
                => file' = file
<1>1. FileInit => FileTruth
  BY InitTruth
<1>2. FileTruth /\ [FileNext]_fileVars => FileTruth'
  BY NextTruth
<1>3. FileTruth /\ [FileNext]_fileVars => [P]_fileVars
  <2> SUFFICES ASSUME FileTruth, [FileNext]_fileVars,
                      state = "loaded", state' = "saved", meant # Unknown, meant' # Unknown,
                      0 \notin ToSet(meant), file # <<>>, flags = OpenedToRead(file, {}).flags
               PROVE  file' = file
    BY Zenon
  <2>1. "loaded" # "saved" /\ "set" # "saved" /\ "set" # "loaded" /\ "astray" # "saved"
    BY Zenon
  <2>2. ASSUME Save PROVE file' = file
    <3>1. IsMeant(meant)
      BY Zenon DEF FileTruth, FileSound
    <3>2. meant \in Seq(Nat) /\ Scalar \in SUBSET Nat
      BY <3>1, SmallSets, SeqMonotonic, Zenon DEF IsMeant
    <3>3. meant \in Seq(NotZero(Scalar))
      <4> DEFINE S == NotZero(Scalar)
      <4>1. \A k \in 1..Len(meant) : meant[k] \in Scalar /\ meant[k] \in ToSet(meant)
        BY <3>1, SMT DEF ToSet, IsMeant
      <4>2. \A k \in 1..Len(meant) : meant[k] \in S
        BY <4>1, Zenon DEF NotZero
      <4> HIDE DEF S
      <4>3. meant \in Seq(S)
        BY <3>2, <4>2, SMT
      <4> QED BY <4>3, Zenon DEF S
    <3>4. WithoutNulls(meant) = meant
      BY <3>2, <3>3, WithoutNullsIs, Zenon
    <3> QED BY <2>1, <2>2, <3>4, WrittenBack, Zenon
  <2>3. Load => state' = "loaded"
    BY Zenon DEF Load
  <2>10. LoadAstray => state' = "astray"
    BY Zenon DEF LoadAstray
  <2>4. LoadFails => state' = "set"
    BY Zenon DEF LoadFails
  <2>5. \A c : SetText(c) => state' = "set"
    BY Zenon DEF SetText
  <2>6. \A f : SetDocFlags(f) => state' = state
    BY Zenon DEF SetDocFlags
  <2>7. \A c, e : OthersWrite(c, e) => state' = state
    BY Zenon DEF OthersWrite
  <2>8. \A b, e : OthersWriteBytes(b, e) => state' = state
    BY Zenon DEF OthersWriteBytes
  <2>9. UNCHANGED fileVars => state' = state
    BY Zenon DEF fileVars
  <2> QED BY <2>1, <2>2, <2>3, <2>4, <2>5, <2>6, <2>7, <2>8, <2>9, <2>10, Zenon
        DEF FileNext
<1> QED BY <1>1, <1>2, <1>3, PTL DEF FileSpec, SavedAsLoaded

---------------------------------------------------------------------------
(* WholeCharacters. *)

\* Any number is written in UTF-16 as units, cut to what they hold.
LEMMA UnitsOfAny ==
  ASSUME NEW c \in Nat
  PROVE  EncodeCharUTF16(c) \in Seq(Unit)
<1>1. CASE c < 65536
  <2>1. EncodeCharUTF16(c) = <<c>>
    BY <1>1, SMT DEF EncodeCharUTF16
  <2>2. c \in Unit
    BY <1>1, SMT DEF Unit
  <2> QED BY <2>1, <2>2, SMT
<1>2. CASE 65536 <= c
  <2> DEFINE q == c - 65536
             x == 55296 + ((q \div 1024) % 1024)  y == 56320 + (q % 1024)
  <2>0. q \in Nat
    BY <1>2, SMT
  <2>1. x \in Unit /\ y \in Unit
    <3> HIDE DEF q
    <3>1. /\ (q \div 1024) % 1024 \in Nat /\ (q \div 1024) % 1024 < 1024
          /\ q % 1024 \in Nat /\ q % 1024 < 1024
      BY <2>0, SMT
    <3> QED BY <3>1, SMT DEF Unit
  <2>2. EncodeCharUTF16(c) = <<x, y>>
    <3>1. ~(c < 65536)
      BY <1>2, SMT
    <3> QED BY <3>1, SMT DEF EncodeCharUTF16
  <2> HIDE DEF x, y
  <2> QED BY <2>1, <2>2, SMT
<1> QED BY <1>1, <1>2, SMT

\* Texts of the same characters strung together.
LEMMA StrungIn ==
  ASSUME NEW S \in SUBSET Nat, NEW p \in Seq(Seq(S))
  PROVE  Strung(p) \in Seq(S)
<1>0. p \in Seq(Seq(Nat))
  <2>1. Seq(S) \subseteq Seq(Nat)
    BY SeqMonotonic, Zenon
  <2> QED BY <2>1, SeqMonotonic, Zenon
<1>1. PICK u : Strings(u, p) /\ Strung(p) = u[Len(p)]
  BY <1>0, StrungIs, Zenon
<1> DEFINE n == Len(p)  T == {k \in 0..n : u[k] \in Seq(S)}
<1>2. n \in Nat /\ 0 \in 0..n /\ n \in 0..n /\ \A k \in 1..n : p[k] \in Seq(S)
  BY SMT
<1>3. u[0] = <<>> /\ \A k \in 1..n : u[k] = u[k - 1] \o p[k]
  BY <1>1, Zenon DEF Strings
<1>4. 0 \in T
  <2>1. <<>> \in Seq(S)
    BY SMT
  <2> HIDE DEF n
  <2> QED BY <1>2, <1>3, <2>1, Zenon
<1>5. ASSUME NEW k \in 0..n - 1, k \in T PROVE k + 1 \in T
  <2>1. k + 1 \in 1..n /\ k + 1 \in 0..n /\ (k + 1) - 1 = k
    BY <1>2, SMT
  <2> HIDE DEF n
  <2>2. u[k] \in Seq(S) /\ p[k + 1] \in Seq(S)
    BY <1>2, <1>5, <2>1, Zenon
  <2>3. u[k + 1] = u[k] \o p[k + 1]
    BY <1>3, <2>1, Zenon
  <2>4. u[k + 1] \in Seq(S)
    BY <2>2, <2>3, Joined, Zenon
  <2> QED BY <2>1, <2>4, Zenon
<1>6. n \in T
  <2> HIDE DEF T, n
  <2> QED BY <1>2, <1>4, <1>5, Upward, Zenon
<1> HIDE DEF n
<1> QED BY <1>1, <1>6, Zenon DEF n

\* The units of each of the codes.
UnitsOfEach(c) == [k \in 1..Len(c) |-> EncodeCharUTF16(c[k])]

\* Any codes are written in UTF-16 as units.
LEMMA EncodedUnits ==
  ASSUME NEW c \in Seq(Nat)
  PROVE  Encoded("UTF-16", c) \in Seq(Unit)
<1> DEFINE n == Len(c)  p == UnitsOfEach(c)
           Here(u, k) == IF k = 0 THEN <<>> ELSE u[k - 1] \o Encode("UTF-16", c[k])
           There(u, k) == IF k = 0 THEN <<>> ELSE u[k - 1] \o p[k]
           Is(u) == u = [k \in 0..n |-> Here(u, k)]
           Same(u) == u = [k \in 0..n |-> There(u, k)]
<1>1. n \in Nat /\ \A k \in 1..n : c[k] \in Nat
  BY SMT
<1>2. /\ p \in Seq(Seq(Unit)) /\ Len(p) = n
      /\ \A k \in 1..n : p[k] = Encode("UTF-16", c[k])
  <2>1. p \in [1..n -> Seq(Unit)]
    <3> HIDE DEF n
    <3>1. \A k \in 1..n : EncodeCharUTF16(c[k]) \in Seq(Unit)
      BY <1>1, UnitsOfAny, Zenon
    <3> QED BY <3>1, Zenon DEF UnitsOfEach, n
  <2>2. \A k \in 1..n : p[k] = Encode("UTF-16", c[k])
    BY UnicodeIs, Zenon DEF UnitsOfEach
  <2> HIDE DEF p, n
  <2>3. p \in Seq(Seq(Unit)) /\ Len(p) = n
    BY <1>1, <2>1, SMT
  <2> QED BY <2>2, <2>3, Zenon
<1>3. Encoded("UTF-16", c) = (CHOOSE u : Is(u))[n]
  BY DEF Encoded
<1>4. Strung(p) = (CHOOSE u : Same(u))[n]
  <2>1. Strung(p) = (CHOOSE u : u = [k \in 0..Len(p) |-> There(u, k)])[Len(p)]
    BY DEF Strung
  <2> HIDE DEF p, There, n
  <2> QED BY <1>2, <2>1, Zenon
<1>5. \A u : Is(u) <=> Same(u)
  <2> SUFFICES ASSUME NEW u PROVE Is(u) <=> Same(u)
    OBVIOUS
  <2>1. \A k \in 0..n : Here(u, k) = There(u, k)
    <3>1. \A k \in 0..n : k = 0 \/ k \in 1..n
      BY <1>1, SMT
    <3> HIDE DEF p, n
    <3> QED BY <1>2, <3>1, Zenon
  <2> HIDE DEF Here, There, n
  <2> QED BY <2>1, Zenon
<1> HIDE DEF Is, Same, n
<1>6. Encoded("UTF-16", c) = Strung(p)
  BY <1>3, <1>4, <1>5, Zenon
<1>7. Strung(p) \in Seq(Unit)
  <2>1. Unit \in SUBSET Nat
    BY SmallSets, Zenon
  <2> HIDE DEF p
  <2> QED BY <1>2, <2>1, StrungIn, Zenon
<1> QED BY <1>6, <1>7, Zenon

\* A character stands at the beginning of the text that begins with it.
LEMMA StandsFirst ==
  ASSUME NEW e \in Seq(Nat), NEW t \in Seq(Nat)
  PROVE  StandsAt(e, e \o t, 1)
<1> DEFINE w == e \o t
<1>1. w \in Seq(Nat) /\ Len(w) = Len(e) + Len(t) /\ Len(e) \in Nat /\ Len(t) \in Nat
  BY SMT
<1>2. \A j \in 1..Len(e) + Len(t) : w[j] = IF j <= Len(e) THEN e[j] ELSE t[j - Len(e)]
  BY ConcatProperties, Zenon
<1> HIDE DEF w
<1>3. 1 + Len(e) - 1 <= Len(w)
  BY <1>1, SMT
<1>4. ASSUME NEW j \in 1..Len(e) PROVE w[1 + j - 1] = e[j]
  <2>1. j \in 1..Len(e) + Len(t) /\ j <= Len(e) /\ 1 + j - 1 = j
    BY <1>1, SMT
  <2> QED BY <1>2, <2>1, Zenon
<1> QED BY <1>3, <1>4, Zenon DEF StandsAt, w

\* The text d goes on where g ends; the bytes of d are those of g and then t.
Continues(g, d) == \E h \in Seq(Scalar) : d = g \o h
BeginsWith(g, d, t) == Encoded("UTF-8", g) \o t = Encoded("UTF-8", d)

\* UTF-8 is a prefix code: a text whose bytes begin those of another one is its beginning.
LEMMA PrefixTold ==
  \A g \in Seq(Scalar) : \A d \in Seq(Scalar) : \A t \in Seq(Nat) :
    BeginsWith(g, d, t) => Continues(g, d)
<1> DEFINE Told(g) == \A d \in Seq(Scalar) : \A t \in Seq(Nat) :
                        BeginsWith(g, d, t) => Continues(g, d)
           T == {g \in Seq(Scalar) : Told(g)}
<1>0. /\ <<>> \in Seq(Scalar) /\ "UTF-8" \in Encoding
      /\ \A g \in Seq(Scalar) : g \in Seq(Nat) /\ Encoded("UTF-8", g) \in Seq(Nat)
  <2>1. <<>> \in Seq(Scalar)
    BY SMT
  <2>2. "UTF-8" \in Encoding
    BY UnicodeIs, Zenon
  <2> QED BY <2>1, <2>2, EncodedNumbers, SmallSets, SeqMonotonic, Zenon
<1>1. <<>> \in T
  <2>1. \A d \in Seq(Scalar) : <<>> \o d = d
    BY ConcatEmptySeq, Zenon
  <2>2. \A d \in Seq(Scalar) : Continues(<<>>, d)
    BY <2>1, Zenon DEF Continues
  <2> QED BY <1>0, <2>2, Zenon
<1>2. ASSUME NEW g \in Seq(Scalar), g \in T, NEW x \in Scalar PROVE <<x>> \o g \in T
  <2> DEFINE e == Encode("UTF-8", x)  G == Encoded("UTF-8", g)  a == <<x>> \o g
  <2>1. a \in Seq(Scalar) /\ Encoded("UTF-8", a) = e \o G
    BY <1>0, EncodedCons, Zenon
  <2>2. e \in Seq(Nat) /\ e # <<>> /\ e = EncodeCharUTF8(x)
    <3>1. EncodeCharUTF8(x) \in Seq(Byte) /\ Len(EncodeCharUTF8(x)) \in 1..4
      BY EncodeUTF8Type, Zenon
    <3>2. EncodeCharUTF8(x) # <<>> /\ EncodeCharUTF8(x) \in Seq(Nat)
      BY <3>1, NotNothing, SmallSets, SeqMonotonic, Zenon
    <3> QED BY <3>2, UnicodeIs, Zenon
  <2>3. G \in Seq(Nat)
    BY <1>0, Zenon
  <2> HIDE DEF e, G, a
  <2>4. ASSUME NEW d \in Seq(Scalar), NEW t \in Seq(Nat), BeginsWith(a, d, t)
        PROVE  Continues(a, d)
    <3> DEFINE w == Encoded("UTF-8", d)  b == G \o t
    <3>1. w = e \o b /\ b \in Seq(Nat)
      <4>1. ThreeOf(e, G, t)
        BY <2>2, <2>3, ThreeJoined, Zenon
      <4>2. w = (e \o G) \o t
        BY <2>1, <2>4, Zenon DEF BeginsWith
      <4>3. b \in Seq(Nat)
        BY <2>3, Joined, Zenon
      <4> QED BY <4>1, <4>2, <4>3, Zenon DEF ThreeOf
    <3> HIDE DEF b
    <3>2. d # <<>>
      <4>1. SUFFICES ASSUME d = <<>> PROVE FALSE
        OBVIOUS
      <4>2. e \o b = <<>>
        BY <1>0, <3>1, <4>1, EncodedEmpty, Zenon
      <4>3. e = <<>>
        BY <2>2, <3>1, <4>2, SMT
      <4> QED BY <2>2, <4>3, Zenon
    <3> DEFINE y == d[1]  r == SubSeq(d, 1 + 1, Len(d))  f == Encode("UTF-8", y)
               R == Encoded("UTF-8", r)
    <3>3. 1 \in 1..Len(d) /\ 1 + 1 \in 1..Len(d) + 1 /\ d[1] \in Scalar
      BY <3>2, SMT
    <3>4. SubSeq(d, 1, Len(d)) = <<y>> \o r /\ r \in Seq(Scalar) /\ SubSeq(d, 1, Len(d)) = d
      BY <3>3, RestOf, Zenon
    <3>5. y \in Scalar /\ d = <<y>> \o r /\ r \in Seq(Scalar)
      BY <3>3, <3>4, Zenon
    <3> HIDE DEF y, r, w
    <3>6. w = f \o R /\ R \in Seq(Nat) /\ f \in Seq(Nat) /\ f = EncodeCharUTF8(y)
      BY <1>0, <3>5, EncodedCons, EncodeType, UnicodeIs, Zenon DEF w
    <3> HIDE DEF f, R
    <3>7. x = y
      <4>1. StandsAt(EncodeCharUTF8(x), w, 1) /\ StandsAt(EncodeCharUTF8(y), w, 1)
        BY <2>2, <3>1, <3>6, StandsFirst, Zenon
      <4>2. w \in Seq(Nat) /\ 1 \in Nat \ {0}
        <5>1. w \in Seq(Nat)
          BY <1>0, Zenon DEF w
        <5>2. 1 \in Nat \ {0}
          BY SMT
        <5> QED BY <5>1, <5>2
      <4>3. x \in Nat /\ y \in Nat /\ IsCode(x) /\ IsCode(y)
        BY <3>5, SMT DEF Scalar, IsScalar
      <4>4. /\ DecodeCharUTF8(w, 1) = Decoded(x, 1 + Len(EncodeCharUTF8(x)))
            /\ DecodeCharUTF8(w, 1) = Decoded(y, 1 + Len(EncodeCharUTF8(y)))
        BY <4>1, <4>2, <4>3, UTF8RoundTrip, Zenon
      <4>5. DecodeCharUTF8(w, 1).code = x
        BY <4>4, SMT DEF Decoded
      <4>6. DecodeCharUTF8(w, 1).code = y
        BY <4>4, SMT DEF Decoded
      <4> QED BY <4>5, <4>6, Zenon
    <3>8. b = R
      <4>1. e = f
        BY <2>2, <3>6, <3>7, Zenon
      <4>2. /\ SubSeq(e \o b, Len(e) + 1, Len(e \o b)) = b
            /\ SubSeq(e \o R, Len(e) + 1, Len(e \o R)) = R
        BY <2>2, <3>1, <3>6, PrefixOf, Zenon
      <4>3. e \o b = e \o R
        BY <3>1, <3>6, <4>1, Zenon
      <4> QED BY <4>2, <4>3, Zenon
    <3>9. Continues(g, r)
      <4>1. BeginsWith(g, r, t)
        BY <3>8, Zenon DEF BeginsWith, b, G, R
      <4> QED BY <1>2, <3>5, <4>1, Zenon
    <3>10. PICK h \in Seq(Scalar) : r = g \o h
      BY <3>9, Zenon DEF Continues
    <3>11. d = a \o h
      <4>1. <<x>> \in Seq(Nat) /\ g \in Seq(Nat) /\ h \in Seq(Nat)
        <5>1. \A z \in Scalar : <<z>> \in Seq(Nat)
          BY SmallSets, SMT
        <5> QED BY <1>0, <5>1, Zenon
      <4>2. ThreeOf(<<x>>, g, h)
        BY <4>1, ThreeJoined, Zenon
      <4> QED BY <3>5, <3>7, <3>10, <4>2, Zenon DEF ThreeOf, a
    <3> QED BY <3>11, Zenon DEF Continues
  <2>5. Told(a)
    BY <2>4, Zenon
  <2> QED BY <2>1, <2>5, Zenon DEF a
<1> HIDE DEF T
<1>3. \A g \in Seq(Scalar) : g \in T
  BY <1>1, <1>2, TextInduction, Zenon
<1> QED BY <1>3, Zenon DEF T

\* More characters take more bytes.
LEMMA MoreTakesMore ==
  ASSUME NEW d \in Seq(Scalar), NEW j \in 0..Len(d), NEW i \in 0..j
  PROVE  Len(Encoded("UTF-8", SubSeq(d, 1, i))) <= Len(Encoded("UTF-8", SubSeq(d, 1, j)))
<1> DEFINE a == SubSeq(d, 1, i)  b == SubSeq(d, i + 1, j)  w == SubSeq(d, 1, j)
<1>1. Len(d) \in Nat /\ j \in 0..Len(d) /\ 1 \in 1..j + 1 /\ i + 1 \in 1..j + 1 /\ (i + 1) - 1 = i
  BY SMT
<1>2. d \in Seq(Nat) /\ "UTF-8" \in Encoding
  BY UnicodeIs, SmallSets, SeqMonotonic, Zenon
<1>3. w = a \o b
  <2>1. SubSeq(d, 1, j) = SubSeq(d, 1, (i + 1) - 1) \o SubSeq(d, i + 1, j)
    BY <1>1, <1>2, Cut, Zenon
  <2> QED BY <1>1, <2>1, Zenon
<1>4. a \in Seq(Scalar) /\ b \in Seq(Scalar)
  BY <1>1, SMT
<1> HIDE DEF a, b, w
<1> DEFINE A == Encoded("UTF-8", a)  B == Encoded("UTF-8", b)
<1>5. Encoded("UTF-8", w) = A \o B /\ A \in Seq(Nat) /\ B \in Seq(Nat)
  BY <1>2, <1>3, <1>4, EncodedJoined, EncodedNumbers, Zenon
<1> HIDE DEF A, B
<1>6. Len(A) <= Len(A \o B)
  BY <1>5, SMT
<1> QED BY <1>5, <1>6, Zenon DEF A, a, w

\* The bytes of the first characters of a text.
Begin8(d, m) == Encoded("UTF-8", SubSeq(d, 1, m))

\* One more character takes its bytes behind those of the others, and Fits tells whether
\* there is room for them: no character has more than four.
LEMMA BeginGrows ==
  ASSUME NEW d \in Seq(Scalar), NEW k \in 1..Len(d), NEW n \in Nat
  PROVE  /\ Begin8(d, k - 1) \in Seq(Nat) /\ Begin8(d, k) \in Seq(Nat)
         /\ Begin8(d, k) = Begin8(d, k - 1) \o EncodeCharUTF8(d[k])
         /\ Fits(Len(Begin8(d, k - 1)), Len(EncodeCharUTF8(d[k])), n)
            <=> Len(Begin8(d, k)) <= n
<1>1. /\ k - 1 \in 0..Len(d) /\ k - 1 < Len(d) /\ (k - 1) + 1 = k /\ k \in 0..Len(d)
      /\ d[k] \in Scalar
  BY SMT
<1>2. "UTF-8" \in Encoding /\ \A c : Encode("UTF-8", c) = EncodeCharUTF8(c)
  BY UnicodeIs, Zenon
<1>3. /\ Encoded("UTF-8", SubSeq(d, 1, (k - 1) + 1))
         = Encoded("UTF-8", SubSeq(d, 1, k - 1)) \o Encode("UTF-8", d[(k - 1) + 1])
      /\ SubSeq(d, 1, k - 1) \in Seq(Scalar)
  BY <1>1, <1>2, EncodedBegins, Zenon
<1>4. SubSeq(d, 1, k) \in Seq(Scalar)
  BY <1>1, <1>2, EncodedBegins, Zenon
<1> DEFINE a == Begin8(d, k - 1)  b == Begin8(d, k)  e == EncodeCharUTF8(d[k])
<1>5. a \in Seq(Nat) /\ b \in Seq(Nat) /\ b = a \o e
  BY <1>1, <1>2, <1>3, <1>4, EncodedNumbers, Zenon DEF Begin8
<1>6. Len(e) \in 1..4 /\ e \in Seq(Nat)
  BY <1>1, EncodeUTF8Type, SmallSets, SeqMonotonic, Zenon
<1> HIDE DEF a, b, e
<1>7. Fits(Len(a), Len(e), n) <=> Len(b) <= n
  <2>1. Len(b) = Len(a) + Len(e) /\ Len(a) \in Nat
    BY <1>5, <1>6, SMT
  <2> HIDE DEF Fits
  <2>2. Fits(Len(a), Len(e), n) <=> Len(a) + 4 <= n \/ Len(a) + Len(e) <= n
    BY Zenon DEF Fits
  <2>3. Len(a) + 4 <= n \/ Len(a) + Len(e) <= n <=> Len(b) <= n
    <3> DEFINE la == Len(a)  le == Len(e)  lb == Len(b)
    <3>1. la \in Nat /\ le \in 1..4 /\ lb = la + le
      BY <1>6, <2>1, Zenon
    <3> HIDE DEF la, le, lb
    <3>2. la + 4 <= n \/ la + le <= n <=> lb <= n
      BY <3>1, SMT
    <3> QED BY <3>2, Zenon DEF la, le, lb
  <2> QED BY <2>2, <2>3, Zenon
<1> QED BY <1>5, <1>7, Zenon DEF a, b, e

\* A step of UTF16To8; the character behind the first m does not fit; and what is written
\* behind the first k characters: those that fit, up to the first that does not.
Filled(r, x, n) ==
  LET e == EncodeCharUTF8(x)
  IN IF r.full \/ ~Fits(Len(r.out), Len(e), n) THEN [r EXCEPT !.full = TRUE]
     ELSE [r EXCEPT !.out = @ \o e]
Overflows(d, n, m) == Len(Begin8(d, m + 1)) > n
Fills(d, n, k, r) ==
  /\ r = [out |-> r.out, full |-> r.full] /\ r.full \in BOOLEAN
  /\ \E m \in 0..k : /\ r.out = Begin8(d, m) /\ Len(Begin8(d, m)) <= n
                     /\ r.full => m < k /\ Overflows(d, n, m)
                     /\ ~r.full => m = k

\* Every step leaves it so.
LEMMA FilledFills ==
  ASSUME NEW d \in Seq(Scalar), NEW n \in Nat, NEW k \in 1..Len(d), NEW r, Fills(d, n, k - 1, r)
  PROVE  Fills(d, n, k, Filled(r, d[k], n))
<1> DEFINE e == EncodeCharUTF8(d[k])  q == Filled(r, d[k], n)
<1>1. k \in Nat /\ k \in 0..k /\ k - 1 < k /\ (k - 1) + 1 = k /\ k - 1 \in 0..k
      /\ \A m \in 0..k - 1 : m \in 0..k /\ (m < k - 1 => m < k)
  BY SMT
<1>2. /\ r = [out |-> r.out, full |-> r.full] /\ r.full \in BOOLEAN
      /\ \E m \in 0..k - 1 : /\ r.out = Begin8(d, m) /\ Len(Begin8(d, m)) <= n
                             /\ r.full => m < k - 1 /\ Overflows(d, n, m)
                             /\ ~r.full => m = k - 1
  BY Zenon DEF Fills
<1>3. PICK m \in 0..k - 1 : /\ r.out = Begin8(d, m) /\ Len(Begin8(d, m)) <= n
                            /\ r.full => m < k - 1 /\ Overflows(d, n, m)
                            /\ ~r.full => m = k - 1
  BY <1>2, Zenon
<1>4. /\ Begin8(d, k) = Begin8(d, k - 1) \o e
      /\ Fits(Len(Begin8(d, k - 1)), Len(e), n) <=> Len(Begin8(d, k)) <= n
      /\ Begin8(d, k - 1) \in Seq(Nat) /\ Begin8(d, k) \in Seq(Nat)
  BY BeginGrows, Zenon
<1>5. /\ [r EXCEPT !.full = TRUE] = [out |-> r.out, full |-> TRUE]
      /\ \A z : [r EXCEPT !.out = z] = [out |-> z, full |-> r.full]
      /\ \A x, y : [out |-> x, full |-> y].out = x /\ [out |-> x, full |-> y].full = y
  <2>1. /\ \A z : [r EXCEPT !.full = z] = [out |-> r.out, full |-> z]
        /\ \A z : [r EXCEPT !.out = z] = [out |-> z, full |-> r.full]
    BY <1>2, SMT
  <2>2. \A x, y : [out |-> x, full |-> y].out = x /\ [out |-> x, full |-> y].full = y
    BY SMT
  <2> QED BY <2>1, <2>2, Zenon
<1>6. CASE r.full
  <2>1. q = [out |-> r.out, full |-> TRUE]
    BY <1>2, <1>5, <1>6, Zenon DEF Filled
  <2> DEFINE w == r.out
  <2> HIDE DEF q, w
  <2>2. q.out = w /\ q.full = TRUE
    BY <1>5, <2>1, Zenon DEF w
  <2>3. m \in 0..k /\ m < k
    BY <1>1, <1>3, <1>6, Zenon
  <2>4. Fills(d, n, k, q)
    BY <1>3, <1>6, <2>1, <2>2, <2>3, Zenon DEF Fills, w
  <2> QED BY <2>4, Zenon DEF q
<1>7. CASE ~r.full /\ ~Fits(Len(r.out), Len(e), n)
  <2>1. q = [out |-> r.out, full |-> TRUE]
    BY <1>2, <1>5, <1>7, Zenon DEF Filled
  <2> DEFINE w == r.out
  <2> HIDE DEF q, w
  <2>2. q.out = w /\ q.full = TRUE
    BY <1>5, <2>1, Zenon DEF w
  <2>3. r.out = Begin8(d, k - 1) /\ Len(Begin8(d, k - 1)) <= n
    BY <1>3, <1>7, Zenon
  <2>4. Overflows(d, n, k - 1)
    <3>1. ~(Len(Begin8(d, k)) <= n)
      BY <1>4, <1>7, <2>3, Zenon
    <3>2. Len(Begin8(d, k)) > n
      BY <1>4, <3>1, SMT
    <3> QED BY <1>1, <3>2, Zenon DEF Overflows
  <2>5. Fills(d, n, k, q)
    BY <1>1, <2>1, <2>2, <2>3, <2>4, Zenon DEF Fills, w
  <2> QED BY <2>5, Zenon DEF q
<1>8. CASE ~r.full /\ Fits(Len(r.out), Len(e), n)
  <2>1. q = [out |-> r.out \o e, full |-> r.full]
    BY <1>2, <1>5, <1>8, Zenon DEF Filled
  <2> DEFINE w == r.out \o e
  <2> HIDE DEF q, w
  <2>2. q.out = w /\ q.full = r.full
    BY <1>5, <2>1, Zenon DEF w
  <2>3. r.out = Begin8(d, k - 1)
    BY <1>3, <1>8, Zenon
  <2>4. q.out = Begin8(d, k) /\ Len(Begin8(d, k)) <= n
    BY <1>4, <1>8, <2>2, <2>3, Zenon DEF w
  <2>5. q = [out |-> q.out, full |-> q.full] /\ q.full \in BOOLEAN /\ ~q.full
    BY <1>2, <1>8, <2>1, <2>2, Zenon
  <2>6. Fills(d, n, k, q)
    BY <1>1, <2>4, <2>5, Zenon DEF Fills
  <2> QED BY <2>6, Zenon DEF q
<1> QED BY <1>6, <1>7, <1>8, Zenon

\* The states of UTF16To8 over the codes d.
FillFrom(u, d, n) ==
  u = [k \in 0..Len(d) |-> IF k = 0 THEN [out |-> <<>>, full |-> FALSE]
                           ELSE Filled(u[k - 1], d[k], n)]

\* Each of them is such a state.
LEMMA FillSound ==
  ASSUME NEW d \in Seq(Scalar), NEW n \in Nat, NEW u, u[0] = [out |-> <<>>, full |-> FALSE],
         \A k \in 1..Len(d) : Fills(d, n, k - 1, u[k - 1]) => u[k] = Filled(u[k - 1], d[k], n)
  PROVE  \A k \in 0..Len(d) : Fills(d, n, k, u[k])
<1> DEFINE T == {k \in 0..Len(d) : Fills(d, n, k, u[k])}
<1>0. Len(d) \in Nat /\ 0 \in 0..Len(d) /\ 0 \in 0..0
  BY SMT
<1>1. Begin8(d, 0) = <<>>
  <2>1. SubSeq(d, 1, 0) = <<>>
    BY SMT
  <2>2. "UTF-8" \in Encoding
    BY UnicodeIs, Zenon
  <2> QED BY <2>1, <2>2, EncodedEmpty, Zenon DEF Begin8
<1>2. 0 \in T
  <2>1. Len(<<>>) <= n
    BY SMT
  <2> DEFINE q == u[0]
  <2>2. q = [out |-> <<>>, full |-> FALSE]
    BY Zenon
  <2> HIDE DEF q
  <2>3. q.out = <<>> /\ q.full = FALSE
    BY <2>2, SMT
  <2>4. q = [out |-> q.out, full |-> q.full] /\ q.full \in BOOLEAN /\ ~q.full
    BY <2>2, <2>3, Zenon
  <2>5. q.out = Begin8(d, 0) /\ Len(Begin8(d, 0)) <= n
    BY <1>1, <2>1, <2>3, Zenon
  <2>6. Fills(d, n, 0, q)
    BY <1>0, <2>4, <2>5, Zenon DEF Fills
  <2>7. Fills(d, n, 0, u[0])
    BY <2>6, Zenon DEF q
  <2> QED BY <1>0, <2>7, Zenon
<1>3. ASSUME NEW k \in 0..Len(d) - 1, k \in T PROVE k + 1 \in T
  <2>1. k + 1 \in 1..Len(d) /\ k + 1 \in 0..Len(d) /\ (k + 1) - 1 = k
    BY <1>0, SMT
  <2> DEFINE p == k + 1
  <2>2. p \in 1..Len(d) /\ Fills(d, n, p - 1, u[p - 1])
    BY <1>3, <2>1, Zenon
  <2>3. u[p] = Filled(u[p - 1], d[p], n)
    BY <2>2, Zenon
  <2> HIDE DEF p
  <2>4. Fills(d, n, p, u[p])
    BY <2>2, <2>3, FilledFills, Zenon
  <2> QED BY <2>1, <2>4, Zenon DEF p
<1> HIDE DEF T
<1>4. \A k \in 0..Len(d) : k \in T
  BY <1>0, <1>2, <1>3, Upward, Zenon
<1> QED BY <1>4, Zenon DEF T

\* There are such states.
LEMMA FillDefined ==
  ASSUME NEW d \in Seq(Scalar), NEW n \in Nat
  PROVE  \E u : FillFrom(u, d, n)
<1> DEFINE b == [out |-> <<>>, full |-> FALSE]
           R == [out : Seq(Nat), full : BOOLEAN]
           F == [k \in 1..Len(d) |-> [r \in R |-> Filled(r, d[k], n)]]
<1>0. Len(d) \in Nat /\ \A k \in 1..Len(d) : k - 1 \in 0..Len(d) /\ k \in 0..Len(d)
  BY SMT
<1> HIDE DEF b, F
<1>1. PICK u : Chained(u, Len(d), b, F)
  BY <1>0, Forward, Zenon
<1>2. /\ u = [k \in 0..Len(d) |-> u[k]] /\ u[0] = b
      /\ \A k \in 1..Len(d) : u[k] = F[k][u[k - 1]]
  BY <1>1, Zenon DEF Chained
<1>3. ASSUME NEW r, NEW k \in 0..Len(d), Fills(d, n, k, r) PROVE r \in R
  <2>1. PICK m \in 0..k : r.out = Begin8(d, m)
    BY <1>3, Zenon DEF Fills
  <2>2. m \in 0..Len(d)
    BY <1>0, SMT
  <2>3. r.out \in Seq(Nat)
    <3>1. "UTF-8" \in Encoding
      BY UnicodeIs, Zenon
    <3>2. SubSeq(d, 1, m) \in Seq(Scalar)
      BY <2>2, <3>1, EncodedBegins, Zenon
    <3> QED BY <2>1, <3>1, <3>2, EncodedNumbers, Zenon DEF Begin8
  <2>4. r = [out |-> r.out, full |-> r.full] /\ r.full \in BOOLEAN
    BY <1>3, Zenon DEF Fills
  <2>5. \A x \in Seq(Nat) : \A y \in BOOLEAN : [out |-> x, full |-> y] \in R
    BY SMT
  <2> HIDE DEF R
  <2> QED BY <2>3, <2>4, <2>5, Zenon
<1>4. ASSUME NEW k \in 1..Len(d), Fills(d, n, k - 1, u[k - 1])
      PROVE  u[k] = Filled(u[k - 1], d[k], n)
  <2>1. u[k - 1] \in R
    BY <1>0, <1>3, <1>4, Zenon
  <2> HIDE DEF R
  <2> QED BY <1>2, <2>1, Zenon DEF F
<1>5. \A k \in 0..Len(d) : Fills(d, n, k, u[k])
  BY <1>2, <1>4, FillSound, Zenon DEF b
<1>6. \A k \in 0..Len(d) : u[k] = IF k = 0 THEN b ELSE Filled(u[k - 1], d[k], n)
  <2> TAKE k \in 0..Len(d)
  <2>1. k # 0 => k \in 1..Len(d) /\ k - 1 \in 0..Len(d)
    BY <1>0, SMT
  <2> QED BY <1>2, <1>4, <1>5, <2>1, Zenon
<1> QED BY <1>2, <1>6, Zenon DEF FillFrom, b

\* UTF16To8 writes the first characters of the text, as many as fit.
Stops(d, n, m) ==
  /\ m \in 0..Len(d) /\ Len(Begin8(d, m)) <= n
  /\ m < Len(d) => Overflows(d, n, m)

\* What UTF16To8 writes.
LEMMA UTF16To8Is ==
  ASSUME NEW s \in Seq(Unit), NEW n \in Nat
  PROVE  LET d == CodesOfUTF16(s) IN \E m : Stops(d, n, m) /\ UTF16To8(s, n) = Begin8(d, m)
<1> DEFINE d == CodesOfUTF16(s)  u == CHOOSE u : FillFrom(u, d, n)
<1>1. d \in Seq(Scalar)
  BY CodesOfUTF16Lists, Zenon
<1>2. UTF16To8(s, n) = u[Len(d)].out
  BY DEF UTF16To8, FillFrom, Filled
<1> HIDE DEF d, u
<1>3. FillFrom(u, d, n)
  BY <1>1, FillDefined, Zenon DEF u
<1>0. Len(d) \in Nat /\ Len(d) \in 0..Len(d) /\ 0 \in 0..Len(d)
      /\ \A k \in 1..Len(d) : k \in 0..Len(d) /\ k # 0
  BY <1>1, SMT
<1>4. /\ u[0] = [out |-> <<>>, full |-> FALSE]
      /\ \A k \in 1..Len(d) : u[k] = Filled(u[k - 1], d[k], n)
  <2> DEFINE Here(k) == IF k = 0 THEN [out |-> <<>>, full |-> FALSE]
                        ELSE Filled(u[k - 1], d[k], n)
  <2>1. u = [k \in 0..Len(d) |-> Here(k)]
    BY <1>3, Zenon DEF FillFrom
  <2> HIDE DEF Here
  <2>2. u[0] = Here(0) /\ \A k \in 1..Len(d) : u[k] = Here(k)
    BY <1>0, <2>1, Zenon
  <2> QED BY <1>0, <2>2, Zenon DEF Here
<1>5. Fills(d, n, Len(d), u[Len(d)])
  <2>1. \A k \in 0..Len(d) : Fills(d, n, k, u[k])
    BY <1>1, <1>4, FillSound, Zenon
  <2> QED BY <1>0, <2>1, Zenon
<1>6. PICK m \in 0..Len(d) :
        /\ u[Len(d)].out = Begin8(d, m) /\ Len(Begin8(d, m)) <= n
        /\ u[Len(d)].full => m < Len(d) /\ Overflows(d, n, m)
        /\ ~u[Len(d)].full => m = Len(d)
  BY <1>5, Zenon DEF Fills
<1>7. m < Len(d) => Overflows(d, n, m)
  <2>1. ~(Len(d) < Len(d))
    BY <1>0, SMT
  <2> QED BY <1>6, <2>1, Zenon
<1>8. Stops(d, n, m) /\ UTF16To8(s, n) = Begin8(d, m)
  BY <1>2, <1>6, <1>7, Zenon DEF Stops
<1> QED BY <1>8, Zenon DEF d

\* What UTF16To8 writes is the beginning of the whole text, is UTF-8, and is the longest such
\* text that fits: a longer one would hold the next character too.
LEMMA WholeBegin ==
  ASSUME NEW d \in Seq(Scalar), NEW n \in Nat, NEW m, Stops(d, n, m)
  PROVE  LET part == Begin8(d, m)  all == Encoded("UTF-8", d)
         IN /\ part \in Seq(Nat) /\ Len(part) <= n /\ IsPrefix(part, all) /\ IsUTF8(part)
            /\ \A k \in Len(part) + 1..n : k <= Len(all) => ~IsUTF8(SubSeq(all, 1, k))
<1> DEFINE p == SubSeq(d, 1, m)  part == Begin8(d, m)  all == Encoded("UTF-8", d)
<1>0. /\ "UTF-8" \in Encoding /\ m \in 0..Len(d) /\ Len(part) <= n
      /\ m < Len(d) => Overflows(d, n, m)
  BY UnicodeIs, Zenon DEF Stops
<1>1. p \in Seq(Scalar) /\ part = Encoded("UTF-8", p)
  BY <1>0, EncodedBegins, Zenon DEF Begin8
<1> DEFINE r == SubSeq(d, m + 1, Len(d))  R == Encoded("UTF-8", r)
<1>2. r \in Seq(Scalar) /\ all = part \o R
  BY <1>0, EncodedBegins, Zenon DEF Begin8
<1>3. part \in Seq(Nat) /\ R \in Seq(Nat) /\ all \in Seq(Nat)
  BY <1>0, <1>1, <1>2, EncodedNumbers, Zenon
<1> HIDE DEF p, part, all, r, R
<1>4. IsPrefix(part, all)
  BY <1>2, <1>3, PrefixOf, Zenon
<1>5. IsUTF8(part)
  BY <1>1, EncodedIsUTF8, Zenon
<1>6. ASSUME NEW k \in Len(part) + 1..n, k <= Len(all), IsUTF8(SubSeq(all, 1, k)) PROVE FALSE
  <2> DEFINE s == SubSeq(all, 1, k)  t == SubSeq(all, k + 1, Len(all))
  <2>1. /\ Len(part) \in Nat /\ Len(all) \in Nat /\ k \in 1..Len(all) /\ k > Len(part) /\ k <= n
        /\ k + 1 \in 1..Len(all) + 1 /\ (k + 1) - 1 = k /\ Len(all) \in 0..Len(all)
        /\ 1 \in 1..Len(all) + 1
    BY <1>3, <1>6, SMT
  <2>2. s \in Seq(Nat) /\ Len(s) = k /\ t \in Seq(Nat) /\ SubSeq(all, 1, Len(all)) = all
    <3>1. SubSeq(all, 1, Len(all)) = all /\ t \in Seq(Nat)
      BY <1>3, <2>1, RestOf, Zenon
    <3>2. s \in Seq(Nat) /\ Len(s) = k
      BY <1>3, <2>1, SMT
    <3> QED BY <3>1, <3>2, Zenon
  <2>3. all = s \o t
    <3>1. SubSeq(all, 1, Len(all))
          = SubSeq(all, 1, (k + 1) - 1) \o SubSeq(all, k + 1, Len(all))
      BY <1>3, <2>1, Cut, Zenon
    <3> QED BY <2>1, <2>2, <3>1, Zenon
  <2> HIDE DEF s, t
  <2>4. PICK g \in Seq(Scalar) : s = Encoded("UTF-8", g)
    BY <1>6, <2>2, UTF8IsEncoded, Zenon DEF s
  <2>5. Continues(g, d)
    <3>1. BeginsWith(g, d, t)
      BY <2>3, <2>4, Zenon DEF BeginsWith, all
    <3> QED BY <2>2, <3>1, PrefixTold, Zenon
  <2>6. PICK h \in Seq(Scalar) : d = g \o h
    BY <2>5, Zenon DEF Continues
  <2> DEFINE x == Len(g)
  <2>7. x \in 0..Len(d) /\ SubSeq(d, 1, x) = g
    <3>1. g \in Seq(Nat) /\ h \in Seq(Nat)
      BY SmallSets, SeqMonotonic, Zenon
    <3>2. SubSeq(d, 1, x) = g
      BY <2>6, <3>1, PrefixOf, Zenon
    <3>3. Len(d) = Len(g) + Len(h) /\ Len(g) \in Nat /\ Len(h) \in Nat
      BY <2>6, <3>1, SMT
    <3> QED BY <3>2, <3>3, SMT
  <2>8. Len(Begin8(d, x)) = k
    BY <2>2, <2>4, <2>7, Zenon DEF Begin8
  <2> HIDE DEF x
  <2>9. CASE x <= m
    <3>1. x \in 0..m
      BY <1>0, <2>7, <2>9, SMT
    <3>2. Len(Begin8(d, x)) <= Len(Begin8(d, m))
      BY <1>0, <3>1, MoreTakesMore, Zenon DEF Begin8
    <3>3. k <= Len(part)
      BY <2>8, <3>2, Zenon DEF part
    <3> QED BY <2>1, <3>3, SMT
  <2>10. CASE ~(x <= m)
    <3>1. m + 1 \in 0..x /\ m < Len(d)
      BY <1>0, <2>7, <2>10, SMT
    <3> DEFINE y == m + 1
    <3>2. Len(Begin8(d, y)) > n /\ y \in 0..x
      BY <1>0, <3>1, Zenon DEF Overflows
    <3> HIDE DEF y
    <3>3. Len(Begin8(d, y)) <= Len(Begin8(d, x))
      BY <2>7, <3>2, MoreTakesMore, Zenon DEF Begin8
    <3> DEFINE l == Len(Begin8(d, y))
    <3>4. l > n /\ l <= k
      BY <2>8, <3>2, <3>3, Zenon
    <3>5. l \in Nat
      <4>1. y \in 0..Len(d)
        BY <2>7, <3>2, SMT
      <4>2. SubSeq(d, 1, y) \in Seq(Scalar)
        BY <1>0, <4>1, EncodedBegins, Zenon
      <4>3. Begin8(d, y) \in Seq(Nat)
        BY <1>0, <4>2, EncodedNumbers, Zenon DEF Begin8
      <4> QED BY <4>3, SMT
    <3> HIDE DEF l
    <3> QED BY <2>1, <3>4, <3>5, SMT
  <2> QED BY <2>9, <2>10, Zenon
<1>7. \A k \in Len(part) + 1..n : k <= Len(all) => ~IsUTF8(SubSeq(all, 1, k))
  BY <1>6, Zenon
<1> QED BY <1>0, <1>3, <1>4, <1>5, <1>7, Zenon DEF part, all

\* UTF8To16 of the first characters of a text, which fit, is the beginning of its units.
LEMMA WayBack ==
  ASSUME NEW c \in Seq(Scalar), NEW n \in Nat, NEW m \in 0..Len(c), Len(Begin8(c, m)) <= n
  PROVE  LET w == UTF8To16(Begin8(c, m), n)
         IN w = SubSeq(Encoded("UTF-16", c), 1, Len(w))
<1> DEFINE p == SubSeq(c, 1, m)  part == Begin8(c, m)  units == Encoded("UTF-16", c)
           w == UTF8To16(part, n)
<1>0. "UTF-8" \in Encoding /\ "UTF-16" \in Encoding
  BY UnicodeIs, Zenon
<1>1. p \in Seq(Scalar) /\ part = Encoded("UTF-8", p) /\ Len(p) = m
  BY <1>0, EncodedBegins, Zenon DEF Begin8
<1>2. part \in Seq(Nat) /\ CodesOfUTF8(part) = p
  BY <1>0, <1>1, EncodedNumbers, CodesOfEncoded, Zenon
<1> HIDE DEF part
<1>3. SubSeq(part, 1, IF n < Len(part) THEN n ELSE Len(part)) = part
  <2>1. Len(part) <= n /\ Len(part) \in Nat
    BY <1>2, SMT DEF part
  <2>2. (IF n < Len(part) THEN n ELSE Len(part)) = Len(part)
    BY <2>1, SMT
  <2>3. SubSeq(part, 1, Len(part)) = part
    BY <1>2, RestOf, Zenon
  <2> QED BY <2>2, <2>3, Zenon
<1> DEFINE nulls == {k \in DOMAIN p : p[k] = 0}
           stop == IF nulls = {} THEN Len(p)
                   ELSE (CHOOSE k \in nulls : \A j \in nulls : k <= j) - 1
<1>4. w = Encoded("UTF-16", SubSeq(p, 1, stop))
  <2> DEFINE Ends(x) == {k \in DOMAIN x : x[k] = 0}
             Until(x) == SubSeq(x, 1, IF Ends(x) = {} THEN Len(x)
                                      ELSE (CHOOSE k \in Ends(x) : \A j \in Ends(x) : k <= j) - 1)
             From(x) == Encoded("UTF-16", Until(CodesOfUTF8(x)))
  <2>1. w = From(SubSeq(part, 1, IF n < Len(part) THEN n ELSE Len(part)))
    BY DEF UTF8To16
  <2>2. Until(p) = SubSeq(p, 1, stop)
    OBVIOUS
  <2> HIDE DEF w, Until, p, stop, nulls
  <2>3. w = From(part)
    BY <1>3, <2>1, Zenon
  <2> QED BY <1>2, <2>2, <2>3, Zenon
<1>5. stop \in 0..Len(p)
  <2>1. nulls \in SUBSET (1..Len(p)) /\ Len(p) \in Nat
    BY <1>1, SMT
  <2>2. CASE nulls = {}
    BY <2>1, <2>2, SMT
  <2>3. CASE nulls # {}
    <3> HIDE DEF nulls, p
    <3>1. nulls \in SUBSET Nat
      BY <2>1, SMT
    <3>2. \E x \in nulls : \A y \in nulls : x <= y
      BY <2>3, <3>1, Least, Zenon
    <3> DEFINE f == CHOOSE k \in nulls : \A j \in nulls : k <= j
    <3>3. f \in nulls /\ stop = f - 1
      BY <2>3, <3>2, Zenon
    <3> HIDE DEF f, stop
    <3> QED BY <2>1, <3>3, SMT
  <2> QED BY <2>2, <2>3, Zenon
<1> HIDE DEF stop
<1>6. stop \in 0..Len(c) /\ SubSeq(p, 1, stop) = SubSeq(c, 1, stop)
  <2>1. stop \in 0..m /\ Len(c) \in Nat
    BY <1>1, <1>5, SMT
  <2>2. stop \in 0..Len(c)
    BY <2>1, SMT
  <2> DEFINE a == SubSeq(p, 1, stop)  b == SubSeq(c, 1, stop)
  <2>3. /\ a \in Seq(Scalar) /\ Len(a) = stop /\ \A j \in 1..stop : a[j] = c[j]
        /\ b \in Seq(Scalar) /\ Len(b) = stop /\ \A j \in 1..stop : b[j] = c[j]
    BY <1>1, <2>1, SMT
  <2> HIDE DEF a, b
  <2>4. a = b
    <3>1. a \in Seq(Nat) /\ b \in Seq(Nat)
      BY <2>3, SmallSets, SeqMonotonic, Zenon
    <3> QED BY <2>3, <3>1, SameText, Zenon
  <2> QED BY <2>2, <2>4, Zenon DEF a, b
<1> DEFINE q == SubSeq(c, 1, stop)  r == SubSeq(c, stop + 1, Len(c))
<1>7. q \in Seq(Scalar) /\ r \in Seq(Scalar)
      /\ units = Encoded("UTF-16", q) \o Encoded("UTF-16", r)
  BY <1>0, <1>6, EncodedBegins, Zenon
<1> HIDE DEF q, r, units, w, p
<1>8. w = Encoded("UTF-16", q) /\ w \in Seq(Nat) /\ Encoded("UTF-16", r) \in Seq(Nat)
  BY <1>0, <1>4, <1>6, <1>7, EncodedNumbers, Zenon DEF q
<1>9. SubSeq(units, 1, Len(w)) = w
  BY <1>7, <1>8, PrefixOf, Zenon
<1> QED BY <1>9, Zenon DEF units, w, part

\* Any text in memory, UTF-8 or not, goes through the two buffers as it should.
LEMMA TextWhole ==
  ASSUME text \in Seq(Byte)
  PROVE  WholeCharacters
<1> DEFINE codes == CodesOfUTF8(text)  units == Encoded("UTF-16", codes)
           d == CodesOfUTF16(units)  all == Encoded("UTF-8", d)
<1>0. "UTF-8" \in Encoding /\ "UTF-16" \in Encoding
  BY UnicodeIs, Zenon
<1>1. text \in Seq(Nat)
  BY SmallSets, SeqMonotonic, Zenon
<1>2. units \in Seq(Unit)
  BY <1>1, CodesOfUTF8Type, EncodedUnits, Zenon
<1> HIDE DEF units
<1>3. d \in Seq(Scalar)
  BY <1>2, CodesOfUTF16Lists, Zenon
<1>4. all \in Seq(Nat)
  BY <1>0, <1>3, EncodedNumbers, Zenon
<1> HIDE DEF all
<1>5. IsUTF8(text) => d \in Seq(Scalar) /\ units = Encoded("UTF-16", d)
  <2> SUFFICES ASSUME IsUTF8(text) PROVE units = Encoded("UTF-16", d)
    BY <1>3, Zenon
  <2>1. PICK c \in Seq(Scalar) : text = Encoded("UTF-8", c)
    BY <1>1, UTF8IsEncoded, Zenon
  <2>2. codes = c
    BY <2>1, CodesOfEncoded, Zenon
  <2>3. units = Encoded("UTF-16", c)
    BY <2>2, Zenon DEF units
  <2>4. d = c
    BY <2>3, CodesOfEncoded, Zenon
  <2> QED BY <2>3, <2>4, Zenon
<1>6. ASSUME NEW n \in 0..Len(all) + 1
      PROVE  LET part == UTF16To8(units, n)
             IN /\ Len(part) <= n /\ IsPrefix(part, all) /\ IsUTF8(part)
                /\ \A k \in Len(part) + 1..n : k <= Len(all) => ~IsUTF8(SubSeq(all, 1, k))
                /\ IsUTF8(text)
                   => UTF8To16(part, n) = SubSeq(units, 1, Len(UTF8To16(part, n)))
  <2>1. n \in Nat
    BY SMT
  <2>2. PICK m : Stops(d, n, m) /\ UTF16To8(units, n) = Begin8(d, m)
    BY <1>2, <2>1, UTF16To8Is, Zenon
  <2> DEFINE part == Begin8(d, m)
  <2> HIDE DEF d
  <2>3. /\ Len(part) <= n /\ IsPrefix(part, all) /\ IsUTF8(part)
        /\ \A k \in Len(part) + 1..n : k <= Len(all) => ~IsUTF8(SubSeq(all, 1, k))
    BY <1>3, <2>1, <2>2, WholeBegin, Zenon DEF all
  <2>4. IsUTF8(text) => UTF8To16(part, n) = SubSeq(units, 1, Len(UTF8To16(part, n)))
    <3> SUFFICES ASSUME IsUTF8(text)
                 PROVE  UTF8To16(part, n) = SubSeq(units, 1, Len(UTF8To16(part, n)))
      OBVIOUS
    <3>1. m \in 0..Len(d) /\ Len(Begin8(d, m)) <= n
      BY <2>2, Zenon DEF Stops
    <3>2. part = Begin8(d, m)
      OBVIOUS
    <3> HIDE DEF part
    <3> DEFINE w == UTF8To16(part, n)
    <3>3. w = SubSeq(Encoded("UTF-16", d), 1, Len(w))
      BY <1>3, <2>1, <3>1, <3>2, WayBack, Zenon
    <3> HIDE DEF w
    <3>4. w = SubSeq(units, 1, Len(w))
      BY <1>5, <3>3, Zenon
    <3> QED BY <3>4, Zenon DEF w
  <2> HIDE DEF part
  <2>5. UTF16To8(units, n) = part
    BY <2>2, Zenon DEF part
  <2> QED BY <2>3, <2>4, <2>5, Zenon
<1> QED BY <1>6, Zenon DEF WholeCharacters, units, d, all

\* UTF16To8 fills a buffer of any size with as many whole characters as it has room for, and
\* never writes beyond its end, whatever text is in memory; the way back gives the beginning
\* of the units that the text stands for.
THEOREM WholeCharactersAlways == FileSpec => []WholeCharacters
<1>1. FileInit => FileInv
  BY FileInitInv
<1>2. FileInv /\ [FileNext]_fileVars => FileInv'
  BY FileNextInv
<1>3. FileInv => WholeCharacters
  BY TextWhole, FileTypeIs, Zenon DEF FileInv
<1> QED BY <1>1, <1>2, <1>3, PTL DEF FileSpec
=============================================================================
