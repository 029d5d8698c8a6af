------------------------------ MODULE TextFile ------------------------------
(***************************************************************************)
(* Files of CMarkup: Load and Save (src/markup.cpp), the way config.xml is *)
(* read. The text in memory is UTF-8; a file is UTF-8 or UTF-16 by its     *)
(* byte order mark, or in the encoding its XML declaration names. The      *)
(* document flags of an object remember the mark from a Load to the next   *)
(* Save. Conversions between 8-bit encodings are left to iconv.            *)
(***************************************************************************)
EXTENDS TextCodes, SequencesExt, FiniteSets

CONSTANTS
  Chars,    \* code points of texts
  Garbage,  \* bytes of files that are not text
  Beyond,   \* what may lie behind a buffer, in units of two bytes
  MaxChars, \* bound of the length of a text behind its first character
  MaxCalls  \* bound of the operations on one object

ASSUME TextAssumption ==
  /\ \A c \in Chars : IsScalar(c)
  /\ \A u \in Beyond : u \in Nat /\ u < 65536
  /\ Garbage \subseteq 0..255
  /\ MaxChars \in Nat

VARIABLES
  text,   \* m_strDoc, as bytes
  flags,  \* m_nDocFlags: the marks remembered
  file,   \* the bytes of the file, Absent at first
  meant,  \* the code points that the file stands for, Unknown for no text
  state,  \* where the text is from: "set", "loaded", "astray" (loaded with the mark
          \* of another file) or "saved"
  calls

fileVars == <<text, flags, file, meant, state, calls>>

Absent == <<-1>>
Unknown == <<-1>>

\* The first character of a text stands for all of its beginning: '<', or a declaration
\* with the name of an encoding. All of them are ASCII.
Less == 60
DeclUTF8 == 1
DeclLatin == 2
DeclOther == 3
Declared(s) ==
  IF s = <<>> THEN ""
  ELSE CASE s[1] = DeclUTF8  -> "UTF-8"
         [] s[1] = DeclLatin -> "ISO-8859-1"
         [] s[1] = DeclOther -> "other"
         [] OTHER            -> ""

BomTable == <<[bom |-> <<239, 187, 191>>, enc |-> "UTF-8", flag |-> "preamble"],
              [bom |-> <<255, 254>>, enc |-> "UTF-16LE", flag |-> "LE"],
              [bom |-> <<254, 255>>, enc |-> "UTF-16BE", flag |-> "BE"]>>
NoBom == [bom |-> <<>>, enc |-> "", flag |-> ""]

First(rows) == IF rows = {} THEN NoBom ELSE BomTable[CHOOSE k \in rows : \A j \in rows : k <= j]

---------------------------------------------------------------------------
(* Units of two bytes, in the order of the machine (the low byte first) and *)
(* in the order of the file.                                               *)

EndianSwapForgotten(f) == FALSE
EndianSwapRequired(f) == "BE" \in f
SwappedUncut(units) == [k \in DOMAIN units |-> units[k] * 256 + units[k] \div 256]
Swapped(units) == [k \in DOMAIN units |-> (units[k] % 256) * 256 + units[k] \div 256]
UnitsOf(bytes) == [k \in 1..Len(bytes) \div 2 |-> bytes[2 * k - 1] + 256 * bytes[2 * k]]
BytesOf(units) == [k \in 1..2 * Len(units) |->
                    IF k % 2 = 1 THEN units[(k + 1) \div 2] % 256 ELSE units[k \div 2] \div 256]

---------------------------------------------------------------------------
(* FileRead: null characters are removed in place, run after run.          *)

\* n places from the place src on are copied to dst, in front of it.
CopiedDown(buf, dst, src, n) ==
  [k \in DOMAIN buf |-> IF k \in dst..dst + n - 1 THEN buf[k + src - dst] ELSE buf[k]]
RunMovedByOne(r, k) ==
  IF r.after # 0 /\ k # r.after THEN CopiedDown(r.buf, r.after - 1, r.after, k - r.after)
  ELSE r.buf
RunMoved(r, k) ==
  IF r.after # 0 /\ k # r.after
    THEN CopiedDown(r.buf, r.after - r.nulls, r.after, k - r.after) ELSE r.buf

NullsRemoved(s) ==
  LET scan[k \in 0..Len(s)] ==
        IF k = 0 THEN [buf |-> s, after |-> 0, nulls |-> 0]
        ELSE LET r == scan[k - 1]
             IN IF r.buf[k] # 0 THEN r
                ELSE [buf |-> RunMoved(r, k), after |-> k + 1, nulls |-> r.nulls + 1]
      end == scan[Len(s)]
  IN SubSeq(RunMoved(end, Len(s) + 1), 1, Len(s) - end.nulls)

---------------------------------------------------------------------------
(* Conversions. *)

\* iconv, of glibc: a character has its shortest form and is no surrogate. The last
\* one may be incomplete.
CharAt(s, i) ==
  LET d == DecodeCharUTF8(s, i)
  IN IF IsScalar(d.code) /\ EncodeCharUTF8(d.code) = SubSeq(s, i, d.next - 1) THEN d
     ELSE Decoded(Bad, i)
Incomplete(s, i) ==
  /\ s[i] \in 194..247
  /\ Len(s) - i < Extra(s[i])
  /\ \A j \in i + 1..Len(s) : s[j] \in 128..191

\* IConv from UTF-8 to enc: a byte that iconv refuses becomes a mark; an incomplete character
\* ends the text.
IConv(enc, s) ==
  LET from[i \in 1..Len(s) + 1] ==
        LET d == CharAt(s, i)
        IN CASE i > Len(s)      -> <<>>
             [] i <= Len(s) /\ Incomplete(s, i) -> <<>>
             [] i <= Len(s) /\ ~Incomplete(s, i) /\ (d.code = Bad \/ Encode(enc, d.code) = <<>>)
                                -> <<Mark>> \o from[i + 1]
             [] OTHER           -> Encode(enc, d.code) \o from[d.next]
  IN from[1]

\* CanConvert: iconv_open knows both encodings. It takes UTF-8 to UTF-8 as well.
CanConvert(enc) == enc # "other"

ToMemory(enc, s) ==
  CASE enc = "UTF-8"      -> IConv("UTF-8", s)
    [] enc = "ISO-8859-1" -> Encoded("UTF-8", s)
    [] enc = "other"      -> s

FromMemory(enc, s) ==
  IF enc = "other" THEN s ELSE IConv(enc, s)

\* PerformConversion from UTF-8 to UTF-16: codes are cut to 16 bits (README).
ToUnits(s) == LET codes == CodesOfUTF8(s) IN [k \in DOMAIN codes |-> codes[k] % 65536]

---------------------------------------------------------------------------
(* FileOpen. *)

\* The mark at the top of the file, and the flags: that of UTF-16BE is never reset. An
\* empty file is not looked at.
OpenedToRead(s, f) ==
  LET row == First({k \in DOMAIN BomTable : IsPrefix(BomTable[k].bom, s)})
      decl == Declared(s)
  IN IF s = <<>> THEN [flags |-> f, enc |-> "", bom |-> <<>>]
     ELSE [flags |-> (f \ {"LE", "preamble"}) \cup ({row.flag} \ {""}), bom |-> row.bom,
           enc |-> IF row # NoBom THEN row.enc ELSE decl]

OpenedToWriteUnmarked(f) ==
  First({k \in DOMAIN BomTable : BomTable[k].flag \in f \ {"preamble"}})
OpenedToWrite(f) == First({k \in DOMAIN BomTable : BomTable[k].flag \in f})

\* FileReadText, of the rest of the file. Without an encoding UTF-8 is assumed.
ReadText(s, f, enc) ==
  IF s = <<>> THEN <<>>
  ELSE IF f \cap {"LE", "BE"} # {}
    THEN LET units == NullsRemoved(UnitsOf(s))
         IN Encoded("UTF-8",
                    CodesOfUTF16(IF EndianSwapRequired(f) THEN Swapped(units) ELSE units))
  ELSE ToMemory(IF enc = "" THEN "UTF-8" ELSE enc, NullsRemoved(s))

\* FileWriteText
WrittenText(s, f, enc) ==
  IF f \cap {"LE", "BE"} # {}
    THEN BytesOf(IF EndianSwapRequired(f) THEN Swapped(ToUnits(s)) ELSE ToUnits(s))
  ELSE FromMemory(enc, s)

---------------------------------------------------------------------------
(* Operations. *)

Call == calls < MaxCalls /\ calls' = calls + 1

\* SetDoc (SetText) and SetDocFlags of the user of the library. Bound: at the beginning.
SetText(codes) ==
  /\ Call /\ calls = 0 /\ file = Absent
  /\ text' = Encoded("UTF-8", codes) /\ state' = "set"
  /\ UNCHANGED <<flags, file, meant>>
SetDocFlags(f) == Call /\ calls \in 0..1 /\ flags' = f /\ UNCHANGED <<text, file, meant, state>>

\* Once an object has the flag of UTF-16BE, it reads files of other kinds with it too.
Astray(open) == "BE" \in flags /\ file # <<>> /\ open.enc # "UTF-16BE"
Behind(bom) == SubSeq(file, Len(bom) + 1, Len(file))

\* Load, of a file that is there.
Load ==
  LET open == OpenedToRead(file, flags)
  IN /\ Call /\ file # Absent /\ ~Astray(open)
     /\ flags' = open.flags /\ text' = ReadText(Behind(open.bom), open.flags, open.enc)
     /\ state' = "loaded"
     /\ UNCHANGED <<file, meant>>

\* The same, of a file of another kind. That of UTF-16LE has its units swapped; in another
\* one each two bytes are taken for a unit, as many units as there are bytes: half of
\* them lie behind the buffer.
UnitsAstray(bytes, rest) == UnitsOf(bytes) \o rest
LoadAstray ==
  LET open == OpenedToRead(file, flags)
      bytes == NullsRemoved(Behind(open.bom))
      n == Len(bytes) - Len(bytes) \div 2
  IN /\ Call /\ file # Absent /\ Astray(open)
     /\ flags' = open.flags /\ state' = "astray"
     /\ \E rest \in [1..n -> Beyond] :
          text' = IF open.enc = "UTF-16LE" THEN ReadText(Behind(open.bom), open.flags, open.enc)
                  ELSE Encoded("UTF-8", CodesOfUTF16(UnitsAstray(bytes, rest)))
     /\ UNCHANGED <<file, meant>>

\* Load of a file that is not there. The text is cleared.
LoadFails ==
  /\ Call /\ file = Absent
  /\ text' = <<>> /\ state' = "set"
  /\ UNCHANGED <<flags, file, meant>>

\* What the encoding has no codes for is lost.
Kept(codes, enc) ==
  LET limit == CASE enc \in {"UTF-16LE", "UTF-16BE"} -> 65536
                 [] enc = "ISO-8859-1" -> 256
                 [] OTHER -> 1114112
  IN IF \A k \in DOMAIN codes : codes[k] < limit THEN codes ELSE Unknown

Save ==
  LET row == OpenedToWrite(flags)
      enc == IF row # NoBom THEN row.enc
             ELSE IF Declared(text) # "" THEN Declared(text) ELSE "UTF-8"
  IN /\ Call
     /\ file' = row.bom \o WrittenText(text, flags, enc)
     /\ meant' = IF enc = "other" \/ state = "astray" \/ (meant = Unknown /\ state # "set")
                   THEN Unknown
                 ELSE Kept(CodesOfUTF8(text), enc)
     /\ state' = "saved"
     /\ UNCHANGED <<text, flags>>

---------------------------------------------------------------------------
(* The file as other programs write it. Bound: once, before the first call. *)

InFile(codes, enc) ==
  CASE enc \in {"UTF-8", "preamble"} -> Encoded("UTF-8", codes)
    [] enc = "LE"         -> BytesOf(Encoded("UTF-16", codes))
    [] enc = "BE"         -> BytesOf(Swapped(Encoded("UTF-16", codes)))
    [] enc = "ISO-8859-1" -> codes

BomOf(enc) == First({k \in DOMAIN BomTable : BomTable[k].flag = enc}).bom

OthersWrite(codes, enc) ==
  /\ calls = 0 /\ file = Absent
  /\ enc = "ISO-8859-1" => codes # <<>> /\ codes[1] = DeclLatin /\ Kept(codes, enc) # Unknown
  /\ enc = "UTF-8" => Declared(codes) \in {"", "UTF-8"}
  /\ file' = BomOf(enc) \o InFile(codes, enc) /\ meant' = codes
  /\ UNCHANGED <<text, flags, state, calls>>

OthersWriteBytes(bytes, enc) ==
  /\ calls = 0 /\ file = Absent
  /\ file' = BomOf(enc) \o bytes /\ meant' = Unknown
  /\ UNCHANGED <<text, flags, state, calls>>

---------------------------------------------------------------------------
Begins == {Less, DeclUTF8, DeclLatin, DeclOther}
Tails == UNION {[1..n -> Chars] : n \in 0..MaxChars}
Texts == {<<>>} \cup UNION {{<<b>> \o r : r \in Tails} : b \in Begins}

FileInit ==
  /\ text = <<>> /\ flags = {} /\ file = Absent /\ meant = Unknown
  /\ state = "set" /\ calls = 0

FileNext ==
  \/ Load \/ LoadAstray \/ LoadFails \/ Save
  \/ \E c \in Texts : 0 \notin ToSet(c) /\ SetText(c)
  \/ \E f \in {{}, {"LE"}, {"BE"}, {"preamble"}} : SetDocFlags(f)
  \/ \E c \in Texts, e \in {"UTF-8", "preamble", "LE", "BE", "ISO-8859-1"} : OthersWrite(c, e)
  \/ \E n \in 0..MaxChars + 1, e \in {"", "preamble", "LE", "BE"} :
       \E b \in [1..n -> Garbage] : OthersWriteBytes(b, e)

FileSpec == FileInit /\ [][FileNext]_fileVars

---------------------------------------------------------------------------
(* Properties. *)

FileTypeOK ==
  /\ flags \subseteq {"LE", "BE", "preamble"}
  /\ file = Absent \/ file \in Seq(0..255)
  /\ text \in Seq(0..255)
  /\ state \in {"set", "loaded", "astray", "saved"}

IsUTF8(s) ==
  LET from[i \in 1..Len(s) + 1] ==
        i > Len(s) \/ (CharAt(s, i).code # Bad /\ from[CharAt(s, i).next])
  IN from[1]
WithoutNulls(s) ==
  LET upTo[k \in 0..Len(s)] ==
        IF k = 0 THEN <<>> ELSE upTo[k - 1] \o (IF s[k] = 0 THEN <<>> ELSE <<s[k]>>)
  IN upTo[Len(s)]

\* Whatever bytes a file holds, the text that Load hands to the parser has no null in it,
\* where the parser would stop, and is UTF-8, unless it declares an encoding that nobody
\* knows (FileRead, FileReadText, IConv), or the object has the flag of UTF-16BE from
\* before and the file is none of that kind (1585).
LoadedIsText ==
  state = "loaded" => /\ 0 \notin ToSet(text)
                      /\ IsUTF8(text) \/ Declared(text) = "other"

\* A file in any of the encodings, by this program or another one, is loaded as the text
\* it stands for (FileOpen, FileReadText, FileWriteText), whatever the object has loaded
\* and saved before: loads that went astray too, of which the next ones must recover. Those
\* go astray of which the object has the flag of UTF-16BE and the file is of another kind (1585).
LoadedAsMeant ==
  state = "loaded" /\ meant # Unknown => CodesOfUTF8(text) = WithoutNulls(meant)

\* Save writes back the file that was loaded, byte for byte, as long as the file is text
\* without nulls that UTF-16 can hold in single units (m_nDocFlags, BomTable).
SavedAsLoaded ==
  [][ /\ state = "loaded" /\ state' = "saved" /\ meant # Unknown /\ meant' # Unknown
      /\ 0 \notin ToSet(meant) /\ file # <<>> /\ flags = OpenedToRead(file, {}).flags
      => file' = file ]_fileVars

\* UTF16To8 fills a buffer with as many whole characters as it has room for, and never
\* writes beyond its end, whatever the buffer's size is; the way back gives the beginning of
\* the units that a text stands for.
WholeCharacters ==
  LET units == Encoded("UTF-16", CodesOfUTF8(text))
      all   == Encoded("UTF-8", CodesOfUTF16(units))
  IN \A n \in 0..Len(all) + 1 :
       LET part == UTF16To8(units, n)
       IN /\ Len(part) <= n /\ IsPrefix(part, all) /\ IsUTF8(part)
          /\ \A k \in Len(part) + 1..n : k <= Len(all) => ~IsUTF8(SubSeq(all, 1, k))
          /\ IsUTF8(text) => UTF8To16(part, n) = SubSeq(units, 1, Len(UTF8To16(part, n)))
=============================================================================
