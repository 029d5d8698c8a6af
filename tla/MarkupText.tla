----------------------------- MODULE MarkupText -----------------------------
(***************************************************************************)
(* Attribute values and element data in the text of a CMarkup document     *)
(* (src/markup.cpp): how they are escaped when set, found again by the     *)
(* tokenizer and unescaped when read, for a document of one element. A     *)
(* text is a sequence of characters; a name counts as one of them, as does *)
(* the code of an entity.                                                  *)
(***************************************************************************)
EXTENDS Integers, Sequences, SequencesExt, FiniteSets

CONSTANTS
  AttrName,  \* names of attributes
  Values,    \* texts given to SetAttrib and SetData
  Elements,  \* documents of one element
  MaxSets    \* bound of the operations on a document

VARIABLES
  xml,   \* m_strDoc
  tag,   \* the element's start tag length, length and end tag length
  space, \* what m_nDocFlags say of white space: "keep", "trim" or "collapse"
  told,  \* what each attribute and the data were set to, and how
  sets

xmlVars == <<xml, tag, space, told, sets>>

---------------------------------------------------------------------------
(* Entities. *)

White == {" "}
Codes == [lt |-> "<", gt |-> ">", amp |-> "&", quot |-> "\"", apos |-> "'"]
NumCode == "#60"
Entity(n) == <<"&", n, ";">>
EntityName(c) == CHOOSE n \in DOMAIN Codes : Codes[n] = c
Punctuation == {"<", ">", "&", "\"", "'", ";", "/", "=", "!", "-", "[", "]", "?"} \cup White
IsName(c) == c \notin Punctuation

\* EscapeText: with references the start of an entity stays.
EscapeTextNoQuotes(v, quotes, refs) ==
  LET special == {"<", "&", ">"}
      kept(i) == refs /\ v[i] = "&" /\ i + 2 <= Len(v) /\ IsName(v[i + 1]) /\ v[i + 2] = ";"
  IN FlattenSeq([i \in DOMAIN v |->
       IF v[i] \in special /\ ~kept(i) THEN Entity(EntityName(v[i])) ELSE <<v[i]>>])
EscapeText(v, quotes, refs) ==
  LET special == {"<", "&", ">"} \cup (IF quotes THEN {"\"", "'"} ELSE {})
      kept(i) == refs /\ v[i] = "&" /\ i + 2 <= Len(v) /\ IsName(v[i + 1]) /\ v[i + 2] = ";"
  IN FlattenSeq([i \in DOMAIN v |->
       IF v[i] \in special /\ ~kept(i) THEN Entity(EntityName(v[i])) ELSE <<v[i]>>])

\* What the entity at the place i stands for; "" if it is none.
Meaning(v, i) ==
  IF ~(v[i] = "&" /\ i + 2 <= Len(v) /\ v[i + 2] = ";") THEN ""
  ELSE IF v[i + 1] \in DOMAIN Codes THEN Codes[v[i + 1]]
  ELSE IF v[i + 1] = NumCode THEN "<" ELSE ""

\* UnescapeText from the place i on. white is where the run of white space began in out,
\* 0 behind a character and -1 at the beginning.
RECURSIVE Unescaped(_, _, _, _)
Unescaped(v, i, out, white) ==
  IF i > Len(v) THEN IF white > 0 THEN SubSeq(out, 1, white - 1) ELSE out
  ELSE IF Meaning(v, i) # "" THEN Unescaped(v, i + 3, Append(out, Meaning(v, i)), 0)
  ELSE IF v[i] \notin White \/ space = "keep" THEN Unescaped(v, i + 1, Append(out, v[i]), 0)
  ELSE IF white = 0 THEN Unescaped(v, i + 1, Append(out, " "), Len(out) + 1)
  ELSE Unescaped(v, i + 1, IF white # -1 /\ space = "trim" THEN Append(out, v[i]) ELSE out, white)

UnescapeText(v) == Unescaped(v, 1, <<>>, -1)

---------------------------------------------------------------------------
(* TokenPos::ParseNode. *)

\* The first place from i on with one of the characters, or the one behind the end.
Upto(s, i, chars) ==
  LET fit == {j \in i..Len(s) : s[j] \in chars}
  IN IF fit = {} THEN Len(s) + 1 ELSE CHOOSE j \in fit : \A k \in fit : j <= k
Over(s, i, chars) ==
  LET fit == {j \in i..Len(s) : s[j] \notin chars}
  IN IF fit = {} THEN Len(s) + 1 ELSE CHOOSE j \in fit : \A k \in fit : j <= k
CharOf(s, i) == IF i \in DOMAIN s THEN s[i] ELSE ""

Node(type, p, next, empty) == [type |-> type, start |-> p, next |-> next, empty |-> empty]
Unterminated(s, p) == Node("bad", p, Len(s) + 1, FALSE)

\* In a start tag: quote is the open one, equals and bare tell that a value may start and
\* that it has no quotes; c1 and c2 are the last two characters.
RECURSIVE InTag(_, _, _, _)
InTag(s, p, i, t) ==
  LET c == CharOf(s, i)
      next == [t EXCEPT !.c2 = t.c1, !.c1 = c]
  IN CASE c = "" -> Unterminated(s, p)
       [] c = ">" /\ t.quote = "" ->
            Node("element", p, i + 1,
                 t.c1 = "/" /\ (t.c2 = "" \/ ~t.bare \/ t.c2 \in White \cup {"\"", "'"}))
       [] c # "" /\ t.quote # "" ->
            InTag(s, p, i + 1, IF c = t.quote THEN [next EXCEPT !.quote = ""] ELSE next)
       [] c \notin {"", ">"} /\ t.quote = "" /\ t.bare ->
            InTag(s, p, i + 1, IF c \in White THEN [next EXCEPT !.bare = FALSE] ELSE next)
       [] OTHER ->
            InTag(s, p, i + 1,
                  IF ~t.equals THEN [next EXCEPT !.equals = (c = "=" /\ t.c1 # "=")]
                  ELSE IF c \in {"\"", "'"} THEN [next EXCEPT !.quote = c, !.equals = FALSE]
                  ELSE IF c \notin White THEN [next EXCEPT !.bare = TRUE, !.equals = FALSE]
                  ELSE next)

NoValue == [quote |-> "", equals |-> FALSE, bare |-> FALSE, c1 |-> "", c2 |-> ""]

\* Up to the '>' behind two given characters.
Ended(s, p, from, before, type) ==
  LET fit == {i \in from..Len(s) : s[i] = ">" /\ SubSeq(s, i - Len(before), i - 1) = before}
  IN IF fit = {} THEN Unterminated(s, p)
     ELSE Node(type, p, (CHOOSE i \in fit : \A k \in fit : i <= k) + 1, FALSE)

\* A tag with an error in its first characters ends at the next '<' or '>'. Quotes in it
\* are left out: no document has such a tag.
BadTag(s, p, i) ==
  LET e == Upto(s, i, {"<", ">"})
  IN Node("bad", p, IF CharOf(s, e) = ">" THEN e + 1 ELSE e, FALSE)

\* A text ends at a tag, or behind a '>'.
TextNode(s, p, i) ==
  LET e == Upto(s, i, {"<", ">"})
  IN Node("text", p, IF CharOf(s, e) = ">" THEN e + 1 ELSE e, FALSE)

NodeAt(s, p) ==
  LET c == CharOf(s, p + 1)
      i == Over(s, p, White)
      close == Upto(s, Upto(s, p + 2, {" ", "/", ">"}), {">"})
  IN CASE CharOf(s, p) = "" -> Node("end", p, p, FALSE)
       [] CharOf(s, p) \in White ->
            IF CharOf(s, i) \in {"", "<"} THEN Node("white", p, i, FALSE) ELSE TextNode(s, p, i + 1)
       [] CharOf(s, p) \notin White \cup {"", "<"} -> TextNode(s, p, p + 1)
       [] OTHER ->
            CASE c = "" -> Unterminated(s, p)
              [] c = "/" -> IF close > Len(s) THEN Unterminated(s, p)
                            ELSE Node("endtag", p, close + 1, FALSE)
              [] c = "?" -> Ended(s, p, Upto(s, p + 2, {" ", "/", ">"}), <<"?">>, "instruction")
              [] c = "!" /\ SubSeq(s, p + 2, p + 3) = <<"-", "-">> ->
                   Ended(s, p, p + 4, <<"-", "-">>, "comment")
              [] c = "!" /\ SubSeq(s, p + 2, p + 3) = <<"[", "CDATA">> ->
                   Ended(s, p, p + 4, <<"]", "]">>, "cdata")
              [] c # "" /\ IsName(c) -> InTag(s, p, Upto(s, p + 1, {" ", "/", ">"}), NoValue)
              [] OTHER -> BadTag(s, p, p + 2)

---------------------------------------------------------------------------
(* TokenPos::FindAttrib, for attributes that have a value: a name without   *)
(* one counts as its own value, and SetAttrib then overwrites the name      *)
(* (README). next is where the search goes on, k how many names were read, *)
(* name the place of the one that matched, after whether a '=' came last.  *)

RECURSIVE Seek(_, _, _)
Seek(s, a, t) ==
  LET i == Over(s, t.next, White)
      c == CharOf(s, i)
      quoted == c \in {"\"", "'"}
      ends == IF t.after THEN {" ", ">"} ELSE {"=", " ", ">", "/", "?"}
      e == IF quoted THEN Upto(s, i + 1, {c})
           ELSE IF Upto(s, i, ends) = i THEN i + 1 ELSE Upto(s, i, ends)
      from == IF quoted THEN i + 1 ELSE i
      past == IF quoted /\ e <= Len(s) THEN e + 1 ELSE e
      done == [found |-> t.name # 0, at |-> from, to |-> e, quoted |-> quoted, next |-> past]
      named == [done EXCEPT !.at = t.name, !.to = t.name + 1, !.next = t.name + 1]
      stop == IF t.after THEN done ELSE IF t.name # 0 THEN named ELSE [done EXCEPT !.next = t.next]
      plain == ~t.after /\ ~quoted
  IN CASE c = "" \/ (plain /\ c \in {">", "/", "?"}) -> stop
       [] plain /\ c = "=" -> Seek(s, a, [t EXCEPT !.next = past, !.after = TRUE])
       [] plain /\ c \notin {"", ">", "/", "?", "="} /\ t.name = 0 ->
            Seek(s, a, [t EXCEPT !.next = past, !.k = @ + 1,
                                 !.name = IF t.k > 0 /\ SubSeq(s, i, e - 1) = <<a>> THEN i ELSE 0])
       [] ~plain /\ c # "" /\ t.name = 0 -> Seek(s, a, [t EXCEPT !.next = past, !.after = FALSE])
       [] OTHER -> stop

FindAttrib(s, a) == Seek(s, a, [next |-> 2, k |-> 0, name |-> 0, after |-> FALSE])

---------------------------------------------------------------------------
(* Reading. *)

GetAttrib(a) ==
  LET t == FindAttrib(xml, a)
  IN IF t.found THEN UnescapeText(SubSeq(xml, t.at, t.to - 1)) ELSE <<>>

Content == SubSeq(xml, tag.stl + 1, tag.len - tag.etl)
CDataOpen == <<"<", "!", "[", "CDATA", "[">>
CDataClose == <<"]", "]", ">">>

\* The texts and CDATA sections of the content, from the place p on.
RECURSIVE DataFrom(_)
DataFrom(p) ==
  LET node == NodeAt(xml, p)
      part == SubSeq(xml, p, node.next - 1)
      data == CASE node.type = "text"  -> UnescapeText(part)
                [] node.type = "cdata" -> SubSeq(part, Len(CDataOpen) + 1, Len(part) - Len(CDataClose))
                [] OTHER -> <<>>
  IN IF p > tag.len - tag.etl THEN <<>> ELSE data \o DataFrom(node.next)

GetData ==
  IF tag.stl = tag.len THEN <<>>
  ELSE IF "<" \in ToSet(Content) THEN DataFrom(tag.stl + 1) ELSE UnescapeText(Content)

---------------------------------------------------------------------------
(* Setting. *)

SetOnce == sets < MaxSets /\ sets' = sets + 1
Cut(s, at, n, new) == SubSeq(s, 1, at - 1) \o new \o SubSeq(s, at + n, Len(s))

\* x_SetAttrib: the value takes the place of the old one, or the pair goes to the end of
\* the start tag.
TagUnchanged(t, shift) == [t EXCEPT !.len = @ + shift]
TagAdjusted(t, shift) == [t EXCEPT !.len = @ + shift, !.stl = @ + shift]

SetAttribText(a, v, refs) ==
  LET t   == FindAttrib(xml, a)
      val == <<"\"">> \o EscapeText(v, TRUE, refs) \o <<"\"">>
      q   == IF t.quoted THEN 1 ELSE 0
      n   == IF t.found THEN t.to - t.at + 2 * q ELSE 0
      new == IF t.found THEN val ELSE <<" ", a, "=">> \o val
  IN /\ SetOnce
     /\ xml' = Cut(xml, IF t.found THEN t.at - q ELSE t.next, n, new)
     /\ tag' = TagAdjusted(tag, Len(new) - n)
     /\ told' = [told EXCEPT ![a] = [value |-> v, how |-> IF refs THEN "refs" ELSE "plain"]]
     /\ UNCHANGED space

\* x_EncodeCDATASection: the sections end within each "]]>".
RECURSIVE SplitEnds(_)
SplitEnds(v) ==
  LET fit == {i \in 1..Len(v) - 2 : SubSeq(v, i, i + 2) = CDataClose}
      i   == CHOOSE k \in fit : \A j \in fit : k <= j
  IN IF fit = {} THEN v
     ELSE SubSeq(v, 1, i + 1) \o CDataClose \o CDataOpen \o <<">">>
            \o SplitEnds(SubSeq(v, i + 3, Len(v)))
EncodeCDATASection(v) == CDataOpen \o SplitEnds(v) \o CDataClose

\* x_SetData: the content is replaced; an empty tag becomes a pair.
SetDataText(v, how) ==
  LET new   == IF how = "cdata" THEN EncodeCDATASection(v) ELSE EscapeText(v, FALSE, how = "refs")
      empty == tag.stl = tag.len
      name  == xml[2]
  IN /\ SetOnce
     /\ xml' = IF empty THEN Cut(xml, tag.len - 1, 1, <<">">> \o new \o <<"<", "/", name>>)
               ELSE Cut(xml, tag.stl + 1, tag.len - tag.stl - tag.etl, new)
     /\ tag' = IF empty THEN [stl |-> tag.stl - 1, len |-> tag.len - 1 + Len(new) + 4, etl |-> 4]
               ELSE [tag EXCEPT !.len = tag.stl + Len(new) + tag.etl]
     /\ told' = [told EXCEPT !.data = [value |-> v, how |-> how]]
     /\ UNCHANGED space

SetSpace(how) == sets = 0 /\ space = "keep" /\ space' = how /\ UNCHANGED <<xml, tag, told, sets>>

---------------------------------------------------------------------------
\* The element as x_ParseElem would index it.
Parsed(s) ==
  LET start == NodeAt(s, 1)
      last  == CHOOSE p \in DOMAIN s : NodeAt(s, p).type = "endtag" /\ NodeAt(s, p).next > Len(s)
  IN [stl |-> start.next - 1, len |-> Len(s), etl |-> IF start.empty THEN 0 ELSE Len(s) - last + 1]

Untold == [value |-> <<>>, how |-> "never"]

XmlInit ==
  /\ xml \in Elements /\ tag = Parsed(xml)
  /\ space = "keep" /\ sets = 0
  /\ told = [f \in AttrName \cup {"data"} |-> Untold]

XmlNext ==
  \/ \E a \in AttrName, v \in Values, refs \in BOOLEAN : SetAttribText(a, v, refs)
  \/ \E v \in Values, how \in {"plain", "refs", "cdata"} : SetDataText(v, how)
  \/ \E how \in {"trim", "collapse"} : SetSpace(how)

---------------------------------------------------------------------------
(* Properties. *)

\* The value without the white space at its ends, and with single blanks within.
Stripped(v) ==
  LET fit == {i \in DOMAIN v : v[i] \notin White}
      lo  == CHOOSE i \in fit : \A k \in fit : i <= k
      hi  == CHOOSE i \in fit : \A k \in fit : i >= k
      in  == SubSeq(v, lo, hi)
      one(i) == ~(i > 1 /\ in[i] \in White /\ in[i - 1] \in White)
      keep == {i \in DOMAIN in : one(i)}
  IN IF fit = {} THEN <<>>
     ELSE IF space = "trim" THEN in
     ELSE [n \in 1..Cardinality(keep) |->
            in[CHOOSE i \in keep : Cardinality({k \in keep : k <= i}) = n]]

\* References stand for what they name, where they were asked to be kept.
Resolved(v) ==
  LET in(i)   == \E j \in {i - 1, i - 2} : j \in DOMAIN v /\ Meaning(v, j) # ""
      char(i) == IF Meaning(v, i) # "" THEN <<Meaning(v, i)>> ELSE IF in(i) THEN <<>> ELSE <<v[i]>>
  IN FlattenSeq([i \in DOMAIN v |-> char(i)])

Expected(t) ==
  LET v == IF t.how = "refs" THEN Resolved(t.value) ELSE t.value
  IN IF space = "keep" \/ t.how = "cdata" THEN v ELSE Stripped(v)

\* Attributes and data read as what they were last set to, whichever characters that has
\* and whatever else was set since; only the white space is as the flags say (EscapeText,
\* UnescapeText, FindAttrib, x_EncodeCDATASection, x_GetData).
ReadsBack ==
  /\ \A a \in AttrName : told[a].how # "never" => GetAttrib(a) = Expected(told[a])
  /\ told.data.how # "never" => GetData = Expected(told.data)

\* The document is one element still, its tags where the index has them, and its content
\* nothing but text and CDATA sections (ParseNode, AdjustStartTagLen, x_InsertNew).
RECURSIVE Tiles(_)
Tiles(p) ==
  LET node == NodeAt(xml, p)
  IN IF p = tag.len - tag.etl + 1
       THEN node.type = "endtag" /\ node.next = tag.len + 1
       ELSE node.type \in {"text", "white", "cdata"} /\ Tiles(node.next)

OneElement ==
  LET start == NodeAt(xml, 1)
  IN /\ tag.len = Len(xml)
     /\ start.type = "element" /\ start.next = tag.stl + 1
     /\ start.empty = (tag.stl = tag.len)
     /\ ~start.empty => Tiles(tag.stl + 1)
=============================================================================
