----------------------------- MODULE MarkupDoc -----------------------------
(***************************************************************************)
(* Documents and position indexes of CMarkup (src/markup.cpp), the XML     *)
(* library that reads config.xml.                                          *)
(*                                                                         *)
(* A document is a sequence of lexemes, each one place wide: what the code *)
(* counts in characters is counted here in lexemes, so that <b/> has three *)
(* places ("<b", "/", ">") and </b> two. The index of a document is an     *)
(* array of ElemPos structs: offsets and lengths of each element's tags,   *)
(* and the links of a tree. x_ParseElem builds it, the operations of       *)
(* MarkupTree edit document and index side by side.                        *)
(***************************************************************************)
EXTENDS Integers, Sequences, SequencesExt, FiniteSets, TLC

Open(n)  == <<"<", n>>
Close(n) == <<"</", n>>
Attr(k)  == <<"@", k>>
Slash    == <<"/", "">>
Gt       == <<">", "">>
Text     == <<"t", "">> \* text that is not white
Eol      == <<"n", "">> \* whitespace
Comment  == <<"c", "">>

At(doc, p) == IF p < Len(doc) THEN doc[p + 1][1] ELSE "end"
Name(doc, p) == doc[p + 1][2]

\* x_StrInsertReplace
Replaced(doc, p, n, new) ==
  SubSeq(doc, 1, p) \o new \o SubSeq(doc, p + n + 1, Len(doc))

\* The first place from p on where the document has one of these lexemes.
RECURSIVE NextOf(_, _, _)
NextOf(doc, p, kinds) ==
  IF At(doc, p) \in kinds \cup {"end"} THEN p ELSE NextOf(doc, p + 1, kinds)

Markups == {"<", "</", "c"}

\* TokenPos::WhitespaceToTag: over white space to a tag or the end, or nowhere.
WhitespaceToTag(doc, p) ==
  LET q == NextOf(doc, p, {"<", "</", "c", "t"})
  IN IF At(doc, q) \in Markups \cup {"end"} THEN q ELSE p

\* TokenPos::ParseNode, for documents whose tags have no syntax errors.
ParseNode(doc, p) ==
  LET to(q, type, name, empty) ==
        [type |-> type, start |-> p, len |-> q - p, name |-> name, empty |-> empty]
      kind == At(doc, p)
      tag  == NextOf(doc, p, {">"})
      run  == NextOf(doc, p, Markups)
  IN CASE kind = "end" -> to(p, "end", "", FALSE)
       [] kind = "<"   -> to(tag + 1, "element", Name(doc, p), At(doc, tag - 1) = "/")
       [] kind = "</"  -> to(tag + 1, "endtag", Name(doc, p), FALSE)
       [] kind = "c"   -> to(p + 1, "comment", "", FALSE)
       [] OTHER        -> to(run, IF \E r \in p..run - 1 : At(doc, r) # "n"
                                  THEN "text" ELSE "white", "", FALSE)

---------------------------------------------------------------------------
(* ElemPos. *)

Blank == [start |-> 0, length |-> 0, stl |-> 0, etl |-> 0,
          parent |-> 0, child |-> 0, next |-> 0, prev |-> 0,
          first |-> FALSE, nonended |-> FALSE, illformed |-> FALSE, deleted |-> FALSE]

StartContent(e) == e.start + e.stl
StartAfter(e) == e.start + e.length
ContentLen(e) == e.length - e.stl - e.etl
IsEmptyElement(e) == e.stl = e.length

\* i and its next siblings, in order.
RECURSIVE Chain(_, _)
Chain(elem, i) == IF i = 0 THEN <<>> ELSE <<i>> \o Chain(elem, elem[i].next)

Children(elem, i) == Chain(elem, elem[i].child)

\* The elements below i, in document order, and those below the ones in a list.
RECURSIVE Below(_, _), BelowAll(_, _)
Below(elem, i) == BelowAll(elem, Children(elem, i))
BelowAll(elem, list) ==
  IF list = <<>> THEN <<>>
  ELSE <<Head(list)>> \o Below(elem, Head(list)) \o BelowAll(elem, Tail(list))

\* x_GetFreePos: the array grows, positions are not used again.
FreePos(elem) == Cardinality(DOMAIN elem)

---------------------------------------------------------------------------
(* x_ParseElem: the nodes of a document from its start, linked under the   *)
(* element "virtual". s holds the array, the element that is open (parent),*)
(* the last one (pos), the first one found (root) and the names of the     *)
(* open elements.                                                          *)

StartTag(s, node) ==
  LET i    == FreePos(s.elem)
      kid  == s.elem[s.parent].child
      last == s.elem[kid].prev
      new  == [Blank EXCEPT !.start = node.start, !.stl = node.len,
                            !.length = IF node.empty THEN node.len ELSE 0,
                            !.parent = s.parent, !.first = (kid = 0),
                            !.prev = IF kid = 0 THEN i ELSE last]
      linked == IF kid = 0 THEN [s.elem EXCEPT ![s.parent].child = i]
                ELSE [s.elem EXCEPT ![last].next = i, ![kid].prev = i]
  IN [s EXCEPT !.elem = linked @@ (i :> new),
               !.root = IF @ = 0 THEN i ELSE @,
               !.pos = IF node.empty THEN s.parent ELSE i,
               !.parent = IF node.empty THEN @ ELSE i,
               !.stack = IF node.empty THEN @ ELSE Append(@, node.name)]

\* The elements above level m have no end tag: their children become next
\* siblings of theirs.
Promoted(elem, i) ==
  LET kids == Children(elem, i)
      e    == elem[i]
      prevOf(k) == IF k = 1 THEN i ELSE kids[k - 1]
      moved == [j \in DOMAIN elem |->
                 IF \E k \in DOMAIN kids : kids[k] = j
                   THEN LET k == CHOOSE x \in DOMAIN kids : kids[x] = j
                        IN [elem[j] EXCEPT !.parent = e.parent, !.prev = prevOf(k)]
                   ELSE elem[j]]
  IN [moved EXCEPT ![i].etl = 0, ![i].nonended = TRUE, ![i].child = 0,
                   ![i].length = e.stl,
                   ![i].next = IF kids = <<>> THEN @ ELSE kids[1]]

RECURSIVE NonEnded(_, _)
NonEnded(s, m) ==
  IF Len(s.stack) <= m THEN s
  ELSE NonEnded([s EXCEPT !.elem = Promoted(s.elem, s.pos),
                          !.pos = s.elem[s.pos].parent,
                          !.stack = Front(@)], m)

IllFormed(s, m) ==
  IF Len(s.stack) > m THEN [s EXCEPT !.elem[s.virtual].illformed = TRUE] ELSE s

\* The level whose name the end tag has, the innermost one; 0 for a lone end tag.
MatchLevel(s, node) ==
  LET levels == {m \in DOMAIN s.stack : s.stack[m] = node.name}
  IN IF levels = {} THEN 0 ELSE CHOOSE m \in levels : \A k \in levels : k <= m

RECURSIVE Up(_, _, _)
Up(elem, i, n) == IF n = 0 THEN i ELSE Up(elem, elem[i].parent, n - 1)

EndTag(s, node) ==
  LET m     == MatchLevel(s, node)
      match == Up(s.elem, s.pos, Len(s.stack) - m)
      ended == [s EXCEPT !.elem[match].length = node.start - s.elem[match].start + node.len,
                         !.elem[match].etl = node.len]
      t     == NonEnded(IllFormed(ended, m), m)
  IN IF m = 0 THEN [s EXCEPT !.elem[s.virtual].illformed = TRUE]
     ELSE [t EXCEPT !.parent = t.elem[t.pos].parent, !.pos = t.elem[t.pos].parent,
                    !.stack = Front(@)]

RECURSIVE ParseFrom(_, _, _)
ParseFrom(s, doc, p) ==
  LET node == ParseNode(doc, p)
      t == CASE node.type = "element" -> StartTag(s, node)
             [] node.type = "endtag"  -> EndTag(s, node)
             [] OTHER -> s
  IN IF node.type = "end" THEN NonEnded(IllFormed(s, 0), 0)
     ELSE ParseFrom(t, doc, p + node.len)

\* The array with the document's elements under "virtual", and the first one.
ParseElem(elem, virtual, doc) ==
  LET s == ParseFrom([elem |-> elem, virtual |-> virtual, parent |-> virtual,
                      pos |-> virtual, root |-> 0, stack |-> <<>>], doc, 0)
  IN [elem |-> s.elem, root |-> s.root]

\* x_ParseDoc
ParseDoc(doc) ==
  LET e == ParseElem(0 :> Blank, 0, doc).elem
  IN IF doc = <<>> THEN 0 :> Blank ELSE [e EXCEPT ![0].length = Len(doc)]

---------------------------------------------------------------------------
(* What an index should be: the elements of a well-formed document, told   *)
(* from the document alone.                                                *)

\* One scan from p on: the start tags without their end (open), what was closed
\* (a set of extents) and whether every end tag had its start tag.
RECURSIVE Scanned(_, _, _, _)
Scanned(doc, p, open, closed) ==
  LET top == Last(open)
      is(stl, length, etl) == [start |-> top, stl |-> stl, length |-> length, etl |-> etl]
      end(e, q) == Scanned(doc, q, Front(open), closed \cup {e})
  IN CASE At(doc, p) = "end" -> [balanced |-> open = <<>>, extents |-> closed]
       [] At(doc, p) = "<"   -> Scanned(doc, p + 1, Append(open, p), closed)
       [] At(doc, p) = "/"   -> end(is(p + 2 - top, p + 2 - top, 0), p + 2)
       [] At(doc, p) = "</"  ->
            IF open = <<>> \/ Name(doc, top) # Name(doc, p)
              THEN [balanced |-> FALSE, extents |-> closed]
              ELSE end(is(NextOf(doc, top, {">"}) + 1 - top, p + 2 - top, 2), p + 2)
       [] OTHER -> Scanned(doc, p + 1, open, closed)

Reference(doc) == Scanned(doc, 0, <<>>, {})
ExtentOf(e) == [start |-> e.start, stl |-> e.stl, length |-> e.length, etl |-> e.etl]
Encloses(a, b) == a.start < b.start /\ b.start < a.start + a.length
=============================================================================
