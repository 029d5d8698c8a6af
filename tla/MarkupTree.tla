----------------------------- MODULE MarkupTree -----------------------------
(***************************************************************************)
(* The operations of CMarkup on a document in memory (src/markup.cpp):     *)
(* moving the current position, adding, changing and removing elements and *)
(* other nodes, and saved positions. Every edit changes the text and then  *)
(* corrects the index of the elements in place, x_Adjust, instead of       *)
(* parsing again; the index has to stay what a new parse would make it.    *)
(***************************************************************************)
EXTENDS MarkupDoc, SavedPositions

CONSTANTS
  ElemName, \* names of elements
  Docs,     \* documents given to SetDoc
  SubDocs,  \* documents given to AddSubDoc, each with an element
  Contents, \* documents given to SetElemContent
  MaxEdits  \* bound of the operations on one document

VARIABLES
  doc,    \* m_strDoc
  elem,   \* m_pElemPosTree
  cursor, \* m_iPosParent, m_iPos, m_iPosChild, m_nNodeOffset, -Length, -Type
  edits   \* operations so far

treeVars == <<doc, elem, cursor, table, wanted, edits>>

---------------------------------------------------------------------------
(* Positions. *)

\* x_SetPos
Pos(parent, main, child) ==
  [parent |-> parent, main |-> main, child |-> child, off |-> 0, len |-> 0,
   type |-> IF main # 0 THEN "element" ELSE "none"]

AtElement == cursor.type = "element"

---------------------------------------------------------------------------
(* x_Adjust: after text was changed by shift places at or in element i, the *)
(* starts of what follows and the lengths of what encloses it change, up to *)
(* the virtual parent, which has no start tag. Below i only when the change *)
(* is in front of its content.                                              *)

RECURSIVE Enclosing(_, _)
Enclosing(e, i) ==
  IF e[i].stl = 0 THEN <<>> ELSE <<e[i].parent>> \o Enclosing(e, e[i].parent)

After(e, i) == ToSet(BelowAll(e, Chain(e, e[i].next)))

AdjustedLengthsOnly(e, i, shift, afterPos) ==
  LET up == ToSet(Enclosing(e, i))
  IN [j \in DOMAIN e |-> [e[j] EXCEPT !.length = IF j \in up THEN @ + shift ELSE @]]

Adjusted(e, i, shift, afterPos) ==
  LET up    == ToSet(Enclosing(e, i))
      tagged == {j \in up \cup {i} : e[j].stl # 0}
      later == UNION {After(e, j) : j \in tagged}
      below == IF afterPos \/ i \notin tagged THEN {} ELSE ToSet(Below(e, i))
  IN [j \in DOMAIN e |->
       [e[j] EXCEPT !.length = IF j \in up THEN @ + shift ELSE @,
                    !.start = IF j \in later \cup below THEN @ + shift ELSE @]]

\* x_AdjustForNode
AdjustedForNode(e, parent, i, shift) ==
  LET kid == e[parent].child
  IN IF i # 0 THEN Adjusted(e, i, shift, TRUE)
     ELSE IF kid # 0
       THEN Adjusted([e EXCEPT ![kid].start = @ + shift], kid, shift, FALSE)
       ELSE Adjusted([e EXCEPT ![parent].length = @ + shift], parent, shift, TRUE)

---------------------------------------------------------------------------
(* Links. *)

\* x_LinkElem: after element "before", or as the first child.
Linked(e, parent, before, i) ==
  LET kid == e[parent].child
      nxt == IF before # 0 THEN e[before].next ELSE kid
      a   == [e EXCEPT ![i].parent = parent, ![i].next = nxt, ![i].first = (before = 0)]
  IN IF before # 0
       THEN IF nxt # 0
              THEN [a EXCEPT ![nxt].prev = i, ![before].next = i, ![i].prev = before]
              ELSE [a EXCEPT ![kid].prev = i, ![before].next = i, ![i].prev = before]
       ELSE IF kid # 0
              THEN [a EXCEPT ![i].prev = e[kid].prev, ![kid].prev = i,
                             ![kid].first = ~@, ![parent].child = i]
              ELSE [a EXCEPT ![i].prev = i, ![parent].child = i]

\* x_ReleasePos and x_ReleaseSubDoc. The list of released positions is never
\* read, its order is left out.
Released(e, S) ==
  [j \in DOMAIN e |->
    IF j \in S THEN [e[j] EXCEPT !.next = 0, !.deleted = TRUE, !.first = FALSE,
                                 !.nonended = FALSE, !.illformed = FALSE]
    ELSE e[j]]
SubDoc(e, i) == {i} \cup ToSet(Below(e, i))

\* x_UnlinkElem: the array without the element, and the position before it.
Unlinked(e, i) ==
  LET r == e[i]
      kid == e[r.parent].child
      a == IF r.first
             THEN IF r.next # 0
                    THEN [e EXCEPT ![r.parent].child = r.next, ![r.next].prev = r.prev,
                                   ![r.next].first = TRUE]
                    ELSE [e EXCEPT ![r.parent].child = 0]
             ELSE IF r.next # 0
                    THEN [e EXCEPT ![r.prev].next = r.next, ![r.next].prev = r.prev]
                    ELSE [e EXCEPT ![r.prev].next = 0, ![kid].prev = r.prev]
  IN Released(a, SubDoc(e, i))
PreviousAnyway(e, i) == e[i].prev
Previous(e, i) == IF e[i].first THEN 0 ELSE e[i].prev

---------------------------------------------------------------------------
(* x_InsertNew: where new text goes and what becomes of the parent. f are   *)
(* the flags: ins (in front), nolines, replace; node is the current node.  *)

Inserted(d, e, parent, rel, node, meta, f) ==
  LET p         == e[parent]
      emptyTag  == parent # 0 /\ IsEmptyElement(p)
      noContent == parent # 0 /\ ContentLen(p) = 0
      start0    ==
        IF rel # 0 /\ node.len = 0
          THEN e[rel].start + (IF f.ins THEN 0 ELSE e[rel].length)
        ELSE IF emptyTag THEN StartContent(p) - (IF p.nonended THEN 0 ELSE 1)
        ELSE IF node.len # 0 THEN node.off + (IF f.ins THEN 0 ELSE node.len)
        ELSE IF f.ins \/ f.replace THEN StartContent(p) ELSE StartAfter(p) - p.etl
      start1    == IF f.nolines \/ f.replace \/ emptyTag THEN start0
                   ELSE WhitespaceToTag(d, start0)
      rel1      ==
        IF node.len # 0 THEN rel
        ELSE IF rel # 0 THEN (IF f.ins THEN Previous(e, rel) ELSE rel)
        ELSE IF ~f.ins /\ p.child # 0 THEN e[p.child].prev ELSE 0
      start2    == IF ~f.nolines /\ (emptyTag \/ noContent) THEN start1 + 1 ELSE start1
      lined     == IF f.nolines THEN meta ELSE Append(meta, Eol)
      split     == (IF f.nolines THEN <<Gt>> ELSE <<Gt, Eol>>)
                     \o lined \o <<Close(Name(d, p.start))>>
      meta2     == IF emptyTag THEN split
                   ELSE IF noContent /\ ~f.replace THEN <<Eol>> \o lined ELSE lined
      at        == IF emptyTag THEN StartAfter(p) - (IF p.nonended THEN 1 ELSE 2)
                   ELSE IF f.replace \/ noContent THEN StartContent(p) ELSE start2
      cut       == IF emptyTag THEN (IF p.nonended THEN 0 ELSE 1)
                   ELSE IF f.replace THEN ContentLen(p) ELSE 0
  IN [doc   |-> Replaced(d, at, cut, meta2),
      elem  |-> IF emptyTag
                  THEN [e EXCEPT ![parent].stl = IF p.nonended THEN @ ELSE @ - 1,
                                 ![parent].nonended = FALSE, ![parent].etl = 2]
                  ELSE e,
      rel   |-> rel1,
      start |-> start2, len |-> Len(meta), shift |-> Len(meta2) - cut]

NoNode == [off |-> 0, len |-> 0]
Here == [off |-> cursor.off, len |-> cursor.len]

---------------------------------------------------------------------------
(* Saved positions of removed elements are dropped (SavedPositions). *)

CheckSaved(e) == CheckSavedPos({i \in DOMAIN e : e[i].deleted})

---------------------------------------------------------------------------
(* Moving the current position. *)

Moved(c) ==
  /\ cursor' = c
  /\ UNCHANGED <<doc, elem, table, wanted, edits>>

\* x_FindElem: the next sibling, or the first child, with the name; 0 if none.
AnyName == "*"
Found(parent, i, name) ==
  LET list == IF i # 0 THEN Chain(elem, elem[i].next) ELSE Children(elem, parent)
      fit  == {k \in DOMAIN list : name \in {AnyName, Name(doc, elem[list[k]].start)}}
  IN IF fit = {} THEN 0 ELSE list[CHOOSE k \in fit : \A j \in fit : k <= j]

FindElem(name) == LET i == Found(cursor.parent, cursor.main, name)
                  IN i # 0 /\ Moved(Pos(elem[i].parent, i, 0))

\* Without a main position the first element under the parent becomes it. Under a
\* parent without elements there is none, and the child is looked for at the top of
\* the document: FindChildElem then finds the root (README).
FindChildElem(name) ==
  LET first == Found(cursor.parent, 0, AnyName)
      main  == IF cursor.main # 0 THEN cursor.main ELSE first
      child == IF main = cursor.main THEN cursor.child ELSE 0
      i     == Found(main, child, name)
  IN IF i # 0 THEN Moved(Pos(elem[elem[i].parent].parent, elem[i].parent, i))
     ELSE main # cursor.main /\ Moved(Pos(elem[main].parent, main, 0))

IntoElem == cursor.main # 0 /\ AtElement /\ Moved(Pos(cursor.main, cursor.child, 0))
OutOfElem == /\ cursor.parent # 0
             /\ Moved(Pos(elem[cursor.parent].parent, cursor.parent, cursor.main))
ResetPos == Moved(Pos(0, 0, 0))
ResetMainPos == Moved(Pos(cursor.parent, 0, 0))
ResetChildPos == Moved(Pos(cursor.parent, cursor.main, 0))

\* FindNode: the next node of the type under the parent; elements on the way are
\* passed by as the index says, other nodes as they are parsed.
RECURSIVE Scan(_, _, _)
Scan(p, i, type) ==
  LET node == ParseNode(doc, p)
      par  == elem[cursor.parent]
      nxt  == IF i # 0 THEN elem[i].next ELSE par.child
      kind == node.type
  IN CASE \/ kind = "end"
          \/ kind = "endtag" /\ cursor.parent # 0 /\ p = StartContent(par) + ContentLen(par)
          \/ kind = "element" /\ nxt = 0
            -> cursor
       [] kind = "element" /\ nxt # 0 /\ type \in {AnyName, kind}
            -> Pos(cursor.parent, nxt, 0)
       [] kind = "element" /\ nxt # 0 /\ type \notin {AnyName, kind}
            -> Scan(StartAfter(elem[nxt]), nxt, type)
       [] kind \notin {"end", "element"} /\ type \notin {AnyName, kind}
            -> Scan(p + node.len, i, type)
       [] OTHER -> [parent |-> cursor.parent, main |-> i, child |-> 0,
                    off |-> node.start, len |-> node.len, type |-> kind]

FindNode(type) ==
  LET par  == elem[cursor.parent]
      from == IF cursor.type \notin {"none", "element"} THEN cursor.off + cursor.len
              ELSE IF cursor.main # 0 THEN StartAfter(elem[cursor.main])
              ELSE IF cursor.parent # 0 THEN StartContent(par) ELSE cursor.off
      none == /\ cursor.type \in {"none", "element"}
              /\ cursor.main = 0 /\ cursor.parent # 0 /\ IsEmptyElement(par)
  IN ~none /\ Moved(Scan(from, cursor.main, type))

---------------------------------------------------------------------------
(* Edits. *)

\* Bound: no edits once SetElemContent, given content without elements, has moved
\* the start of the document itself (README): places beyond the text follow.
Edit == edits < MaxEdits /\ elem[0].start = 0 /\ edits' = edits + 1
Flags(ins, nolines) == [ins |-> ins, nolines |-> nolines, replace |-> FALSE]
Replacing == [ins |-> FALSE, nolines |-> TRUE, replace |-> TRUE]
Lengthened(e, i, shift) == [e EXCEPT ![i].length = @ + shift]

\* x_ParseDoc, for Load and SetDoc.
SetDoc(d) ==
  /\ edits = 0 /\ doc' = d /\ elem' = ParseDoc(d)
  /\ cursor' = Pos(0, 0, 0) /\ ReleaseMaps
  /\ UNCHANGED edits

\* x_AddElem: an empty element or one with text, at the main position or (child)
\* at the child position of the main one.
AddElem(name, withText, ins, child) ==
  LET i      == FreePos(elem)
      parent == IF child THEN cursor.main ELSE cursor.parent
      before == IF child THEN cursor.child ELSE cursor.main
      meta   == IF withText THEN <<Open(name), Gt, Text, Close(name), Gt>>
                ELSE <<Open(name), Slash, Gt>>
      new    == Inserted(doc, elem, parent, before, IF child THEN NoNode ELSE Here,
                         meta, Flags(ins, FALSE))
      e      == [Blank EXCEPT !.start = new.start, !.length = Len(meta),
                              !.stl = IF withText THEN 2 ELSE 3,
                              !.etl = IF withText THEN 2 ELSE 0]
  IN /\ Edit /\ (child => cursor.main # 0)
     /\ doc' = new.doc
     /\ elem' = Adjusted(Linked(new.elem @@ (i :> e), parent, new.rel, i), i, new.shift, FALSE)
     /\ cursor' = IF child THEN Pos(cursor.parent, parent, i) ELSE Pos(parent, i, 0)
     /\ UNCHANGED <<table, wanted>>

\* x_CreateNode
CreateNode(type, data) ==
  CASE type = "comment" -> <<Comment>>
    [] type = "endtag"  -> <<Close(CHOOSE n \in ElemName : TRUE), Gt>>
    [] OTHER            -> data

\* x_SetData on a node that is not an element. Bound: not with an empty text, which
\* leaves a current node without length whose offset nothing keeps (README).
SetNodeData(data) ==
  LET new   == CreateNode(cursor.type, data)
      shift == Len(new) - cursor.len
  IN /\ Edit /\ cursor.len # 0
     /\ doc' = Replaced(doc, cursor.off, cursor.len, new)
     /\ elem' = AdjustedForNode(elem, cursor.parent, cursor.main, shift)
     /\ cursor' = [cursor EXCEPT !.len = Len(new)]
     /\ UNCHANGED <<table, wanted>>

\* x_SetData on an element without children: SetData and SetChildData.
SetData(i, data) ==
  LET new == Inserted(doc, elem, i, 0, NoNode, data, Replacing)
  IN /\ Edit /\ i # 0 /\ elem[i].child = 0
     /\ ~(i = cursor.main /\ cursor.len # 0)
     /\ doc' = new.doc
     /\ elem' = Lengthened(Adjusted(new.elem, i, new.shift, FALSE), i, new.shift)
     /\ UNCHANGED <<cursor, table, wanted>>

\* The elements of a parsed list move by shift places, to where they were inserted.
Placed(e, root, shift) ==
  [Adjusted(e, root, shift, FALSE) EXCEPT ![root].start = @ + shift]

\* x_SetElemContent
SetElemContent(content) ==
  LET i     == cursor.main
      kids  == ToSet(Below(elem, i))
      freed == Released(elem, kids)
      v     == FreePos(elem)
      owned(e, list) == [j \in DOMAIN e |-> IF j \in list THEN [e[j] EXCEPT !.parent = i] ELSE e[j]]
  IN /\ Edit /\ i # 0 /\ cursor.len = 0
     /\ \E parsed \in {ParseElem(freed @@ (v :> Blank), v, content)} :
        \E new \in {Inserted(doc, parsed.elem, i, 0, NoNode, content, Replacing)} :
        \E e \in {[Placed(new.elem, parsed.root, new.start) EXCEPT ![i].child = parsed.root]} :
          /\ doc' = new.doc
          /\ elem' = Lengthened(Adjusted(Released(owned(e, ToSet(Chain(e, parsed.root))), {v}),
                                         i, new.shift, TRUE), i, new.shift)
     /\ cursor' = Pos(cursor.parent, i, 0)
     /\ IF kids # {} THEN CheckSaved(freed) ELSE UNCHANGED <<table, wanted>>

\* Links the elements of a list one after the other.
RECURSIVE LinkedAll(_, _, _, _)
LinkedAll(e, parent, before, list) ==
  IF list = <<>> THEN e
  ELSE LinkedAll(Linked(e, parent, before, Head(list)), parent, Head(list), Tail(list))

\* x_AddSubDoc, for a subdocument with an element.
AddSubDoc(sub, ins, child) ==
  LET parent == IF child THEN cursor.main ELSE cursor.parent
      before == IF child THEN cursor.child ELSE cursor.main
      v      == FreePos(elem)
  IN /\ Edit /\ (child => cursor.main # 0)
     /\ \E parsed \in {ParseElem(elem @@ (v :> Blank), v, sub)} :
          LET e    == parsed.elem
              root == parsed.root
              last == e[root].prev
              well == ~e[v].illformed
              from == IF well THEN e[root].start ELSE 0
              meta == IF well THEN SubSeq(sub, from + 1, StartAfter(e[last])) ELSE sub
          IN /\ \E new \in {Inserted(doc, e, parent, before, IF child THEN NoNode ELSE Here,
                                     meta, Flags(ins, ~well))} :
                \E placed \in {Placed(new.elem, root, new.start - from)} :
                  /\ doc' = new.doc
                  /\ elem' = Adjusted(Released(LinkedAll(placed, parent, new.rel,
                                                         Chain(placed, root)), {v}),
                                      last, new.shift, TRUE)
             /\ cursor' = IF child THEN Pos(cursor.parent, parent, root)
                          ELSE Pos(cursor.parent, root, 0)
     /\ UNCHANGED <<table, wanted>>

\* x_RemoveElem: the element and the white space up to the next tag.
Removal(i) ==
  LET n == WhitespaceToTag(doc, StartAfter(elem[i])) - elem[i].start
      e == Unlinked(Adjusted(elem, i, -n, TRUE), i)
  IN /\ doc' = Replaced(doc, elem[i].start, n, <<>>)
     /\ elem' = e /\ CheckSaved(e)

RemoveElem ==
  /\ Edit /\ cursor.main # 0 /\ AtElement
  /\ Removal(cursor.main)
  /\ cursor' = Pos(cursor.parent, Previous(elem, cursor.main), 0)

RemoveChildElem ==
  /\ Edit /\ cursor.child # 0
  /\ Removal(cursor.child)
  /\ cursor' = Pos(cursor.parent, cursor.main, Previous(elem, cursor.child))

\* x_AddNode: comments get a line of their own, text does not.
AddNode(type, ins) ==
  LET meta == CreateNode(type, <<Text>>)
      new  == Inserted(doc, elem, cursor.parent, cursor.main, Here, meta,
                       Flags(ins, type # "comment"))
  IN /\ Edit
     /\ doc' = new.doc
     /\ elem' = AdjustedForNode(new.elem, cursor.parent, new.rel, new.shift)
     /\ cursor' = [parent |-> cursor.parent, main |-> new.rel, child |-> 0,
                   off |-> new.start, len |-> new.len, type |-> type]
     /\ UNCHANGED <<table, wanted>>

\* An element as a node. Bound: not in a pair of tags without content; the line
\* x_InsertNew puts in front of it there is missing from its offset (README).
AddElemNode(name, ins) ==
  LET i    == FreePos(elem)
      meta == <<Open(name), Slash, Gt>>
      new  == Inserted(doc, elem, cursor.parent, cursor.main, Here, meta, Flags(ins, TRUE))
      e    == [Blank EXCEPT !.start = new.start, !.stl = 3, !.length = 3]
      tags == cursor.parent # 0 /\ ContentLen(elem[cursor.parent]) = 0
                /\ ~IsEmptyElement(elem[cursor.parent])
  IN /\ Edit /\ ~tags
     /\ doc' = new.doc
     /\ elem' = AdjustedForNode(Linked(new.elem @@ (i :> e), cursor.parent, new.rel, i),
                                cursor.parent, i, new.shift)
     /\ cursor' = Pos(cursor.parent, i, 0)
     /\ UNCHANGED <<table, wanted>>

\* The node that ends where p begins, scanned for from q on.
RECURSIVE NodeBefore(_, _, _)
NodeBefore(q, p, node) ==
  IF q >= p THEN node ELSE NodeBefore(q + ParseNode(doc, q).len, p, ParseNode(doc, q))

\* RemoveNode and x_RemoveNode: the node before it becomes the current one.
RemoveNode ==
  LET i    == cursor.main
      prev == IF AtElement THEN Previous(elem, i) ELSE i
      off  == IF AtElement THEN elem[i].start ELSE cursor.off
      len  == IF AtElement THEN elem[i].length ELSE cursor.len
      e    == IF AtElement THEN Unlinked(elem, i) ELSE elem
      from == IF prev # 0 THEN StartAfter(elem[prev])
              ELSE IF cursor.parent # 0 THEN StartContent(elem[cursor.parent]) ELSE 0
      node == NodeBefore(from, off, [type |-> "none", start |-> from, len |-> 0])
  IN /\ Edit /\ (i # 0 \/ cursor.len # 0)
     /\ doc' = Replaced(doc, off, len, <<>>)
     /\ elem' = AdjustedForNode(e, cursor.parent, prev, -len)
     /\ cursor' = IF node.start = off
                    THEN [Pos(cursor.parent, prev, 0) EXCEPT
                            !.type = IF prev # 0 THEN "element" ELSE node.type]
                    ELSE [parent |-> cursor.parent, main |-> prev, child |-> 0,
                          off |-> node.start, len |-> off - node.start, type |-> node.type]
     /\ IF AtElement THEN CheckSaved(e) ELSE UNCHANGED <<table, wanted>>

\* x_SetAttrib: a new attribute goes in front of the end of the start tag.
SetAttrib(i, k) ==
  LET e   == elem[i]
      at  == e.start + e.stl - (IF At(doc, e.start + e.stl - 2) = "/" THEN 2 ELSE 1)
      has == \E p \in e.start..at : At(doc, p) = "@" /\ Name(doc, p) = k
  IN /\ Edit /\ i # 0 /\ AtElement /\ ~has
     /\ doc' = Replaced(doc, at, 0, <<Attr(k)>>)
     /\ elem' = Adjusted([elem EXCEPT ![i].stl = @ + 1, ![i].length = @ + 1], i, 1, FALSE)
     /\ UNCHANGED <<cursor, table, wanted>>

---------------------------------------------------------------------------
(* Saving the current position and going back to it. *)

SavePos(name) ==
  LET kind == IF cursor.child # 0 THEN "child" ELSE IF cursor.main # 0 THEN "main" ELSE "parent"
      pos  == IF kind = "child" THEN cursor.child
              ELSE IF kind = "main" THEN cursor.main ELSE cursor.parent
  IN Edit /\ Saved(name, pos, kind) /\ UNCHANGED <<doc, elem, cursor>>

RestorePos(name) ==
  LET k == Lookup(table, name)
      i == table[k].pos
      p == elem[i].parent
  IN k # 0 /\ Moved(CASE table[k].kind = "child" -> Pos(elem[p].parent, p, i)
                      [] table[k].kind = "main"  -> Pos(p, i, 0)
                      [] OTHER                   -> Pos(i, 0, 0))

---------------------------------------------------------------------------
TreeInit ==
  /\ doc = <<>> /\ elem = ParseDoc(<<>>) /\ cursor = Pos(0, 0, 0)
  /\ SavedInit /\ edits = 0

Moves ==
  \/ \E n \in ElemName \cup {AnyName} : FindElem(n) \/ FindChildElem(n)
  \/ IntoElem \/ OutOfElem \/ ResetPos \/ ResetMainPos \/ ResetChildPos
  \/ \E t \in {"comment", "text", "white", "endtag", AnyName} : FindNode(t)
  \/ \E n \in PosName : RestorePos(n)

Edits ==
  \/ \E n \in ElemName, x, ins, child \in BOOLEAN : AddElem(n, x, ins, child)
  \/ \E s \in SubDocs, ins, child \in BOOLEAN : AddSubDoc(s, ins, child)
  \/ \E t \in {"comment", "text"}, ins \in BOOLEAN : AddNode(t, ins)
  \/ \E n \in ElemName, ins \in BOOLEAN : AddElemNode(n, ins)
  \/ \E x \in {<<Text>>, <<Text, Text>>} : SetNodeData(x)
  \/ \E x \in {<<>>, <<Text>>} : SetData(cursor.main, x) \/ SetData(cursor.child, x)
  \/ \E c \in Contents : SetElemContent(c)
  \/ SetAttrib(cursor.main, "k") \/ SetAttrib(cursor.child, "k")
  \/ RemoveElem \/ RemoveChildElem \/ RemoveNode
  \/ \E n \in PosName : SavePos(n)

TreeNext == Moves \/ Edits \/ \E d \in Docs : SetDoc(d)

---------------------------------------------------------------------------
(* Properties. *)

\* The current position is one of elements that are in the document: the main one
\* is a child of the parent, the child one of the main one, whatever was removed.
TreeTypeOK ==
  /\ {cursor.parent, cursor.main, cursor.child} \subseteq ToSet(Below(elem, 0)) \cup {0}
  /\ cursor.main # 0 => elem[cursor.main].parent = cursor.parent
  /\ cursor.child # 0 => elem[cursor.child].parent = cursor.main
  /\ cursor.off \in 0..Len(doc) /\ cursor.len \in 0..Len(doc)
  /\ DOMAIN elem = 0..FreePos(elem) - 1
  /\ edits \in 0..MaxEdits

\* The children of i are a ring backwards and a list forwards, and the first is marked.
Ring(i) ==
  LET kids == Children(elem, i)
      n    == Len(kids)
  IN \A k \in 1..n :
       /\ elem[kids[k]].parent = i /\ ~elem[kids[k]].deleted
       /\ elem[kids[k]].first = (k = 1)
       /\ elem[kids[k]].prev = kids[IF k = 1 THEN n ELSE k - 1]

\* However a well-formed document was edited, the index corrected in place is the one a
\* new parse would make: each element once, in the order of the text, at its offsets,
\* under the element around it, well linked (x_Adjust, x_LinkElem, x_UnlinkElem).
IndexAgrees ==
  LET ref == Reference(doc)
      all == Below(elem, 0)
      reached == ToSet(all)
      around(i) == {j \in reached : Encloses(elem[j], elem[i])}
  IN ~elem[0].illformed /\ ref.balanced =>
       /\ elem[0].length = Len(doc)
       /\ {ExtentOf(elem[i]) : i \in reached} = ref.extents
       /\ \A k \in 1..Len(all) - 1 : elem[all[k]].start < elem[all[k + 1]].start
       /\ \A i \in reached :
            LET p == elem[i].parent
            IN IF around(i) = {} THEN p = 0
               ELSE p \in around(i) /\ \A j \in around(i) : elem[j].start <= elem[p].start
       /\ \A i \in reached \cup {0} : Ring(i)
=============================================================================
