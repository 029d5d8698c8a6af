-------------------------- MODULE SavedPositions --------------------------
(***************************************************************************)
(* Saved positions of CMarkup (src/markup.cpp): SavePos stores a position  *)
(* under a name, RestorePos finds it again. The entries of one slot of the *)
(* hash table are an array that ends at a mark, the used ones in front;    *)
(* removing elements takes their positions out and closes the gaps.        *)
(* MarkupTree is built on these actions.                                   *)
(***************************************************************************)
EXTENDS Integers, Sequences, FiniteSets

CONSTANT PosName \* names of saved positions

VARIABLES
  table,  \* the entries of one slot: a SavedPos array or <<>>
  wanted  \* what each name was last saved as, while its element exists

savedVars == <<table, wanted>>

Kinds == {"parent", "main", "child"}

\* SavedPos: what its constructor makes, and a new array of n of them.
SavedPos == [name |-> "", pos |-> 0, kind |-> "parent", used |-> FALSE, last |-> FALSE]
NewTable(n) == [k \in 1..n |-> [SavedPos EXCEPT !.last = (k = n)]]

\* No loop over the entries goes on behind the mark.
Reached(t, k) == \A j \in 1..k - 1 : ~t[j].last

\* The entry of the name, or the first free one; 0 when the array is full.
SlotFor(t, name) ==
  LET fit == {k \in DOMAIN t : Reached(t, k) /\ (~t[k].used \/ t[k].name = name)}
  IN IF fit = {} THEN 0 ELSE CHOOSE k \in fit : \A j \in fit : k <= j

\* A full array is copied into a larger one.
Room(t) ==
  IF t = <<>> THEN NewTable(2)
  ELSE [k \in 1..2 * (Len(t) + 5) |->
         IF k <= Len(t) THEN [t[k] EXCEPT !.last = FALSE] ELSE NewTable(2 * (Len(t) + 5))[k]]

Saved(name, pos, kind) ==
  LET t == IF SlotFor(table, name) = 0 THEN Room(table) ELSE table
      k == SlotFor(t, name)
  IN /\ table' = [t EXCEPT ![k] = [name |-> name, pos |-> pos, kind |-> kind,
                                   used |-> TRUE, last |-> t[k].last]]
     /\ wanted' = [n \in DOMAIN wanted \cup {name} |->
                     IF n = name THEN [pos |-> pos, kind |-> kind] ELSE wanted[n]]

\* The entry of the name, in front of the first free one; 0 if there is none.
Lookup(t, name) ==
  LET fit == {k \in DOMAIN t : /\ t[k].name = name /\ Reached(t, k)
                               /\ \A j \in 1..k : t[j].used}
  IN IF fit = {} THEN 0 ELSE CHOOSE k \in fit : TRUE

---------------------------------------------------------------------------
(* x_CheckSavedPos takes out the entries of elements that are gone: the    *)
(* k-th entry that stays moves to place k, the mark does not move.         *)

Freed(entry) == [entry EXCEPT !.used = FALSE]
Staying(t, gone) == {k \in DOMAIN t : t[k].used /\ t[k].pos \notin gone}

\* How many of the entries in S are among the first k: nSavedPosCount.
CountTo(S, k) == Cardinality({j \in S : j <= k})

CompactedInPlace(t, gone) ==
  [k \in DOMAIN t |-> IF k \in Staying(t, gone) THEN t[k] ELSE Freed(t[k])]
Compacted(t, gone) ==
  LET stay == Staying(t, gone)
  IN [k \in DOMAIN t |->
       IF k \in 1..Cardinality(stay)
         THEN [t[CHOOSE o \in stay : CountTo(stay, o) = k] EXCEPT !.last = t[k].last]
       ELSE Freed(t[k])]

StillWanted(gone) == [n \in {m \in DOMAIN wanted : wanted[m].pos \notin gone} |-> wanted[n]]
CheckSavedPos(gone) == table' = Compacted(table, gone) /\ wanted' = StillWanted(gone)

\* x_ParseDoc: a new document, without saved positions.
ReleaseMaps == table' = <<>> /\ wanted' = <<>>

---------------------------------------------------------------------------
SavedInit == table = <<>> /\ wanted = <<>>

\* Any position can be saved under any name, and any elements be removed.
SavedNext ==
  \/ \E n \in PosName, pos \in Nat, kind \in Kinds : Saved(n, pos, kind)
  \/ \E gone \in SUBSET Nat : CheckSavedPos(gone)
  \/ ReleaseMaps

SavedSpec == SavedInit /\ [][SavedNext]_savedVars

---------------------------------------------------------------------------
(* Properties. *)

\* RestorePos finds what SavePos last stored under a name as long as that element is in
\* the document, and nothing afterwards, whichever other names came and went; and the
\* array has its mark at its end, where every loop over it stops.
SavedAgree ==
  /\ \A k \in DOMAIN table : table[k].last = (k = Len(table))
  /\ \A n \in PosName :
       LET k == Lookup(table, n)
       IN IF n \in DOMAIN wanted
            THEN k # 0 /\ table[k].pos = wanted[n].pos /\ table[k].kind = wanted[n].kind
            ELSE k = 0
=============================================================================
