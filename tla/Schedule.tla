------------------------------ MODULE Schedule ------------------------------
(***************************************************************************)
(* The arithmetic of times: which part of a policy's text becomes a span   *)
(* (string_split, getTimeSpan, processPolicy), and when a span covers a    *)
(* time (TIMEPOINT, dispatchTask).                                         *)
(*                                                                         *)
(* A text is a sequence of tokens: a number, or one of the separators and  *)
(* other characters below, which are given as negative numbers.            *)
(***************************************************************************)
EXTENDS Integers, Sequences, FiniteSets

Dash  == -1   \* "-" between the two ends of a span
Colon == -2   \* ":" inside a time
Other == -3   \* any text that is not a number

---------------------------------------------------------------------------
(* Texts. *)

\* Where the separators are, with the two ends of the text; in a text that
\* ends in a separator the empty piece behind it is not pushed.
Cuts(s, sep) ==
  {i \in 0..Len(s) + 1 : i \in {0, Len(s) + 1} \/ s[i] = sep}
    \ (IF s = <<>> \/ s[Len(s)] = sep THEN {Len(s) + 1} ELSE {})

\* string_split: the pieces between each two neighbouring cuts.
CutAt(cuts, n) ==
  CHOOSE c \in cuts : Cardinality({k \in cuts : k < c}) = n - 1
Split(s, sep) ==
  LET cuts == Cuts(s, sep)
  IN  [n \in 1..Cardinality(cuts) - 1 |->
         SubSeq(s, CutAt(cuts, n) + 1, CutAt(cuts, n + 1) - 1)]

\* std::stoi of a piece; an empty piece or one without a number throws.
Stoi(piece) == piece[1]
StoiThrowsEmpty(piece) == piece = <<>>
StoiThrows(piece) == piece = <<>> \/ piece[1] < 0

\* The two ends of an entry, and the three parts of each.
Ends(e) == Split(e, Dash)
Parts(end) == Split(end, Colon)

\* getTimeSpan passes over an entry that has not the form h:m:s-h:m:s.
WellFormed(e) ==
  Len(Ends(e)) = 2 /\ \A i \in 1..2 : Len(Parts(Ends(e)[i])) = 3

TimePoint(end) ==
  [hour |-> Stoi(Parts(end)[1]), minute |-> Stoi(Parts(end)[2]),
   seconds |-> Stoi(Parts(end)[3])]

SpanThrows(e) ==
  \E i \in 1..2 : \E n \in 1..3 : StoiThrows(Parts(Ends(e)[i])[n])

\* The spans of a day. dispatchTask looks for any that covers the time: they
\* are a set.
Span(e) == [from |-> TimePoint(Ends(e)[1]), to |-> TimePoint(Ends(e)[2])]
TimeSpans(entries) ==
  {Span(entries[i]) : i \in {n \in 1..Len(entries) : WellFormed(entries[n])}}

TimeSpansThrow(entries) ==
  \E i \in 1..Len(entries) : WellFormed(entries[i]) /\ SpanThrows(entries[i])

\* tm_wday, and the names processPolicy looks for.
DayNames == <<"sun", "monday", "tuesday", "wednesday", "thursday", "friday",
              "saturday">>
WeekDays == 0..6
DayName(d) == DayNames[d + 1]

\* processPolicy skips a policy whose week has not seven members; among seven,
\* a day that no name fits gets no span.
PolicyTaken(week) == Cardinality(DOMAIN week) = 7
Entries(week, d) == IF DayName(d) \in DOMAIN week THEN week[DayName(d)] ELSE <<>>
Weeks(week) == [d \in WeekDays |-> TimeSpans(Entries(week, d))]

---------------------------------------------------------------------------
(* Times of the day. *)

Value(t) == t.hour * 3600 + t.minute * 60 + t.seconds

CoversClosed(span, t) == Value(span.from) <= Value(t) /\ Value(t) <= Value(span.to)
Covers(span, t) == Value(span.from) <= Value(t) /\ Value(t) < Value(span.to)

\* dispatchTask: bStart.
InSpan(weeks, now) ==
  \E span \in weeks[now.wday] : Covers(span, now)

\* demo(): from the next minute on, for two minutes. The minutes are not
\* carried into the hour.
DemoSpan(now) ==
  [from |-> [hour |-> now.hour, minute |-> now.minute + 1, seconds |-> 0],
   to   |-> [hour |-> now.hour, minute |-> now.minute + 3, seconds |-> 0]]
=============================================================================
