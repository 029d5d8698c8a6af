----------------------------- MODULE Timetable -----------------------------
(***************************************************************************)
(* The dispatcher against the clock: a task with the spans of its policy   *)
(* (text of the web side, or the demo's span), getTaskTime and the two     *)
(* outcomes of dispatchTask for it. localtime returns one static buffer:   *)
(* the main thread, the log lines of every thread and the recycle thread   *)
(* (for the times of files) all fill it, nothing guards it, and            *)
(* getTaskTime takes its fields from it one after the other.               *)
(* Line numbers are those of src/server_manager.cpp.                       *)
(***************************************************************************)
EXTENDS Schedule

CONSTANTS
  Week,    \* week members of a policy: for each name a sequence of entries
  Instant  \* the times the clock goes through, as a sequence

ASSUME InstantAssumption ==
  \A i \in 1..Len(Instant) :
    /\ Instant[i].wday \in WeekDays /\ Instant[i].hour \in 0..23
    /\ Instant[i].minute \in 0..59 /\ Instant[i].seconds \in 0..59

\* Entries are texts, sequences of tokens.
ASSUME WeekAssumption ==
  \A w \in Week : \A day \in DOMAIN w : w[day] \in Seq(Seq(Int))

VARIABLES
  plan,    \* where the spans come from: a week of Week, or the demo's start
  spans,   \* TASKOBJECT::weeks
  shown,   \* the time in localtime's buffer
  step,    \* main thread: "clock" before getTaskTime, "read" after localtime
  got,     \* getTaskTime: the fields read so far
  record,  \* does the dispatcher want the task recorded (child # 0)?
  asked,   \* history: the time at which the main thread called localtime
  kept     \* history: "no" once a thread has filled the buffer with another time

timeVars == <<plan, spans, shown, step, got, record, asked, kept>>

Time == 1..Len(Instant)

---------------------------------------------------------------------------
\* createTask copies the weeks of the policy into the task. A text at which
\* stoi throws ends the thread that reads it, and with it the server.
TextPlan ==
  \E w \in Week :
    /\ PolicyTaken(w)
    /\ \A d \in WeekDays : ~TimeSpansThrow(Entries(w, d))
    /\ plan = [week |-> w, demo |-> 0] /\ spans = Weeks(w)

\* demo gives all days the same span.
DemoPlan ==
  \E i \in Time :
    /\ plan = [week |-> <<>>, demo |-> i]
    /\ spans = [d \in WeekDays |-> {DemoSpan(Instant[i])}]

TimetableInit ==
  /\ TextPlan \/ DemoPlan
  /\ shown \in Time /\ step = "clock" /\ got = <<>>
  /\ record = FALSE /\ asked = shown /\ kept = "yes"

\* getTaskTime: localtime fills the buffer with the present time.
ReadClock ==
  /\ step = "clock"
  /\ \E now \in Time : shown' = now /\ asked' = now
  /\ step' = "read" /\ kept' = "yes"
  /\ UNCHANGED <<plan, spans, got, record>>

\* The fields, in the order in which getTaskTime reads them.
Fields == <<"hour", "minute", "seconds", "wday">>
ReadField ==
  /\ step = "read" /\ Len(got) < 4
  /\ got' = Append(got, Instant[shown][Fields[Len(got) + 1]])
  /\ UNCHANGED <<plan, spans, shown, step, record, asked, kept>>

\* dispatchTask starts or stops the task by the time that was read.
TaskTime == [hour |-> got[1], minute |-> got[2], seconds |-> got[3], wday |-> got[4]]
Dispatch ==
  /\ step = "read" /\ Len(got) = 4
  /\ record' = InSpan(spans, TaskTime) /\ step' = "clock" /\ got' = <<>>
  /\ UNCHANGED <<plan, spans, shown, asked, kept>>

\* printLog and getCurrentTime in any thread, with the time or, when the thread
\* was held up, an earlier one; recursionFile with the time of a file. As any time
\* may follow any other between two reads, so may the fields of a fill under way.
FillBuffer(i) ==
  /\ shown' = i /\ kept' = IF i = asked THEN kept ELSE "no"
  /\ UNCHANGED <<plan, spans, step, got, record, asked>>

TimetableNext == ReadClock \/ ReadField \/ Dispatch \/ \E i \in Time : FillBuffer(i)

TimetableSpec == TimetableInit /\ [][TimetableNext]_timeVars

---------------------------------------------------------------------------
(* Properties. *)

Point == [hour : Nat, minute : Nat, seconds : Nat]

\* Types; the spans of a task have numbers in all their places.
TimetableTypeOK ==
  /\ plan.demo \in 0..Len(Instant)
  /\ \A d \in WeekDays : \A span \in spans[d] : span.from \in Point /\ span.to \in Point
  /\ shown \in Time /\ asked \in Time
  /\ step \in {"clock", "read"} /\ record \in BOOLEAN /\ kept \in {"yes", "no"}
  /\ got \in Seq(Nat) /\ Len(got) <= 4

\* Is time a before time b of the same day?
Before(a, b) ==
  \/ a[1] < b[1]
  \/ a[1] = b[1] /\ a[2] < b[2]
  \/ a[1] = b[1] /\ a[2] = b[2] /\ a[3] < b[3]

\* An entry as a reader of the policy takes it: h:m:s-h:m:s with numbers,
\* from the first time on until just before the second.
Readable(e) ==
  /\ Len(e) = 11 /\ \A i \in {1, 3, 5, 7, 9, 11} : e[i] >= 0
  /\ e[6] = Dash /\ \A i \in {2, 4, 8, 10} : e[i] = Colon
Includes(e, t) ==
  LET now == <<t.hour, t.minute, t.seconds>>
  IN  ~Before(now, <<e[1], e[3], e[5]>>) /\ Before(now, <<e[7], e[9], e[11]>>)

Minutes(t) == t.hour * 60 + t.minute

\* What is to be recorded at instant i. The demo records the two minutes after
\* the one it starts in, as far as they are of the same day.
Configured(i) ==
  LET t == Instant[i]
      day == Entries(plan.week, t.wday)
  IN  \/ plan.demo # 0 /\ Minutes(t) - Minutes(Instant[plan.demo]) \in {1, 2}
      \/ plan.demo = 0 /\ \E n \in 1..Len(day) : Readable(day[n]) /\ Includes(day[n], t)

\* A round of the dispatcher during which no thread fills the buffer with another
\* time leaves the task recorded exactly when the policy says so for the time at
\* which the round began: from text to kill, no second is lost or added at the
\* ends of a span, between two spans or at midnight (852).
RecordsAsConfigured ==
  [][step = "read" /\ step' = "clock" /\ kept = "yes" => record' = Configured(asked)]_timeVars
=============================================================================
