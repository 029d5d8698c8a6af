------------------------- MODULE NoticeCalls_proofs -------------------------
(***************************************************************************)
(* Whoever gets a result over the shared connection gets its own, for any  *)
(* number of callers: CallSpec => []OwnAnswer. That two callers have not   *)
(* the same sequence number is not enough: a reply on its way, or one that *)
(* waits for its caller, must already be known to be of a call that was    *)
(* handled with the command of the caller with that number (Sound), and a  *)
(* call on its way to carry that command (CallsSound). And the types of    *)
(* the calls with the mutual exclusion they state, and of the process and  *)
(* the calls together as MCServer runs them: MCSpec => []ServerTypeOK.     *)
(***************************************************************************)
EXTENDS MCServer, ServerLife_proofs, ConfigSync_proofs, TLAPS

\* Where a caller can be.
Places == {"idle", "send", "write", "lock", "get", "take", "read",
           "check", "sleep", "wait", "over"}

\* What can be on its way to a caller, and what can be its answer.
Message == [seqid : Nat, type : {"none", "dead", "reply", "exception"},
            fields : {<<>>, Result}]

\* A reply with the result of a call is of a caller sq knows the number of,
\* and that caller's command was handled.
Sound(m, sq, h) ==
  m.type = "reply" =>
    \E d \in Caller : m.seqid = sq[d] /\ sq[d] # 0 /\ [seqid |-> sq[d], cmd |-> d] \in h

\* Numbers are given once; who has none has no answer and does not call.
Numbered ==
  /\ at \in [Caller -> Places] /\ answer \in [Caller -> Message]
  /\ nextSeq \in Nat \ {0} /\ seqid \in [Caller -> Nat]
  /\ \A c \in Caller : seqid[c] < nextSeq
  /\ \A c \in Caller : at[c] = "idle" => seqid[c] = 0 /\ answer[c] = Dead
  /\ \A c \in Caller : at[c] \notin {"idle", "over"} => seqid[c] # 0
  /\ \A c, d \in Caller : seqid[c] = seqid[d] /\ seqid[c] # 0 => c = d

\* Calls carry the command of their caller.
CallsSound ==
  \A m \in calls : \E d \in Caller :
    m = [seqid |-> seqid[d], fields |-> Args(d)] /\ seqid[d] # 0

\* What was answered and has not been returned.
RepliesSound ==
  /\ replies \in Seq(Message) /\ pending \in Message
  /\ \A i \in 1..Len(replies) : Sound(replies[i], seqid, handled)
  /\ Sound(pending, seqid, handled)

AnswersSound ==
  \A c \in Caller : answer[c].type = "reply" =>
    answer[c].seqid = seqid[c] /\ [seqid |-> seqid[c], cmd |-> c] \in handled

CallInv == Numbered /\ CallsSound /\ RepliesSound /\ AnswersSound

\* A step leaves the answers sound: who is idle was so, and what was returned is of
\* its own call.
Kept ==
  /\ answer' \in [Caller -> Message] /\ at' \in [Caller -> Places]
  /\ \A d \in Caller : at'[d] = "idle" => at[d] = "idle" /\ answer'[d] = answer[d]
  /\ \A d \in Caller : at'[d] \notin {"idle", "over"} => at[d] \notin {"idle", "over"}
  /\ \A d \in Caller : answer'[d].type = "reply" =>
       answer'[d].seqid = seqid[d] /\ [seqid |-> seqid[d], cmd |-> d] \in handled

---------------------------------------------------------------------------
\* The message constants are messages.
LEMMA Constants == NoMessage \in Message /\ Dead \in Message
  BY DEF NoMessage, Dead, Message

\* The processor reads from a call the command its caller wrote.
LEMMA CommandRead ==
  ASSUME NEW c \in Caller
  PROVE  Read(Args(c), 1, "string") = c
<1> DEFINE fields == Args(c)
           fits == {i \in DOMAIN fields : Fits(fields[i], 1, "string")}
<1>1. /\ DOMAIN fields = {1, 2}
      /\ fields[1] = [id |-> 1, type |-> "string", val |-> c]
      /\ fields[2].id = 2
  BY SMT DEF Args
<1> HIDE DEF fields
<1>2. Fits(fields[1], 1, "string") /\ ~Fits(fields[2], 1, "string")
  BY <1>1, SMT DEF Fits
<1>3. fits = {1}
  BY <1>1, <1>2
<1>4. (CHOOSE i \in fits : \A j \in fits : j <= i) = 1
  BY <1>3, SMT
<1>5. Read(fields, 1, "string") = fields[CHOOSE i \in fits : \A j \in fits : j <= i].val
  BY Zenon DEF Read
<1>6. fields[1].val = c
  BY <1>1
<1> QED
  BY <1>4, <1>5, <1>6 DEF fields

\* A sound message stays sound while numbers that were given are kept and
\* handled calls are not forgotten.
LEMMA SoundKept ==
  ASSUME NEW m, NEW sq, NEW sr, NEW h, NEW k, Sound(m, sq, h),
         \A d \in Caller : sq[d] # 0 => sr[d] = sq[d], h \subseteq k
  PROVE  Sound(m, sr, k)
  BY DEF Sound

\* A caller that ends with an answer of its own, or none, leaves all answers sound.
LEMMA EndKeeps ==
  ASSUME CallInv, NEW c \in Caller, NEW v \in Message,
         v.type = "reply" => v.seqid = seqid[c] /\ [seqid |-> seqid[c], cmd |-> c] \in handled,
         at' = [at EXCEPT ![c] = "over"], answer' = [answer EXCEPT ![c] = v]
  PROVE  Kept
<1>1. at \in [Caller -> Places] /\ answer \in [Caller -> Message] /\ AnswersSound
  BY DEF CallInv, Numbered
<1>2. answer' \in [Caller -> Message] /\ at' \in [Caller -> Places]
  BY <1>1 DEF Places
<1>3. \A d \in Caller : d # c => answer'[d] = answer[d] /\ at'[d] = at[d]
  BY <1>1
<1>4. answer'[c] = v /\ at'[c] = "over"
  BY <1>1
<1> QED
  BY <1>1, <1>2, <1>3, <1>4 DEF AnswersSound, Kept

\* A caller that throws.
LEMMA ThrowKeeps ==
  ASSUME CallInv, NEW c \in Caller, Throw(c)
  PROVE  Kept
<1>1. at' = [at EXCEPT ![c] = "over"] /\ answer' = [answer EXCEPT ![c] = Dead]
  BY DEF Throw, Leave
<1>2. Dead.type # "reply"
  BY DEF Dead
<1> QED
  BY <1>1, <1>2, EndKeeps, Constants

\* A caller that uses a sound message: it keeps the message or empties the place.
LEMMA UseKeeps ==
  ASSUME CallInv, NEW c \in Caller, NEW m \in Message, Sound(m, seqid, handled),
         at[c] \notin {"idle", "over"}, Use(c, m)
  PROVE  Kept /\ pending' \in {m, NoMessage}
<1> USE DEF CallInv, Numbered
<1>1. CASE Return(c, m)
  <2> DEFINE v == IF Commits(m) THEN m ELSE Dead
  <2>1. /\ at' = [at EXCEPT ![c] = "over"] /\ IsOwn(c, m)
        /\ pending' = NoMessage /\ answer' = [answer EXCEPT ![c] = v]
    BY <1>1 DEF Return, Leave
  <2>2. m.type = "reply" => m.seqid = seqid[c] /\ [seqid |-> seqid[c], cmd |-> c] \in handled
    BY <2>1 DEF Sound, IsOwn
  <2>3. v \in Message /\ (v.type = "reply" => v = m)
    BY Constants DEF Dead
  <2> HIDE DEF v
  <2>4. v.type = "reply" => v.seqid = seqid[c] /\ [seqid |-> seqid[c], cmd |-> c] \in handled
    BY <2>2, <2>3
  <2> QED
    BY <2>1, <2>3, <2>4, EndKeeps
<1>2. CASE HandOver(c, m)
  <2>1. pending' = m /\ at' = [at EXCEPT ![c] = "check"] /\ answer' = answer
    BY <1>2 DEF HandOver
  <2>2. /\ answer' \in [Caller -> Message] /\ at' \in [Caller -> Places]
        /\ \A d \in Caller : at'[d] = at[d] \/ (d = c /\ at'[d] = "check")
    BY <2>1 DEF Places
  <2>3. AnswersSound
    OBVIOUS
  <2> QED
    BY <2>1, <2>2, <2>3 DEF Kept, AnswersSound
<1>3. CASE HandOverThrows(c, m)
  <2>1. pending' = m /\ Throw(c)
    BY <1>3 DEF HandOverThrows
  <2> QED
    BY <2>1, ThrowKeeps
<1> QED
  BY <1>1, <1>2, <1>3 DEF Use

---------------------------------------------------------------------------
\* At the start nothing was sent.
LEMMA CallInitInv == CallInit => CallInv
<1> SUFFICES ASSUME CallInit PROVE CallInv
  OBVIOUS
<1> USE DEF CallInit
<1>1. Numbered
  <2>1. at \in [Caller -> Places] /\ seqid \in [Caller -> Nat] /\ nextSeq \in Nat \ {0}
    BY DEF Places
  <2>2. answer \in [Caller -> Message]
    BY Constants
  <2>3. \A c \in Caller :
          seqid[c] = 0 /\ answer[c] = Dead /\ seqid[c] < nextSeq /\ at[c] = "idle"
    OBVIOUS
  <2> QED
    BY <2>1, <2>2, <2>3 DEF Numbered
<1>2. CallsSound
  BY DEF CallsSound
<1>3. RepliesSound
  BY Constants DEF RepliesSound, Sound, NoMessage
<1>4. AnswersSound
  BY DEF AnswersSound, Dead
<1> QED
  BY <1>1, <1>2, <1>3, <1>4 DEF CallInv

\* Steps in which nobody gets a number.
LEMMA QuietStep ==
  ASSUME CallInv, Kept, UNCHANGED <<seqid, nextSeq>>,
         CallsSound', handled \subseteq handled', RepliesSound'
  PROVE  CallInv'
<1>1. Numbered'
  BY DEF CallInv, Numbered, Kept
<1>2. AnswersSound'
  BY DEF Kept, AnswersSound
<1> QED
  BY <1>1, <1>2 DEF CallInv

\* A caller that only moves on, with what is on its way unchanged.
LEMMA MoveStep ==
  ASSUME CallInv, NEW c \in Caller, NEW x \in Places, x # "idle",
         at[c] \notin {"idle", "over"}, at' = [at EXCEPT ![c] = x],
         UNCHANGED <<seqid, answer, nextSeq, pending, calls, replies, handled>>
  PROVE  CallInv'
<1>1. Kept
  <2>1. at \in [Caller -> Places] /\ answer \in [Caller -> Message] /\ AnswersSound
    BY DEF CallInv, Numbered
  <2>2. /\ at' \in [Caller -> Places]
        /\ \A d \in Caller : at'[d] = at[d] \/ (d = c /\ at'[d] = x)
    BY <2>1
  <2> QED
    BY <2>1, <2>2 DEF AnswersSound, Kept
<1>2. CallsSound' /\ RepliesSound'
  BY DEF CallInv, CallsSound, RepliesSound
<1> QED
  BY <1>1, <1>2, QuietStep

\* A caller that throws and leaves what is on its way alone.
LEMMA ThrowStep ==
  ASSUME CallInv, NEW c \in Caller, Throw(c),
         UNCHANGED <<seqid, nextSeq, pending, calls, replies, handled>>
  PROVE  CallInv'
<1>1. Kept
  BY ThrowKeeps
<1>2. CallsSound' /\ RepliesSound'
  BY DEF CallInv, CallsSound, RepliesSound
<1> QED
  BY <1>1, <1>2, QuietStep

\* A caller gets its number.
LEMMA NumberStep ==
  ASSUME CallInv, NEW c \in Caller, Number(c)
  PROVE  CallInv'
<1> USE DEF CallInv
<1>1. UNCHANGED <<pending, calls, replies, handled>> /\ at[c] = "idle"
  BY DEF Number, wireVars
<1>2. CASE stop
  <2>1. /\ at' = [at EXCEPT ![c] = "over"] /\ answer' = [answer EXCEPT ![c] = Dead]
        /\ UNCHANGED <<seqid, nextSeq>>
    BY <1>2 DEF Number
  <2>2. Kept
    BY <2>1, Constants, EndKeeps DEF Dead
  <2>3. CallsSound' /\ RepliesSound'
    BY <1>1, <2>1 DEF CallsSound, RepliesSound
  <2> QED
    BY <1>1, <2>1, <2>2, <2>3, QuietStep
<1>3. CASE ~stop
  <2>1. /\ at' = [at EXCEPT ![c] = "send"] /\ seqid' = [seqid EXCEPT ![c] = nextSeq]
        /\ nextSeq' = nextSeq + 1 /\ answer' = answer
    BY <1>3 DEF Number
  <2>2. /\ at \in [Caller -> Places] /\ answer \in [Caller -> Message]
        /\ nextSeq \in Nat \ {0} /\ seqid \in [Caller -> Nat]
        /\ \A d \in Caller : seqid[d] < nextSeq
        /\ \A d \in Caller : at[d] = "idle" => seqid[d] = 0 /\ answer[d] = Dead
        /\ \A d \in Caller : at[d] \notin {"idle", "over"} => seqid[d] # 0
        /\ \A d, e \in Caller : seqid[d] = seqid[e] /\ seqid[d] # 0 => d = e
    BY DEF Numbered
  <2>3. seqid'[c] = nextSeq /\ at'[c] = "send"
    BY <2>1, <2>2
  <2>4. \A d \in Caller : d # c => seqid'[d] = seqid[d] /\ at'[d] = at[d]
    BY <2>1, <2>2
  <2>5. Numbered'
    <3>1. at' \in [Caller -> Places] /\ seqid' \in [Caller -> Nat] /\ nextSeq' \in Nat \ {0}
      BY <2>1, <2>2 DEF Places
    <3>2. \A d \in Caller : seqid'[d] < nextSeq'
      BY <2>1, <2>2, <2>3, <2>4
    <3>3. \A d \in Caller : at'[d] = "idle" => seqid'[d] = 0 /\ answer'[d] = Dead
      BY <2>1, <2>2, <2>3, <2>4
    <3>4. \A d, e \in Caller : seqid'[d] = seqid'[e] /\ seqid'[d] # 0 => d = e
      BY <2>2, <2>3, <2>4
    <3>5. \A d \in Caller : at'[d] \notin {"idle", "over"} => seqid'[d] # 0
      BY <2>2, <2>3, <2>4
    <3> QED
      BY <2>1, <2>2, <3>1, <3>2, <3>3, <3>4, <3>5 DEF Numbered
  <2>6. \A d \in Caller : seqid[d] # 0 => seqid'[d] = seqid[d]
    BY <1>1, <2>2, <2>4
  <2>7. CallsSound'
    BY <1>1, <2>6 DEF CallsSound
  <2>8. RepliesSound'
    BY <1>1, <2>6, SoundKept DEF RepliesSound
  <2>9. AnswersSound'
    BY <1>1, <2>1, <2>2, <2>4 DEF AnswersSound, Dead
  <2> QED
    BY <2>5, <2>7, <2>8, <2>9
<1> QED
  BY <1>2, <1>3

\* A caller writes its call.
LEMMA WriteStep ==
  ASSUME CallInv, NEW c \in Caller, Write(c)
  PROVE  CallInv'
<1>1. /\ at' = [at EXCEPT ![c] = "lock"] /\ at[c] = "write"
      /\ UNCHANGED <<seqid, answer, nextSeq, pending, replies, handled>>
      /\ calls' \subseteq calls \cup {[seqid |-> seqid[c], fields |-> Args(c)]}
  BY DEF Write
<1>2. /\ at \in [Caller -> Places] /\ answer \in [Caller -> Message] /\ AnswersSound
      /\ seqid[c] # 0
  BY <1>1 DEF CallInv, Numbered
<1>3. CallsSound'
  BY <1>1, <1>2 DEF CallInv, CallsSound
<1>4. Kept
  <2>1. /\ at' \in [Caller -> Places]
        /\ \A d \in Caller : at'[d] = at[d] \/ (d = c /\ at'[d] = "lock")
    BY <1>1, <1>2 DEF Places
  <2> QED
    BY <1>1, <1>2, <2>1 DEF AnswersSound, Kept
<1>5. RepliesSound'
  BY <1>1 DEF CallInv, RepliesSound
<1> QED
  BY <1>1, <1>3, <1>4, <1>5, QuietStep

\* A caller uses the message that waits, or the next one of the connection.
LEMMA UseStep ==
  ASSUME CallInv, NEW c \in Caller, TakePending(c) \/ ReadMessage(c)
  PROVE  CallInv'
<1>1. CASE TakePending(c)
  <2>1. /\ Use(c, pending) /\ at[c] = "take"
        /\ UNCHANGED <<seqid, nextSeq, calls, replies, handled>>
    BY <1>1 DEF TakePending, wireVars
  <2>2. pending \in Message /\ Sound(pending, seqid, handled)
    BY DEF CallInv, RepliesSound
  <2>3. Kept /\ pending' \in {pending, NoMessage}
    BY <2>1, <2>2, UseKeeps
  <2>4. RepliesSound'
    BY <2>1, <2>3, Constants DEF CallInv, RepliesSound, Sound, NoMessage
  <2>5. CallsSound'
    BY <2>1 DEF CallInv, CallsSound
  <2> QED
    BY <2>1, <2>3, <2>4, <2>5, QuietStep
<1>2. CASE ReadMessage(c)
  <2> DEFINE m == Head(replies)
  <2>1. /\ Use(c, m) /\ at[c] = "read" /\ replies # <<>> /\ replies' = Tail(replies)
        /\ UNCHANGED <<seqid, nextSeq, calls, handled>>
    BY <1>2 DEF ReadMessage
  <2>2. /\ replies \in Seq(Message)
        /\ \A i \in 1..Len(replies) : Sound(replies[i], seqid, handled)
    BY DEF CallInv, RepliesSound
  <2>3. m \in Message /\ m = replies[1] /\ 1 \in 1..Len(replies)
    BY <2>1, <2>2
  <2>4. /\ replies' \in Seq(Message)
        /\ \A i \in 1..Len(replies') :
             i + 1 \in 1..Len(replies) /\ replies'[i] = replies[i + 1]
    BY <2>1, <2>2
  <2>5. Sound(m, seqid, handled)
    BY <2>2, <2>3
  <2> HIDE DEF m
  <2>6. Kept /\ pending' \in {m, NoMessage}
    BY <2>1, <2>3, <2>5, UseKeeps
  <2>7. pending' \in Message /\ Sound(pending', seqid, handled)
    BY <2>3, <2>5, <2>6, Constants DEF Sound, NoMessage
  <2>8. RepliesSound'
    BY <2>1, <2>2, <2>4, <2>7 DEF RepliesSound
  <2>9. CallsSound'
    BY <2>1 DEF CallInv, CallsSound
  <2> QED
    BY <2>1, <2>6, <2>8, <2>9, QuietStep
<1> QED
  BY <1>1, <1>2

\* The server answers a call: the command it read is that of the caller.
LEMMA ReplyStep ==
  ASSUME CallInv, NEW m \in calls, Answer(m) \/ AnswerException(m)
  PROVE  CallInv'
<1>1. PICK r \in Message : r.seqid = m.seqid /\ Reply(m, r)
  <2>1. PICK d \in Caller : m = [seqid |-> seqid[d], fields |-> Args(d)]
    BY DEF CallInv, CallsSound
  <2>2. m.seqid \in Nat
    BY <2>1 DEF CallInv, Numbered
  <2>3. [seqid |-> m.seqid, type |-> "reply", fields |-> Result] \in Message
    BY <2>2 DEF Message
  <2>4. [seqid |-> m.seqid, type |-> "exception", fields |-> <<>>] \in Message
    BY <2>2 DEF Message
  <2> QED
    BY <2>3, <2>4 DEF Answer, AnswerException
<1>2. /\ calls' \subseteq calls /\ replies' = Append(replies, r)
      /\ handled' = handled \cup {[seqid |-> m.seqid, cmd |-> Read(m.fields, 1, "string")]}
      /\ UNCHANGED <<at, seqid, answer, nextSeq, pending>>
  BY <1>1 DEF Reply, callerVars, syncVars
<1>3. PICK d \in Caller : m = [seqid |-> seqid[d], fields |-> Args(d)] /\ seqid[d] # 0
  BY DEF CallInv, CallsSound
<1>4. handled' = handled \cup {[seqid |-> seqid[d], cmd |-> d]}
  BY <1>2, <1>3, CommandRead
<1>5. Sound(r, seqid, handled')
  BY <1>1, <1>3, <1>4 DEF Sound
<1>6. RepliesSound'
  <2>1. /\ replies \in Seq(Message) /\ pending \in Message
        /\ \A i \in 1..Len(replies) : Sound(replies[i], seqid, handled)
        /\ Sound(pending, seqid, handled)
    BY DEF CallInv, RepliesSound
  <2>2. /\ \A i \in 1..Len(replies) : Sound(replies[i], seqid, handled')
        /\ Sound(pending, seqid, handled')
    BY <2>1, <1>4, SoundKept
  <2>3. /\ replies' \in Seq(Message)
        /\ \A i \in 1..Len(replies') :
             (i \in 1..Len(replies) /\ replies'[i] = replies[i]) \/ replies'[i] = r
    BY <2>1, <1>2
  <2> QED
    BY <1>2, <1>5, <2>1, <2>2, <2>3 DEF RepliesSound
<1>7. CallsSound'
  BY <1>2 DEF CallInv, CallsSound
<1>8. Numbered' /\ AnswersSound'
  BY <1>2, <1>4 DEF CallInv, Numbered, AnswersSound
<1> QED
  BY <1>6, <1>7, <1>8 DEF CallInv

---------------------------------------------------------------------------
\* Each step keeps the invariant.
LEMMA CallStep == CallInv /\ [CallNext]_callVars => CallInv'
<1> SUFFICES ASSUME CallInv, [CallNext]_callVars PROVE CallInv'
  OBVIOUS
<1> USE DEF callVars, callerVars, syncVars, wireVars
<1>1. CASE UNCHANGED callVars
  BY <1>1 DEF CallInv, Numbered, CallsSound, RepliesSound, AnswersSound
<1>2. ASSUME NEW c \in Caller, Send(c) PROVE CallInv'
  <2>1. CASE Number(c)
    BY <2>1, NumberStep
  <2>2. CASE LockWrite(c)
    <3>1. /\ at[c] = "send" /\ at' = [at EXCEPT ![c] = "write"]
          /\ UNCHANGED <<seqid, answer, nextSeq, pending, calls, replies, handled>>
      BY <2>2 DEF LockWrite
    <3> QED
      BY <3>1, MoveStep DEF Places
  <2>3. CASE Write(c)
    BY <2>3, WriteStep
  <2>4. CASE WriteThrows(c)
    <3>1. /\ at' = [at EXCEPT ![c] = "over"] /\ answer' = [answer EXCEPT ![c] = Dead]
          /\ UNCHANGED <<seqid, nextSeq, pending, calls, replies, handled>>
      BY <2>4 DEF WriteThrows
    <3>2. Kept
      BY <3>1, Constants, EndKeeps DEF Dead
    <3>3. CallsSound' /\ RepliesSound'
      BY <3>1 DEF CallInv, CallsSound, RepliesSound
    <3> QED
      BY <3>1, <3>2, <3>3, QuietStep
  <2> QED
    BY <1>2, <2>1, <2>2, <2>3, <2>4 DEF Send
<1>3. ASSUME NEW c \in Caller, Receive(c) PROVE CallInv'
  <2>1. CASE LockRead(c)
    <3>1. /\ at[c] = "lock" /\ at' = [at EXCEPT ![c] = "get"]
          /\ UNCHANGED <<seqid, answer, nextSeq, pending, calls, replies, handled>>
      BY <2>1 DEF LockRead
    <3> QED
      BY <3>1, MoveStep DEF Places
  <2>2. CASE GetPending(c)
    <3> DEFINE x == IF pending = NoMessage THEN "read" ELSE "take"
    <3>1. /\ at[c] = "get" /\ at' = [at EXCEPT ![c] = x]
          /\ UNCHANGED <<seqid, answer, nextSeq, pending, calls, replies, handled>>
      BY <2>2 DEF GetPending
    <3>2. x \in Places /\ x # "idle"
      BY DEF Places
    <3> HIDE DEF x
    <3> QED
      BY <3>1, <3>2, MoveStep
  <2>3. CASE GetPendingThrows(c) \/ ReadThrows(c) \/ CheckThrows(c)
    <3>1. Throw(c) /\ UNCHANGED <<seqid, nextSeq, pending, calls, replies, handled>>
      BY <2>3 DEF GetPendingThrows, ReadThrows, CheckThrows
    <3> QED
      BY <3>1, ThrowStep
  <2>4. CASE TakePending(c) \/ ReadMessage(c)
    BY <2>4, UseStep
  <2>5. CASE Check(c)
    <3> DEFINE x == IF wake \/ (pending # NoMessage /\ IsOwn(c, pending))
                    THEN "get" ELSE "sleep"
    <3>1. /\ at[c] = "check" /\ at' = [at EXCEPT ![c] = x]
          /\ UNCHANGED <<seqid, answer, nextSeq, pending, calls, replies, handled>>
      BY <2>5 DEF Check
    <3>2. x \in Places /\ x # "idle"
      BY DEF Places
    <3> HIDE DEF x
    <3> QED
      BY <3>1, <3>2, MoveStep
  <2>6. CASE Sleep(c)
    <3>1. /\ at[c] = "sleep" /\ at' = [at EXCEPT ![c] = "wait"]
          /\ UNCHANGED <<seqid, answer, nextSeq, pending, calls, replies, handled>>
      BY <2>6 DEF Sleep
    <3> QED
      BY <3>1, MoveStep DEF Places
  <2>7. CASE WakeUp(c)
    <3>1. /\ at[c] = "wait" /\ at' = [at EXCEPT ![c] = "check"]
          /\ UNCHANGED <<seqid, answer, nextSeq, pending, calls, replies, handled>>
      BY <2>7 DEF WakeUp
    <3> QED
      BY <3>1, MoveStep DEF Places
  <2> QED
    BY <1>3, <2>1, <2>2, <2>3, <2>4, <2>5, <2>6, <2>7 DEF Receive
<1>4. CASE Served
  BY <1>4, ReplyStep DEF Served
<1>5. CASE Break
  BY <1>5 DEF Break, CallInv, Numbered, CallsSound, RepliesSound, AnswersSound
<1> QED
  BY <1>1, <1>2, <1>3, <1>4, <1>5 DEF CallNext

\* The inductive invariant of the calls, for any set of callers.
THEOREM CallsInvariant == CallSpec => []CallInv
<1> QED
  BY CallInitInv, CallStep, PTL DEF CallSpec

\* Whoever gets a result gets its own, for any number of callers that share the client
\* and any order of the answers (nvrWebService.cpp:446).
THEOREM OwnAnswers == CallSpec => []OwnAnswer
<1>1. CallInv => OwnAnswer
  BY DEF CallInv, Numbered, AnswersSound, OwnAnswer
<1> QED
  BY <1>1, CallsInvariant, PTL

---------------------------------------------------------------------------
(* Types, and who holds which mutex. *)

\* Where a caller holds the read mutex.
Reading == {"get", "take", "read", "check", "sleep"}

\* A step of one caller takes a mutex only if it is free, and gives back its own.
Holds(c, x) ==
  /\ at' = [at EXCEPT ![c] = x]
  /\ writer' = IF x = "write" THEN c ELSE IF at[c] = "write" THEN Nobody ELSE writer
  /\ reader' = IF x \in Reading THEN c ELSE IF at[c] \in Reading THEN Nobody ELSE reader
  /\ x = "write" => writer = Nobody
  /\ x \in Reading => at[c] \in Reading \/ reader = Nobody

\* Before the first call, and after the last, nobody holds a mutex.
LEMMA NobodyTyped ==
  ASSUME NEW x \in {"idle", "over"}, at = [c \in Caller |-> x], seqid = [c \in Caller |-> 0], nextSeq = 1,
         writer = Nobody, reader = Nobody, mapped = {}, awake = {},
         wake = FALSE, stop \in BOOLEAN, broken \in BOOLEAN
  PROVE  CallTypeOK
<1>1. at \in [Caller -> Places] /\ seqid \in [Caller -> Nat]
  BY DEF Places
<1>2. \A c \in Caller : at[c] = x /\ writer # c /\ reader # c
  BY CallerAssumption
<1>3. \A c \in Caller : (at[c] = "write" <=> writer = c) /\ (at[c] \in Reading <=> reader = c)
  BY <1>2 DEF Reading
<1>4. /\ mapped \subseteq 1..nextSeq - 1 /\ awake \subseteq Caller 
      /\ writer \in Caller \cup {Nobody} /\ reader \in Caller \cup {Nobody}
  BY Zenon
<1>5. nextSeq \in Nat \ {0}
  OBVIOUS
<1>6. wake \in BOOLEAN /\ stop \in BOOLEAN /\ broken \in BOOLEAN
  BY Zenon
<1> QED
  BY <1>1, <1>3, <1>4, <1>5, <1>6, Zenon DEF CallTypeOK, Places, Reading

LEMMA MoveTyped ==
  ASSUME CallTypeOK, NEW c \in Caller, NEW x \in Places, Holds(c, x),
         seqid' \in [Caller -> Nat], nextSeq' \in Nat \ {0}, mapped' \subseteq 1..nextSeq' - 1,
         awake' \subseteq Caller, wake' \in BOOLEAN, stop' \in BOOLEAN, broken' \in BOOLEAN
  PROVE  CallTypeOK'
<1>1. /\ at \in [Caller -> Places] /\ Nobody \notin Caller
      /\ writer \in Caller \cup {Nobody} /\ reader \in Caller \cup {Nobody}
      /\ \A d \in Caller : at[d] = "write" <=> writer = d
      /\ \A d \in Caller : at[d] \in Reading <=> reader = d
  BY CallerAssumption DEF CallTypeOK, Places, Reading
<1>2. at'[c] = x /\ \A d \in Caller : d # c => at'[d] = at[d]
  BY <1>1 DEF Holds
<1>3. at' \in [Caller -> Places]
  BY <1>1 DEF Holds
<1>4. writer' \in Caller \cup {Nobody} /\ \A d \in Caller : at'[d] = "write" <=> writer' = d
  BY <1>1, <1>2 DEF Holds
<1>5. reader' \in Caller \cup {Nobody} /\ \A d \in Caller : at'[d] \in Reading <=> reader' = d
  BY <1>1, <1>2 DEF Holds
<1> QED
  BY <1>3, <1>4, <1>5 DEF CallTypeOK, Places, Reading

\* A reader that leaves.
LEMMA LeaveTyped ==
  ASSUME CallTypeOK, NEW c \in Caller, NEW committed \in BOOLEAN, at[c] \in Reading,
         Leave(c, committed), UNCHANGED <<seqid, nextSeq, writer, broken>>
  PROVE  CallTypeOK'
<1>1. Holds(c, "over")
  BY DEF Leave, Holds, Reading
<1>2. mapped' \subseteq 1..nextSeq' - 1 /\ seqid' \in [Caller -> Nat] /\ nextSeq' \in Nat \ {0}
  BY DEF Leave, CallTypeOK
<1>3. awake' \subseteq Caller /\ wake' \in BOOLEAN /\ stop' \in BOOLEAN /\ broken' \in BOOLEAN
  <2>1. wake' \in BOOLEAN /\ stop' \in BOOLEAN /\ broken' \in BOOLEAN
    BY DEF Leave, MarkBad, CallTypeOK
  <2>2. awake' \subseteq Caller
    BY DEF Leave, MarkBad, WaitersOf, CallTypeOK
  <2> QED BY <2>1, <2>2
<1> QED BY <1>1, <1>2, <1>3, MoveTyped DEF Places

LEMMA UseTyped ==
  ASSUME CallTypeOK, NEW c \in Caller, NEW m, at[c] \in Reading, Use(c, m),
         UNCHANGED <<seqid, nextSeq, writer, broken>>
  PROVE  CallTypeOK'
<1>1. CASE Return(c, m)
  <2>1. Commits(m) \in BOOLEAN /\ Leave(c, Commits(m))
    BY <1>1 DEF Return, Commits, IsSet
  <2> QED BY <2>1, LeaveTyped
<1>2. CASE HandOver(c, m)
  <2>1. Holds(c, "check")
    <3>1. reader = c
      BY DEF CallTypeOK, Reading
    <3>2. at[c] # "write"
      BY DEF Reading
    <3> QED BY <1>2, <3>1, <3>2 DEF HandOver, Holds, Reading
  <2>2. awake' \subseteq Caller
    BY <1>2 DEF HandOver, Notified, WaitersOf, CallTypeOK
  <2>3. /\ seqid' \in [Caller -> Nat] /\ nextSeq' \in Nat \ {0} /\ mapped' \subseteq 1..nextSeq' - 1
        /\ wake' \in BOOLEAN /\ stop' \in BOOLEAN /\ broken' \in BOOLEAN
    BY <1>2 DEF HandOver, CallTypeOK
  <2> QED BY <2>1, <2>2, <2>3, MoveTyped DEF Places
<1>3. CASE HandOverThrows(c, m)
  BY <1>3, LeaveTyped DEF HandOverThrows, Throw
<1> QED BY <1>1, <1>2, <1>3 DEF Use

LEMMA CallTypeStep == CallTypeOK /\ [CallNext]_callVars => CallTypeOK'
<1> SUFFICES ASSUME CallTypeOK, [CallNext]_callVars PROVE CallTypeOK'
  OBVIOUS
<1> USE DEF callerVars, syncVars, wireVars
<1>0. /\ at \in [Caller -> Places] /\ seqid \in [Caller -> Nat] /\ nextSeq \in Nat \ {0}
      /\ mapped \subseteq 1..nextSeq - 1 /\ awake \subseteq Caller
      /\ wake \in BOOLEAN /\ stop \in BOOLEAN /\ broken \in BOOLEAN
      /\ \A d \in Caller : at[d] = "write" <=> writer = d
      /\ \A d \in Caller : at[d] \in Reading <=> reader = d
  BY DEF CallTypeOK, Places, Reading
<1>1. CASE UNCHANGED callVars
  BY <1>1 DEF callVars, CallTypeOK
<1>2. ASSUME NEW c \in Caller, Send(c) PROVE CallTypeOK'
  <2>1. CASE Number(c)
    <3> DEFINE x == IF stop THEN "over" ELSE "send"
    <3>1. Holds(c, x) /\ x \in Places
      BY <2>1 DEF Number, Holds, Reading, Places
    <3>2. seqid' \in [Caller -> Nat] /\ nextSeq' \in Nat \ {0} /\ mapped' \subseteq 1..nextSeq' - 1
      <4>1. CASE stop
        BY <1>0, <2>1, <4>1 DEF Number
      <4>2. CASE ~stop
        <5>1. /\ seqid' = [seqid EXCEPT ![c] = nextSeq] /\ nextSeq' = nextSeq + 1
              /\ mapped' = mapped \cup {nextSeq}
          BY <2>1, <4>2 DEF Number
        <5> QED BY <1>0, <5>1
      <4> QED BY <4>1, <4>2
    <3>3. UNCHANGED <<awake, wake, stop, broken>>
      BY <2>1 DEF Number
    <3> HIDE DEF x
    <3> QED BY <1>0, <3>1, <3>2, <3>3, MoveTyped
  <2>2. CASE LockWrite(c)
    <3>1. Holds(c, "write") /\ UNCHANGED <<seqid, nextSeq, mapped, awake, wake, stop, broken>>
      BY <2>2 DEF LockWrite, Holds, Reading
    <3> QED BY <1>0, <3>1, MoveTyped DEF Places
  <2>3. CASE Write(c)
    <3>1. Holds(c, "lock") /\ UNCHANGED <<seqid, nextSeq, mapped, awake, wake, stop, broken>>
      BY <2>3 DEF Write, Holds, Reading
    <3> QED BY <1>0, <3>1, MoveTyped DEF Places
  <2>4. CASE WriteThrows(c)
    <3>1. /\ Holds(c, "over") /\ UNCHANGED <<seqid, nextSeq, mapped, broken>>
          /\ wake' = TRUE /\ stop' = TRUE
      BY <2>4 DEF WriteThrows, MarkBad, Holds, Reading
    <3>2. awake' \subseteq Caller
      BY <1>0, <2>4 DEF WriteThrows, MarkBad, WaitersOf
    <3> QED BY <1>0, <3>1, <3>2, MoveTyped DEF Places
  <2> QED BY <1>2, <2>1, <2>2, <2>3, <2>4 DEF Send
<1>3. ASSUME NEW c \in Caller, Receive(c) PROVE CallTypeOK'
  <2>1. CASE LockRead(c)
    <3>1. Holds(c, "get") /\ UNCHANGED <<seqid, nextSeq, mapped, awake, wake, stop, broken>>
      BY <2>1 DEF LockRead, ReadFree, Holds, Reading
    <3> QED BY <1>0, <3>1, MoveTyped DEF Places
  <2>2. CASE GetPending(c) \/ Check(c)
    <3> DEFINE x == at'[c]
    <3>1. /\ x \in Reading /\ at' = [at EXCEPT ![c] = x] /\ at[c] \in Reading
          /\ UNCHANGED <<writer, reader>>
      BY <1>0, <2>2 DEF GetPending, Check, Reading
    <3>2. Holds(c, x) /\ x \in Places
      <4>1. reader = c /\ x # "write" /\ at[c] # "write"
        BY <1>0, <3>1 DEF Reading
      <4> HIDE DEF x
      <4> QED BY <3>1, <4>1 DEF Holds, Reading, Places
    <3>3. /\ UNCHANGED <<seqid, nextSeq, mapped, awake, stop, broken>>
          /\ wake' \in BOOLEAN
      BY <1>0, <2>2 DEF GetPending, Check
    <3> HIDE DEF x
    <3> QED BY <1>0, <3>2, <3>3, MoveTyped
  <2>3. CASE GetPendingThrows(c) \/ ReadThrows(c) \/ CheckThrows(c)
    <3>1. /\ Leave(c, FALSE) /\ at[c] \in Reading
          /\ UNCHANGED <<seqid, nextSeq, writer, broken>>
      BY <2>3 DEF GetPendingThrows, ReadThrows, CheckThrows, Throw, Reading
    <3> QED BY <3>1, LeaveTyped
  <2>4. CASE TakePending(c) \/ ReadMessage(c)
    <3>1. at[c] \in Reading /\ UNCHANGED <<seqid, nextSeq, writer, broken>>
      BY <2>4 DEF TakePending, ReadMessage, Reading
    <3>2. Use(c, pending) \/ Use(c, Head(replies))
      BY <2>4 DEF TakePending, ReadMessage
    <3> QED BY <3>1, <3>2, UseTyped
  <2>5. CASE Sleep(c)
    <3>1. Holds(c, "wait") /\ UNCHANGED <<seqid, nextSeq, mapped, awake, wake, stop, broken>>
      BY <2>5 DEF Sleep, Holds, Reading
    <3> QED BY <1>0, <3>1, MoveTyped DEF Places
  <2>6. CASE WakeUp(c)
    <3>1. Holds(c, "check") /\ UNCHANGED <<seqid, nextSeq, mapped, wake, stop, broken>>
      BY <2>6 DEF WakeUp, ReadFree, Holds, Reading
    <3>2. awake' \subseteq Caller
      BY <1>0, <2>6 DEF WakeUp
    <3> QED BY <1>0, <3>1, <3>2, MoveTyped DEF Places
  <2> QED BY <1>3, <2>1, <2>2, <2>3, <2>4, <2>5, <2>6 DEF Receive
<1>4. CASE Served
  BY <1>4 DEF Served, Answer, AnswerException, Reply, CallTypeOK
<1>5. CASE Break
  BY <1>5 DEF Break, CallTypeOK
<1> QED
  BY <1>1, <1>2, <1>3, <1>4, <1>5 DEF CallNext

\* The callers of a shared client exclude each other: the write mutex and the read mutex
\* are held by who is in the part of the call that they guard, and by nobody else
\* (nvrWebService.cpp:446), for any number of callers.
THEOREM CallsExclude == CallSpec => []CallTypeOK
<1>1. CallInit => CallTypeOK
  BY NobodyTyped DEF CallInit
<1> QED
  BY <1>1, CallTypeStep, PTL DEF CallSpec

\* All three, as MCServer runs them: the clock stays in the range of its int, an open
\* call has its connection, a mutex of the client is held by the caller that is where
\* it has it, and a list and its threads have their types, whether its mutex excludes or
\* not.
THEOREM ServerTypes == MCSpec => []ServerTypeOK
<1>1. MCInit => ServerTypeOK
  <2>1. Init => TypeOK
    BY ConstantsAssumption, TypeInit
  <2>2. LifeAtRest => TypeOK
    <3>1. 0 \in 0..2 * Half - 1
      BY ConstantsAssumption, SMT DEF ConstantsAssumption
    <3>2. <<>> \in Seq(Client)
      OBVIOUS
    <3> QED BY <3>1, <3>2 DEF LifeAtRest, TypeOK
  <2>3. CallInit => CallTypeOK
    BY NobodyTyped DEF CallInit
  <2>4. CallsAtRest => CallTypeOK
    BY NobodyTyped DEF CallsAtRest
  <2>5. SyncInit => SyncTypeOK
    BY SyncTypeInit
  <2> QED BY <2>1, <2>2, <2>3, <2>4, <2>5 DEF MCInit, ServerTypeOK
<1>2. ServerTypeOK /\ [MCNext]_serverPartVars => ServerTypeOK'
  <2> SUFFICES ASSUME TypeOK, CallTypeOK, SyncTypeOK, [MCNext]_serverPartVars
               PROVE  TypeOK' /\ CallTypeOK' /\ SyncTypeOK'
    BY DEF ServerTypeOK
  <2>1. [Next]_vars /\ [CallNext]_callVars /\ [SyncNext]_configVars
    BY DEF MCNext, serverPartVars, CallsOver
  <2> QED BY <2>1, ConstantsAssumption, TypeStep, CallTypeStep, SyncTypeStep
<1> QED
  BY <1>1, <1>2, PTL DEF MCSpec
=============================================================================
