----------------------------- MODULE NoticeCalls -----------------------------
(***************************************************************************)
(* Calls of notice over one connection that several threads share: the     *)
(* generated nvrWebServiceConcurrentClient on one side, the generated      *)
(* processor on the other. The asynchronous processor answers calls in any *)
(* order; "a thread safe client that correctly handles out of order        *)
(* responses" (nvrWebService.h:265) is what the client claims to be.       *)
(*                                                                         *)
(* TConcurrentClientSyncInfo, of the thrift library, is modelled as the    *)
(* client uses it: a write mutex, a read mutex, a condition per sequence   *)
(* number, one received message that waits for its caller, and two flags:  *)
(* wake (some caller may go on) and stop (the connection is bad).          *)
(* Line numbers are those of thrift/gen-cpp/nvrWebService.cpp.             *)
(***************************************************************************)
EXTENDS Naturals, Sequences, FiniteSets

CONSTANTS
  Caller,  \* threads that share the client, each with one call whose command
           \* and object are its own
  Nobody   \* holder of a mutex that is free

ASSUME CallerAssumption == Nobody \notin Caller

\* No message, and the answer of a call that threw a transport error.
NoMessage == [seqid |-> 0, type |-> "none", fields |-> <<>>]
Dead == [seqid |-> 0, type |-> "dead", fields |-> <<>>]

VARIABLES
  at,      \* callers: where each one is
  seqid,   \* callers: the sequence number of the call
  answer,  \* callers: what notice returned or threw
  nextSeq, \* client: the next sequence number
  writer,  \* client: who holds the write mutex
  reader,  \* client: who holds the read mutex
  mapped,  \* client: sequence numbers with a condition
  awake,   \* client: waiting callers whose condition was notified
  pending, \* client: the message that waits for its caller
  wake,    \* client: wakeupSomeone_
  stop,    \* client: stop_
  calls,   \* connection: calls the server has not answered
  replies, \* connection: replies the client has not read
  broken,  \* connection: closed by the server or the network
  handled  \* server: the calls whose handler has run

callerVars == <<at, seqid, answer>>
syncVars   == <<nextSeq, writer, reader, mapped, awake, pending, wake, stop>>
wireVars   == <<calls, replies, broken, handled>>
callVars   == <<callerVars, syncVars, wireVars>>

---------------------------------------------------------------------------
(* Messages: the fields of a struct, each with its id, type and value. *)

\* nvrWebService_notice_pargs::write and nvrWebService_notice_presult::write
Args(c) == <<[id |-> 1, type |-> "string", val |-> c],
             [id |-> 2, type |-> "string", val |-> Nobody]>>
Result == <<[id |-> 0, type |-> "i32", val |-> 0]>>

\* nvrWebService_notice_args::read, nvrWebService_notice_presult::read: fields
\* with another id or of another type are skipped, the last one that fits counts.
FitsAny(f, id, type) == f.type = type
Fits(f, id, type) == f.id = id /\ f.type = type
IsSet(fields, id, type) == \E i \in DOMAIN fields : Fits(fields[i], id, type)
Read(fields, id, type) ==
  LET at_ == {i \in DOMAIN fields : Fits(fields[i], id, type)}
  IN fields[CHOOSE i \in at_ : \A j \in at_ : j <= i].val

---------------------------------------------------------------------------
(* The library's conditions. *)

\* Those who wait at the conditions of the sequence numbers in S.
WaitersOf(S) == {c \in Caller : at[c] = "wait" /\ seqid[c] \in S}

\* markBad_: everybody who waits goes on, to find the connection bad.
MarkBad(S) == /\ wake' = TRUE /\ stop' = TRUE
              /\ awake' = awake \cup WaitersOf(S)

Latest(S) == {n \in S : \A k \in S : k <= n}

---------------------------------------------------------------------------
(* The caller: notice, send_notice, recv_notice. *)

\* generateSeqId
Number(c) ==
  /\ at[c] = "idle"
  /\ IF stop
       THEN /\ at' = [at EXCEPT ![c] = "over"]
            /\ answer' = [answer EXCEPT ![c] = Dead]
            /\ UNCHANGED <<seqid, nextSeq, mapped>>
       ELSE /\ at' = [at EXCEPT ![c] = "send"]
            /\ seqid' = [seqid EXCEPT ![c] = nextSeq]
            /\ nextSeq' = nextSeq + 1 /\ mapped' = mapped \cup {nextSeq}
            /\ UNCHANGED answer
  /\ UNCHANGED <<writer, reader, awake, pending, wake, stop, wireVars>>

\* The send sentry.
LockWrite(c) ==
  /\ at[c] = "send" /\ writer = Nobody
  /\ writer' = c /\ at' = [at EXCEPT ![c] = "write"]
  /\ UNCHANGED <<seqid, answer, nextSeq, reader, mapped, awake, pending,
                 wake, stop, wireVars>>

\* What is written to a connection that the other side has closed is lost.
Write(c) ==
  /\ at[c] = "write"
  /\ calls' = IF broken THEN calls
              ELSE calls \cup {[seqid |-> seqid[c], fields |-> Args(c)]}
  /\ writer' = Nobody /\ at' = [at EXCEPT ![c] = "lock"]
  /\ UNCHANGED <<seqid, answer, nextSeq, reader, mapped, awake, pending,
                 wake, stop, replies, broken, handled>>

\* Without its commit the sentry marks the connection bad; the number stays.
WriteThrows(c) ==
  /\ at[c] = "write" /\ broken
  /\ MarkBad(mapped) /\ writer' = Nobody
  /\ at' = [at EXCEPT ![c] = "over"]
  /\ answer' = [answer EXCEPT ![c] = Dead]
  /\ UNCHANGED <<seqid, nextSeq, reader, mapped, pending, wireVars>>

\* The receive sentry.
ReadFreeAlways == TRUE
ReadFree == reader = Nobody
LockRead(c) ==
  /\ at[c] = "lock" /\ ReadFree
  /\ reader' = c /\ at' = [at EXCEPT ![c] = "get"]
  /\ UNCHANGED <<seqid, answer, nextSeq, writer, mapped, awake, pending,
                 wake, stop, wireVars>>

\* The receive sentry goes: with its commit it wakes the latest caller,
\* without it marks the connection bad. Then the read mutex is free.
Leave(c, committed) ==
  /\ mapped' = mapped \ {seqid[c]} /\ reader' = Nobody
  /\ at' = [at EXCEPT ![c] = "over"]
  /\ IF committed
       THEN /\ wake' = TRUE /\ stop' = stop
            /\ awake' = awake \cup WaitersOf(Latest(mapped'))
       ELSE MarkBad(mapped')

Throw(c) == Leave(c, FALSE) /\ answer' = [answer EXCEPT ![c] = Dead]

\* getPending: the message that waits, or else one from the connection.
GetPending(c) ==
  /\ at[c] = "get" /\ ~stop
  /\ wake' = FALSE /\ at' = [at EXCEPT ![c] = IF pending = NoMessage THEN "read" ELSE "take"]
  /\ UNCHANGED <<seqid, answer, nextSeq, writer, reader, mapped, awake,
                 pending, stop, wireVars>>

GetPendingThrows(c) ==
  /\ at[c] = "get" /\ stop
  /\ Throw(c)
  /\ UNCHANGED <<seqid, nextSeq, writer, pending, wireVars>>

\* The message is the caller's own: its result is returned or thrown. The
\* sentry commits unless the result is missing.
IsOwnAlways(c, m) == TRUE
IsOwn(c, m) == m.seqid = seqid[c]
Commits(m) == m.type = "exception" \/ IsSet(m.fields, 0, "i32")

Return(c, m) ==
  /\ IsOwn(c, m)
  /\ answer' = [answer EXCEPT ![c] = IF Commits(m) THEN m ELSE Dead]
  /\ pending' = NoMessage
  /\ Leave(c, Commits(m))

\* updatePending: the message waits for its caller, which is notified.
NotifiedNone(m) == {}
Notified(m) == WaitersOf({m.seqid})

HandOver(c, m) ==
  /\ ~IsOwn(c, m) /\ m.seqid \in mapped
  /\ pending' = m /\ awake' = awake \cup Notified(m)
  /\ at' = [at EXCEPT ![c] = "check"]
  /\ UNCHANGED <<answer, reader, mapped, wake, stop>>

\* It throws for a number that nobody waits for.
HandOverThrows(c, m) ==
  /\ ~IsOwn(c, m) /\ m.seqid \notin mapped
  /\ pending' = m /\ Throw(c)

Use(c, m) == Return(c, m) \/ HandOver(c, m) \/ HandOverThrows(c, m)

TakePending(c) ==
  /\ at[c] = "take"
  /\ Use(c, pending)
  /\ UNCHANGED <<seqid, nextSeq, writer, wireVars>>

ReadMessage(c) ==
  /\ at[c] = "read" /\ replies # <<>>
  /\ Use(c, Head(replies)) /\ replies' = Tail(replies)
  /\ UNCHANGED <<seqid, nextSeq, writer, calls, broken, handled>>

ReadThrows(c) ==
  /\ at[c] = "read" /\ replies = <<>> /\ broken
  /\ Throw(c)
  /\ UNCHANGED <<seqid, nextSeq, writer, pending, wireVars>>

\* waitForWork: there is work for the caller, or the connection is bad, or it
\* waits. A bad connection may be marked after it was tested: the one who
\* marks it need not hold the read mutex.
Check(c) ==
  /\ at[c] = "check" /\ ~stop
  /\ at' = [at EXCEPT ![c] = IF wake \/ (pending # NoMessage /\ IsOwn(c, pending))
                             THEN "get" ELSE "sleep"]
  /\ UNCHANGED <<seqid, answer, nextSeq, writer, reader, mapped, awake,
                 pending, wake, stop, wireVars>>

CheckThrows(c) ==
  /\ at[c] = "check" /\ stop
  /\ Throw(c)
  /\ UNCHANGED <<seqid, nextSeq, writer, pending, wireVars>>

Sleep(c) ==
  /\ at[c] = "sleep"
  /\ at' = [at EXCEPT ![c] = "wait"] /\ reader' = Nobody
  /\ UNCHANGED <<seqid, answer, nextSeq, writer, mapped, awake, pending,
                 wake, stop, wireVars>>

WakeUp(c) ==
  /\ at[c] = "wait" /\ c \in awake /\ ReadFree
  /\ at' = [at EXCEPT ![c] = "check"] /\ reader' = c /\ awake' = awake \ {c}
  /\ UNCHANGED <<seqid, answer, nextSeq, writer, mapped, pending, wake,
                 stop, wireVars>>

---------------------------------------------------------------------------
(* The other side: process_notice and return_notice answer in any order. *)

Reply(m, reply) ==
  /\ calls' = calls \ {m} /\ replies' = Append(replies, reply)
  /\ handled' = handled \cup {[seqid |-> m.seqid, cmd |-> Read(m.fields, 1, "string")]}
  /\ UNCHANGED <<broken, callerVars, syncVars>>

\* The handler returns 0; what it throws is the answer.
Answer(m) ==
  /\ m \in calls
  /\ Reply(m, [seqid |-> m.seqid, type |-> "reply", fields |-> Result])

AnswerException(m) ==
  /\ m \in calls
  /\ Reply(m, [seqid |-> m.seqid, type |-> "exception", fields |-> <<>>])

\* The connection is closed: what was not read of the calls is lost.
Break ==
  /\ ~broken /\ broken' = TRUE /\ calls' = {}
  /\ UNCHANGED <<replies, handled, callerVars, syncVars>>

---------------------------------------------------------------------------
CallInit ==
  /\ at = [c \in Caller |-> "idle"] /\ seqid = [c \in Caller |-> 0]
  /\ answer = [c \in Caller |-> Dead]
  /\ nextSeq = 1 /\ writer = Nobody /\ reader = Nobody
  /\ mapped = {} /\ awake = {} /\ pending = NoMessage
  /\ wake = FALSE /\ stop = FALSE
  /\ calls = {} /\ replies = <<>> /\ broken = FALSE /\ handled = {}

Send(c) == Number(c) \/ LockWrite(c) \/ Write(c) \/ WriteThrows(c)
Receive(c) ==
  \/ LockRead(c) \/ GetPending(c) \/ GetPendingThrows(c) \/ TakePending(c)
  \/ ReadMessage(c) \/ ReadThrows(c) \/ Check(c) \/ CheckThrows(c)
  \/ Sleep(c) \/ WakeUp(c)

Served == \E m \in calls : Answer(m) \/ AnswerException(m)

CallNext == (\E c \in Caller : Send(c) \/ Receive(c)) \/ Served \/ Break

\* Callers are scheduled once they have a number, and a call that has reached
\* the server is answered there. The connection need not break.
CallFairness ==
  /\ \A c \in Caller : WF_callVars(LockWrite(c) \/ Write(c)) /\ WF_callVars(Receive(c))
  /\ WF_callVars(Served)

CallSpec == CallInit /\ [][CallNext]_callVars /\ CallFairness

---------------------------------------------------------------------------
(* Properties. *)

\* Type invariant of the calls, with who holds which mutex.
CallTypeOK ==
  /\ at \in [Caller -> {"idle", "send", "write", "lock", "get", "take", "read",
                        "check", "sleep", "wait", "over"}]
  /\ seqid \in [Caller -> Nat]
  /\ nextSeq \in Nat \ {0} /\ mapped \subseteq 1..nextSeq - 1
  /\ writer \in Caller \cup {Nobody} /\ reader \in Caller \cup {Nobody}
  /\ \A c \in Caller :
       /\ at[c] = "write" <=> writer = c
       /\ at[c] \in {"get", "take", "read", "check", "sleep"} <=> reader = c
  /\ awake \subseteq Caller /\ wake \in BOOLEAN /\ stop \in BOOLEAN
  /\ broken \in BOOLEAN

\* Whoever gets a result gets its own: the handler has run with the command
\* that this caller sent, whatever the order of the answers and whoever read
\* them from the connection.
OwnAnswer ==
  \A c \in Caller :
    answer[c].type = "reply" =>
      answer[c].seqid = seqid[c] /\ [seqid |-> seqid[c], cmd |-> c] \in handled

\* A message read for another caller always reaches it: a call that got its
\* number ends, with the answer or, on a bad connection, with an exception.
CallsEnd == \A c \in Caller : at[c] = "send" ~> at[c] = "over"
=============================================================================
