------------------------- MODULE ServerLife_proofs -------------------------
(***************************************************************************)
(* For any number of connections, workers and detached threads: main       *)
(* returns only when no worker is left (ServiceDownFirst), and two recycle *)
(* passes never run at once (OnePass). The second holds although the new   *)
(* thread and not main sets m_bExpired, because main has set the timer     *)
(* when it tests again: a thread that has not run its first statement      *)
(* leaves no time on it (Prompt), and one that has, has set m_bExpired.    *)
(***************************************************************************)
EXTENDS ServerLife, SequenceTheorems, TLAPS

---------------------------------------------------------------------------
(* The clock. *)

\* No time at all is 0 milliseconds, also as an int.
LEMMA ZeroIsZero ==
  ASSUME ConstantsAssumption PROVE ToInt(0) = 0
  BY SMT DEF ConstantsAssumption, ToInt

\* Clock values stay in the range of an int.
LEMMA ClockType ==
  ASSUME ConstantsAssumption, NEW ms \in Nat PROVE Clock(ms) \in 0..2 * Half - 1
  BY SMT DEF ConstantsAssumption, Clock

---------------------------------------------------------------------------
(* Types. *)

LEMMA TypeInit == ASSUME ConstantsAssumption, Init PROVE TypeOK
<1>1. <<>> \in Seq(Client)
  OBVIOUS
<1>2. 0 \in 0..2 * Half - 1
  BY SMT DEF ConstantsAssumption
<1> QED
  BY <1>1, <1>2 DEF Init, TypeOK

LEMMA EndsType ==
  ASSUME TypeOK, Ends, UNCHANGED <<quit, bInit, loopVars>> PROVE TypeOK'
<1>1. <<>> \in Seq(Client)
  OBVIOUS
<1> QED
  BY <1>1 DEF Ends, TypeOK, loopVars

LEMMA TypeStep ==
  ASSUME ConstantsAssumption, TypeOK, [Next]_vars PROVE TypeOK'
<1> USE DEF TypeOK, loopVars, serverVars
<1>1. CASE UNCHANGED vars
  BY <1>1 DEF vars
<1>2. CASE Main
  <2>1. CASE StartThrift \/ Initialised \/ EnterRound \/ ResetTime \/ NoPass
    BY <2>1 DEF StartThrift, Initialised, EnterRound, ResetTime, NoPass
  <2>2. CASE StartPass
    BY <2>2 DEF StartPass, Idle
  <2>3. CASE Stop \/ Join
    BY <2>3 DEF Stop, Interrupted, Join
  <2>4. CASE StartPassThrows \/ Exit
    BY <2>4, EndsType DEF StartPassThrows, Exit
  <2> QED
    BY <1>2, <2>1, <2>2, <2>3, <2>4 DEF Main
<1>3. CASE Thrift
  <2>1. CASE Listen \/ ServeReturns
    BY <2>1 DEF Listen, ServeReturns
  <2>2. CASE ListenThrows
    BY <2>2, EndsType DEF ListenThrows
  <2>3. CASE Drain
    <3>1. <<>> \in Seq(Client)
      OBVIOUS
    <3> QED
      BY <2>3, <3>1 DEF Drain
  <2>4. CASE TakeConnection
    <3>1. Head(waiting) \in Client /\ Tail(waiting) \in Seq(Client)
      BY <2>4, HeadTailProperties DEF TakeConnection
    <3> QED
      BY <2>4, <3>1 DEF TakeConnection
  <2>5. ASSUME NEW c \in Client, Accept(c) PROVE TypeOK'
    <3>1. Append(waiting, c) \in Seq(Client)
      BY AppendProperties
    <3> QED
      BY <2>5, <3>1 DEF Accept
  <2>6. ASSUME NEW c \in Client, Call(c) \/ HandleOther(c) \/ Close(c) PROVE TypeOK'
    BY <2>6 DEF Call, HandleOther, Close
  <2>7. ASSUME NEW c \in Client, HandleList(c) PROVE TypeOK'
    BY <2>7 DEF HandleList, Idle
  <2> QED
    BY <1>3, <2>1, <2>2, <2>3, <2>4, <2>5, <2>6, <2>7 DEF Thrift
<1>4. CASE Jobs
  <2>1. ASSUME NEW t \in Detached, BeginPass(t) PROVE TypeOK'
    BY <2>1 DEF BeginPass
  <2>2. ASSUME NEW t \in Detached, EndPass(t) PROVE TypeOK'
    BY <2>2 DEF EndPass, AfterPass
  <2>3. ASSUME NEW t \in Detached, EndDownload(t) PROVE TypeOK'
    BY <2>3 DEF EndDownload
  <2>4. ASSUME NEW t \in Detached, DownloadThrows(t) PROVE TypeOK'
    BY <2>4, EndsType DEF DownloadThrows
  <2> QED
    BY <1>4, <2>1, <2>2, <2>3, <2>4 DEF Jobs
<1>5. CASE SigInt
  BY <1>5 DEF SigInt
<1>6. CASE Tick
  <2>1. now + TickLength \in Nat
    BY SMT DEF ConstantsAssumption
  <2> QED
    BY <1>6, <2>1, ClockType DEF Tick
<1>7. CASE Terminated
  BY <1>7 DEF Terminated, vars
<1> QED
  BY <1>1, <1>2, <1>3, <1>4, <1>5, <1>6, <1>7 DEF Next

\* TypeOK holds in every state of the server.
THEOREM TypeCorrect == Spec => []TypeOK
<1> USE ConstantsAssumption
<1>1. Init => TypeOK
  BY TypeInit
<1>2. TypeOK /\ [Next]_vars => TypeOK'
  BY TypeStep
<1> QED
  BY <1>1, <1>2, PTL DEF Spec

---------------------------------------------------------------------------
(* The service is down before main returns. *)

\* Connections are only there while the server serves; an interrupted one has dropped
\* those that nobody serves, and main passes join only when it has ended.
DownInv ==
  /\ main = "lists" => thrift = "none"
  /\ main = "exit" => thrift = "ended"
  /\ thrift # "serving" => waiting = <<>>
  /\ thrift \in {"none", "created", "ended"} => open = {}

LEMMA DownInit == Init => DownInv
  BY DEF Init, DownInv

LEMMA DownStep ==
  ASSUME TypeOK, DownInv, [Next]_vars PROVE DownInv'
<1> USE DEF TypeOK, DownInv, loopVars, serverVars
<1>1. CASE UNCHANGED vars
  BY <1>1 DEF vars
<1>2. CASE Main
  <2>1. CASE StartThrift \/ Initialised \/ EnterRound \/ StartPass \/ ResetTime \/ NoPass
    BY <2>1 DEF StartThrift, Initialised, EnterRound, StartPass, ResetTime, NoPass
  <2>2. CASE Stop \/ Join
    BY <2>2 DEF Stop, Join, Joined
  <2>3. CASE StartPassThrows \/ Exit
    BY <2>3 DEF StartPassThrows, Exit, Ends
  <2> QED
    BY <1>2, <2>1, <2>2, <2>3 DEF Main
<1>3. CASE Thrift
  <2>1. CASE Listen \/ ListenThrows \/ Drain \/ ServeReturns \/ TakeConnection
    BY <2>1 DEF Listen, ListenThrows, Drain, ServeReturns, TakeConnection, Ends
  <2>2. ASSUME NEW c \in Client,
               Accept(c) \/ Call(c) \/ HandleList(c) \/ HandleOther(c) \/ Close(c)
        PROVE  DownInv'
    BY <2>2 DEF Accept, Call, HandleList, HandleOther, Close
  <2> QED
    BY <1>3, <2>1, <2>2 DEF Thrift
<1>4. CASE Jobs
  BY <1>4 DEF Jobs, BeginPass, EndPass, EndDownload, DownloadThrows, Ends
<1>5. CASE SigInt \/ Tick \/ Terminated
  BY <1>5 DEF SigInt, Tick, Terminated, vars
<1> QED
  BY <1>1, <1>2, <1>3, <1>4, <1>5 DEF Next

\* When main has returned, the thrift server has no worker and no connection: nothing
\* calls the handler any more (thrift_server.cpp:82).
THEOREM DownFirst == Spec => []ServiceDownFirst
<1>1. DownInv => ServiceDownFirst
  BY DEF DownInv, ServiceDownFirst
<1>2. TypeOK /\ DownInv /\ [Next]_vars => DownInv'
  BY DownStep
<1> QED
  BY <1>1, <1>2, DownInit, TypeCorrect, PTL DEF Spec

---------------------------------------------------------------------------
(* One recycle pass at a time. *)

\* A thread that has not begun its pass has been started by main in this round, or
\* leaves no time on the timer; one that has begun it has set m_bExpired.
PassInv ==
  /\ OnePass
  /\ \A t \in Detached : job[t] = "new" => main = "reset" \/ logon = now
  /\ \A t \in Detached : job[t] = "pass" => expired

LEMMA PassInit == Init => PassInv
  BY DEF Init, PassInv, OnePass, Recycling

\* When a pass is due none is being made.
LEMMA DueWhenNone ==
  ASSUME ConstantsAssumption, PeriodAssumption, TypeOK, PassInv, main = "poll", PassDue
  PROVE  Recycling = {}
<1> SUFFICES ASSUME NEW t \in Recycling PROVE FALSE
  OBVIOUS
<1>1. t \in Detached /\ job[t] = "new"
  BY DEF Recycling, PassInv, PassDue
<1>2. now - logon = 0
  BY <1>1, SMT DEF PassInv, TypeOK, ConstantsAssumption
<1>3. Duration(now, logon) = 0
  BY <1>2, ZeroIsZero DEF Duration
<1>4. 0 >= Period
  BY <1>3 DEF PassDue, IsTimeOut
<1>5. Period \in Int
  BY SMT DEF Period, ToInt, ConstantsAssumption
<1> QED
  BY <1>4, <1>5, SMT DEF PeriodAssumption

LEMMA PassStep ==
  ASSUME ConstantsAssumption, PeriodAssumption, Prompt, TypeOK, PassInv, [Next]_vars
  PROVE  PassInv'
<1> USE DEF TypeOK, PassInv, OnePass, Recycling, loopVars, serverVars
<1>1. CASE UNCHANGED vars
  BY <1>1 DEF vars
<1>2. CASE Main
  <2>1. CASE StartThrift \/ Initialised \/ EnterRound \/ ResetTime \/ NoPass
    BY <2>1 DEF StartThrift, Initialised, EnterRound, ResetTime, NoPass
  <2>2. CASE StartPass
    <3>1. \A s \in Detached : job[s] \notin {"new", "pass"}
      BY <2>2, DueWhenNone DEF StartPass
    <3> QED
      BY <2>2, <3>1 DEF StartPass, Idle
  <2>3. CASE Stop \/ Join
    BY <2>3 DEF Stop, Join
  <2>4. CASE StartPassThrows \/ Exit
    BY <2>4 DEF StartPassThrows, Exit, Ends
  <2> QED
    BY <1>2, <2>1, <2>2, <2>3, <2>4 DEF Main
<1>3. CASE Thrift
  <2>1. CASE Listen \/ Drain \/ ServeReturns \/ TakeConnection
    BY <2>1 DEF Listen, Drain, ServeReturns, TakeConnection
  <2>2. CASE ListenThrows
    BY <2>2 DEF ListenThrows, Ends
  <2>3. ASSUME NEW c \in Client, Accept(c) \/ Call(c) \/ HandleOther(c) \/ Close(c)
        PROVE  PassInv'
    BY <2>3 DEF Accept, Call, HandleOther, Close
  <2>4. ASSUME NEW c \in Client, HandleList(c)
        PROVE  PassInv'
    BY <2>4 DEF HandleList, Idle
  <2> QED
    BY <1>3, <2>1, <2>2, <2>3, <2>4 DEF Thrift
<1>4. CASE Jobs
  <2>1. ASSUME NEW t \in Detached, BeginPass(t) PROVE PassInv'
    BY <2>1 DEF BeginPass
  <2>2. ASSUME NEW t \in Detached, EndPass(t) PROVE PassInv'
    BY <2>2 DEF EndPass
  <2>3. ASSUME NEW t \in Detached, EndDownload(t) PROVE PassInv'
    BY <2>3 DEF EndDownload
  <2>4. ASSUME NEW t \in Detached, DownloadThrows(t) PROVE PassInv'
    BY <2>4 DEF DownloadThrows, Ends
  <2> QED
    BY <1>4, <2>1, <2>2, <2>3, <2>4 DEF Jobs
<1>5. CASE SigInt
  BY <1>5 DEF SigInt
<1>6. CASE Tick
  BY <1>6 DEF Tick
<1>7. CASE Terminated
  BY <1>7 DEF Terminated, vars
<1> QED
  BY <1>1, <1>2, <1>3, <1>4, <1>5, <1>6, <1>7 DEF Next

\* Two recycle passes never run at once, however long a pass takes and however the clock
\* wraps, if a new thread runs its first statement before the clock goes on and the
\* period is no negative int (server_manager.cpp:266, 1078).
THEOREM OnePassAtATime ==
  ASSUME PeriodAssumption, Prompt PROVE Spec => []OnePass
<1>1. PassInv => OnePass
  BY DEF PassInv
<1>2. TypeOK /\ PassInv /\ [Next]_vars => PassInv'
  BY ConstantsAssumption, PassStep
<1> QED
  BY <1>1, <1>2, PassInit, TypeCorrect, PTL DEF Spec
=============================================================================
