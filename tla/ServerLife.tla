----------------------------- MODULE ServerLife -----------------------------
(***************************************************************************)
(* The life of one server process and of its threads: inital(), wait() and *)
(* unInit() of the main thread, the thrift server with its accept loop and *)
(* its mCount workers, the detached threads that notices and the recycle   *)
(* timer start, and SIGINT.                                                *)
(*                                                                         *)
(* The thrift library is modelled by its documented behaviour: listen      *)
(* makes the socket pair that interrupt writes to (before it, interrupt    *)
(* does nothing); an interrupted serve closes the connections that wait    *)
(* for input, drops the ones no worker has taken, waits for its workers    *)
(* and returns; a worker serves one connection until it is closed.         *)
(***************************************************************************)
EXTENDS Integers, Sequences, FiniteSets

CONSTANTS
  Client,     \* connections of the web side
  Worker,     \* threads of the thread manager: mCount of them
  Detached,   \* detached threads the process can have at once
  Expired,    \* m_expired, in seconds
  Half,       \* 2^31: an int is in -Half .. Half - 1
  TickLength, \* milliseconds the clock of the model goes on in one step
  Prompt      \* does a new thread run its first statement within one tick?

\* The value an int gets.
ToInt(x) == ((x + Half) % (2 * Half)) - Half

\* Clock values are kept modulo the range of an int.
Clock(ms) == ms % (2 * Half)

\* m_expired * 1000, the period of recycling in milliseconds.
Period == ToInt(Expired * 1000)

ASSUME ConstantsAssumption ==
  /\ Half \in Nat \ {0} /\ Expired \in Nat /\ TickLength \in Nat \ {0}
  /\ Prompt \in BOOLEAN /\ IsFiniteSet(Detached)

\* m_expired is neither 0 nor so large that the product wraps.
PeriodAssumption == Period > 0

VARIABLES
  main,    \* main thread: where it is
  quit,    \* g_bIsExit
  bInit,   \* m_bInit
  now,     \* milliseconds of the clock, modulo the range of an int
  logon,   \* m_timeExpired.tmLogon, likewise
  expired, \* m_bExpired
  job,     \* detached threads: what each one does
  thrift,  \* thread of CThriftServer::run
  intr,    \* interrupt has been written to the socket pair
  waiting, \* accepted connections no worker has taken, oldest first
  open,    \* connections a worker serves
  call     \* of those: the ones whose call has not been answered

loopVars   == <<now, logon, expired>>
serverVars == <<thrift, intr, waiting, open, call>>
vars == <<main, quit, bInit, loopVars, job, serverVars>>

---------------------------------------------------------------------------
(* Helpers. *)

\* TIMESTATE::IsTimeOut: the difference of two clock values is cut to an int.
Duration(a, b) == ToInt(a - b)
IsTimeOut(n) == Duration(now, logon) >= n

Running == main # "gone"
Idle == {t \in Detached : job[t] = "none"}
Recycling == {t \in Detached : job[t] \in {"new", "pass"}}

\* The process ends, with every thread it has.
Ends ==
  /\ main' = "gone" /\ thrift' = "ended" /\ intr' = FALSE
  /\ job' = [t \in Detached |-> "none"]
  /\ waiting' = <<>> /\ open' = {} /\ call' = {}

---------------------------------------------------------------------------
(* The main thread. *)

\* inital: the lists are loaded and downloaded, then the thrift server's
\* thread is started. std::thread throws when the process has no more threads.
StartThrift ==
  /\ main = "lists"
  /\ main' = "init" /\ thrift' = "created"
  /\ UNCHANGED <<quit, bInit, loopVars, job, intr, waiting, open, call>>

\* inital returns to main, which calls wait.
Initialised ==
  /\ main = "init"
  /\ logon' = now /\ bInit' = TRUE /\ main' = "test"
  /\ UNCHANGED <<quit, now, expired, job, serverVars>>

\* The condition of wait's loop; after it the dispatcher runs.
EnterRound ==
  /\ main = "test" /\ ~quit
  /\ main' = "poll"
  /\ UNCHANGED <<quit, bInit, loopVars, job, serverVars>>

\* Is a recycle pass due? m_bExpired is set by the thread that makes the pass.
PassDueUnguarded == bInit /\ IsTimeOut(Period)
PassDue == bInit /\ IsTimeOut(Period) /\ ~expired

StartPass ==
  /\ main = "poll" /\ PassDue
  /\ \E t \in Idle : job' = [job EXCEPT ![t] = "new"]
  /\ main' = "reset"
  /\ UNCHANGED <<quit, bInit, loopVars, serverVars>>

\* Nobody catches what std::thread throws when it cannot start one.
StartPassThrows ==
  /\ main = "poll" /\ PassDue /\ Idle = {}
  /\ Ends /\ UNCHANGED <<quit, bInit, loopVars>>

ResetTime ==
  /\ main = "reset"
  /\ logon' = now /\ main' = "test"
  /\ UNCHANGED <<quit, bInit, now, expired, job, serverVars>>

NoPass ==
  /\ main = "poll" /\ ~PassDue
  /\ main' = "test"
  /\ UNCHANGED <<quit, bInit, loopVars, job, serverVars>>

\* wait returns; unInit calls stop, which interrupts the server.
Interrupted == thrift = "serving"
Stop ==
  /\ main = "test" /\ quit
  /\ intr' = Interrupted /\ main' = "join"
  /\ UNCHANGED <<quit, bInit, loopVars, job, thrift, waiting, open, call>>

\* stop joins the thread of the thrift server.
JoinedNotAwaited == TRUE
Joined == thrift = "ended"

Join ==
  /\ main = "join" /\ Joined
  /\ bInit' = FALSE /\ main' = "exit"
  /\ UNCHANGED <<quit, loopVars, job, serverVars>>

\* main has returned: static objects are destroyed, then the process ends.
Exit == main = "exit" /\ Ends /\ UNCHANGED <<quit, bInit, loopVars>>

---------------------------------------------------------------------------
(* The thread of the thrift server. *)

Listen ==
  /\ thrift = "created"
  /\ thrift' = "serving"
  /\ UNCHANGED <<main, quit, bInit, loopVars, job, intr, waiting, open, call>>

\* The port is taken: serve throws, and run does not catch it.
ListenThrows ==
  /\ thrift = "created" /\ main # "gone"
  /\ Ends /\ UNCHANGED <<quit, bInit, loopVars>>

Accept(c) ==
  /\ thrift = "serving" /\ c \notin open
  /\ \A i \in 1..Len(waiting) : waiting[i] # c
  /\ waiting' = Append(waiting, c)
  /\ UNCHANGED <<main, quit, bInit, loopVars, job, thrift, intr, open, call>>

\* serve sees the interrupt and drops what no worker has taken.
Drain ==
  /\ thrift = "serving" /\ intr
  /\ thrift' = "draining" /\ intr' = FALSE /\ waiting' = <<>>
  /\ UNCHANGED <<main, quit, bInit, loopVars, job, open, call>>

ServeReturns ==
  /\ thrift = "draining" /\ open = {}
  /\ thrift' = "ended"
  /\ UNCHANGED <<main, quit, bInit, loopVars, job, intr, waiting, open, call>>

---------------------------------------------------------------------------
(* The workers and the connections. *)

WorkerFreeNever == FALSE
WorkerFree == Cardinality(open) < Cardinality(Worker)

TakeConnection ==
  /\ thrift = "serving" /\ waiting # <<>> /\ WorkerFree
  /\ open' = open \cup {Head(waiting)} /\ waiting' = Tail(waiting)
  /\ UNCHANGED <<main, quit, bInit, loopVars, job, thrift, intr, call>>

\* The client sends a call.
Call(c) ==
  /\ c \in open \ call /\ thrift # "draining"
  /\ call' = call \cup {c}
  /\ UNCHANGED <<main, quit, bInit, loopVars, job, thrift, intr, waiting, open>>

\* notice of a list: the handler starts a detached thread and the reply is 0.
HandleList(c) ==
  /\ c \in call
  /\ \E t \in Idle : job' = [job EXCEPT ![t] = "download"]
  /\ call' = call \ {c}
  /\ UNCHANGED <<main, quit, bInit, loopVars, thrift, intr, waiting, open>>

\* A heartbeat, an unknown command or method, or a thread that cannot be
\* started, which process_notice answers with an exception.
HandleOther(c) ==
  /\ c \in call
  /\ call' = call \ {c}
  /\ UNCHANGED <<main, quit, bInit, loopVars, job, thrift, intr, waiting, open>>

\* The client is gone, was silent for mRecvTimeout, or serve is interrupted.
CloseWhenServing(c) == thrift = "serving"
CloseAny(c) == TRUE
Close(c) ==
  /\ c \in open \ call /\ CloseAny(c)
  /\ open' = open \ {c}
  /\ UNCHANGED <<main, quit, bInit, loopVars, job, thrift, intr, waiting, call>>

---------------------------------------------------------------------------
(* The detached threads. *)

\* recycleExpired, first and last statement.
BeginPass(t) ==
  /\ job[t] = "new"
  /\ expired' = TRUE /\ job' = [job EXCEPT ![t] = "pass"]
  /\ UNCHANGED <<main, quit, bInit, now, logon, serverVars>>

AfterPassKept == expired
AfterPass == FALSE
EndPass(t) ==
  /\ job[t] = "pass"
  /\ expired' = AfterPass /\ job' = [job EXCEPT ![t] = "none"]
  /\ UNCHANGED <<main, quit, bInit, now, logon, serverVars>>

EndDownload(t) ==
  /\ job[t] = "download"
  /\ job' = [job EXCEPT ![t] = "none"]
  /\ UNCHANGED <<main, quit, bInit, loopVars, serverVars>>

\* What jsoncpp or stoi throws in a detached thread ends the process.
DownloadThrows(t) ==
  /\ job[t] = "download"
  /\ Ends /\ UNCHANGED <<quit, bInit, loopVars>>

---------------------------------------------------------------------------
\* SIGINT, also while inital() runs.
SigInt ==
  /\ Running /\ ~quit
  /\ quit' = TRUE
  /\ UNCHANGED <<main, bInit, loopVars, job, serverVars>>

Tick ==
  /\ Running
  /\ Prompt => \A t \in Detached : job[t] # "new"
  /\ now' = Clock(now + TickLength)
  /\ UNCHANGED <<main, quit, bInit, logon, expired, job, serverVars>>

Terminated == ~Running /\ UNCHANGED vars

Init ==
  /\ main = "lists" /\ quit = FALSE /\ bInit = FALSE
  /\ now = 0 /\ logon = 0 /\ expired = FALSE
  /\ job = [t \in Detached |-> "none"]
  /\ thrift = "none" /\ intr = FALSE
  /\ waiting = <<>> /\ open = {} /\ call = {}

Main ==
  \/ StartThrift \/ Initialised \/ EnterRound \/ StartPass \/ StartPassThrows
  \/ ResetTime \/ NoPass \/ Stop \/ Join \/ Exit

Thrift ==
  \/ Listen \/ ListenThrows \/ Drain \/ ServeReturns \/ TakeConnection
  \/ \E c \in Client : \/ Accept(c) \/ Call(c) \/ HandleList(c)
                       \/ HandleOther(c) \/ Close(c)

Jobs == \E t \in Detached :
  BeginPass(t) \/ EndPass(t) \/ EndDownload(t) \/ DownloadThrows(t)

Next == Main \/ Thrift \/ Jobs \/ SigInt \/ Tick \/ Terminated

(***************************************************************************)
(* Fairness. Every thread is scheduled and the clock goes on; downloads    *)
(* have a timeout of three seconds and a pass deletes finitely many files; *)
(* serve, when interrupted, closes its connections. Clients, SIGINT and    *)
(* failures are not fair. Strong fairness of the round in which a pass is  *)
(* due: the loop goes round thousands of times in a tick, so the clock     *)
(* cannot always pass by while main looks away.                            *)
(***************************************************************************)
Fairness ==
  /\ WF_vars(Main) /\ WF_vars(Tick)
  /\ SF_vars(EnterRound /\ IsTimeOut(Period))
  /\ SF_vars(StartPass \/ StartPassThrows)
  /\ WF_vars(Listen) /\ WF_vars(Drain) /\ WF_vars(ServeReturns)
  /\ WF_vars(TakeConnection)
  /\ \A c \in Client :
       /\ WF_vars(HandleList(c) \/ HandleOther(c))
       /\ WF_vars(thrift = "draining" /\ Close(c))
  /\ \A t \in Detached :
       WF_vars(BeginPass(t)) /\ WF_vars(EndPass(t)) /\ WF_vars(EndDownload(t))

Spec == Init /\ [][Next]_vars /\ Fairness

---------------------------------------------------------------------------
(* Properties. *)

TypeOK ==
  /\ main \in {"lists", "init", "test", "poll", "reset", "join", "exit", "gone"}
  /\ quit \in BOOLEAN /\ bInit \in BOOLEAN
  /\ now \in 0..2 * Half - 1 /\ logon \in 0..2 * Half - 1
  /\ expired \in BOOLEAN
  /\ job \in [Detached -> {"none", "new", "pass", "download"}]
  /\ thrift \in {"none", "created", "serving", "draining", "ended"}
  /\ intr \in BOOLEAN
  /\ waiting \in Seq(Client) /\ open \subseteq Client /\ call \subseteq open

\* When main has returned and the static objects are destroyed, no worker is
\* left that could call the handler (thrift_server.cpp:82): only detached
\* threads can still run.
ServiceDownFirst ==
  main = "exit" => thrift = "ended" /\ waiting = <<>> /\ open = {}

\* Two recycle passes never run at once, however long a pass takes, although
\* the thread and not its creator sets m_bExpired (1078).
OnePass == \A s, t \in Recycling : s = t

\* A server that listens when it is asked to exit does exit. (One that is
\* asked before it listens may lose the interrupt and join for ever.)
ShutsDown ==
  (quit /\ thrift = "serving" /\ main # "join") ~> main = "gone"

\* A connection beyond the mCount that are served is served in its turn, if
\* clients do not keep their connections for ever.
WaitingIsServed ==
  (\A c \in Client : []<>(c \notin open))
    => \A c \in Client : (\E i \in 1..Len(waiting) : waiting[i] = c)
                           ~> (\A i \in 1..Len(waiting) : waiting[i] # c)

\* Passes are made again and again, also after one that took so long that the
\* milliseconds since it was due have left the range of an int.
PassesRecur == []<>(Recycling # {}) \/ <>(quit \/ ~Running)
=============================================================================
