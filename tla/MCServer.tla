------------------------------ MODULE MCServer ------------------------------
(***************************************************************************)
(* Model checking of what goes on in one server process: its life and its  *)
(* threads (ServerLife), the calls of clients (NoticeCalls), and a list    *)
(* that notices have downloaded (ConfigSync). They share nothing: in each  *)
(* behaviour one of the three runs (part) and the others are at rest.      *)
(***************************************************************************)
EXTENDS ServerLife, NoticeCalls, ConfigSync

VARIABLE part

serverPartVars == <<part, vars, callVars, configVars>>

LifeAtRest ==
  /\ main = "gone" /\ quit = TRUE /\ bInit = FALSE
  /\ now = 0 /\ logon = 0 /\ expired = FALSE
  /\ job = [t \in Detached |-> "none"] /\ thrift = "ended" /\ intr = FALSE
  /\ waiting = <<>> /\ open = {} /\ call = {}

CallsAtRest ==
  /\ at = [c \in Caller |-> "over"] /\ seqid = [c \in Caller |-> 0]
  /\ answer = [c \in Caller |-> Dead]
  /\ nextSeq = 1 /\ writer = Nobody /\ reader = Nobody
  /\ mapped = {} /\ awake = {} /\ pending = NoMessage
  /\ wake = FALSE /\ stop = TRUE
  /\ calls = {} /\ replies = <<>> /\ broken = TRUE /\ handled = {}

\* Callers that have their answers do nothing more.
CallsOver == (\A c \in Caller : at[c] = "over") /\ UNCHANGED callVars

MCInit ==
  /\ SyncInit
  /\ \/ part = "life" /\ Init /\ CallsAtRest
     \/ part = "calls" /\ LifeAtRest /\ CallInit
     \/ part = "list" /\ LifeAtRest /\ CallsAtRest

MCNext ==
  /\ UNCHANGED part
  /\ \/ part = "life" /\ Next /\ UNCHANGED <<callVars, configVars>>
     \/ part = "calls" /\ (CallNext \/ CallsOver) /\ UNCHANGED <<vars, configVars>>
     \/ part = "list" /\ SyncNext /\ UNCHANGED <<vars, callVars>>

MCSpec == MCInit /\ [][MCNext]_serverPartVars /\ Fairness /\ CallFairness

---------------------------------------------------------------------------
\* The type invariants: the clock stays in its range, an open call has its connection,
\* a mutex of the client is held by the caller that is where it has it, and a list, its
\* threads and its mutex are what they are declared to be.
ServerTypeOK == TypeOK /\ CallTypeOK /\ SyncTypeOK
=============================================================================
