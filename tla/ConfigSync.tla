----------------------------- MODULE ConfigSync -----------------------------
(***************************************************************************)
(* How the server keeps one of its three lists (policies, cabinets,        *)
(* cameras) in step with the configuration server: inital() loads the list *)
(* from its cache file and downloads it, thrift notices start threads that *)
(* download it again, and a crash loses everything but the cache file.     *)
(*                                                                         *)
(* A version stands for the whole answer of the configuration server, and  *)
(* 0 for the empty string; an entry of the table is the version of the     *)
(* list it came from. The three lists differ in their mutex: those of the  *)
(* policies and the cabinets exclude, that of the cameras does not.        *)
(***************************************************************************)
EXTENDS Naturals

CONSTANTS
  Updater,       \* notice threads that can run at once
  MainThread,    \* the main thread
  Item,          \* entries of the list
  MaxVersion,    \* bound on the versions that are published
  Locked,        \* does the mutex of the list exclude?
  SaveMayFail,   \* may the cache file fail to open for writing?
  None,          \* no thread
  Absent, Empty, \* what the cache file is before its first save, while it is
  Torn           \* written, and when two answers overwrote one another

Thread  == Updater \cup {MainThread}
Version == 1 .. MaxVersion

ASSUME SyncAssumption ==
  /\ MainThread \notin Updater /\ None \notin Updater \cup {MainThread}
  /\ MaxVersion \in Nat
  /\ {Absent, Empty, Torn} \cap Nat = {}
  /\ Locked \in BOOLEAN /\ SaveMayFail \in BOOLEAN

VARIABLES
  srv,      \* the version the configuration server has
  told,     \* a notice is on its way
  phase,    \* the main thread: "load", "download", then "up"
  pc,       \* where each thread is in loadX, downloadX, processX
  asked,    \* downloadX: the version sent with the request
  got,      \* the version of the answer, or of the cache, being processed
  todo,     \* processX: entries still to be put in the table
  holder,   \* the owner of the mutex
  version,  \* m_policyVersion, m_cabinetVersion, m_cameraVersion
  table,    \* m_quePolicy, m_hashCabinets, m_hashCameras; 0 for no entry
  cache,    \* policy.json, cabinet.json, camera.json
  unsaved   \* history: "yes" once saveCache could not open the file, until it can

listVars == <<holder, version, table>>
cacheVars == <<cache, unsaved>>
configVars == <<srv, told, phase, pc, asked, got, todo, listVars, cacheVars>>

---------------------------------------------------------------------------
NoEntries == [i \in Item |-> 0]

MutexIgnored == TRUE
MutexFree == Locked => holder = None

Goto(t, l) == pc' = [pc EXCEPT ![t] = l]

\* A thread has nothing more to do: a notice thread ends, the main thread goes
\* from loadX to downloadX and from there to m_thriftServer.start().
Returns(t) ==
  CASE t # MainThread -> Goto(t, "idle") /\ UNCHANGED phase
    [] t = MainThread /\ phase = "load" -> Goto(t, "ask") /\ phase' = "download"
    [] OTHER -> Goto(t, "idle") /\ phase' = "up"

\* loadX: the list of a cache file that verifyJson takes is processed.
LoadCache ==
  /\ pc[MainThread] = "load"
  /\ IF cache \in Version
       THEN got' = [got EXCEPT ![MainThread] = cache] /\ Goto(MainThread, "process") /\ UNCHANGED phase
       ELSE Returns(MainThread) /\ UNCHANGED got
  /\ UNCHANGED <<srv, told, asked, todo, listVars, cacheVars>>

\* notice(): a detached thread for the download.
Notice(w) ==
  /\ phase = "up" /\ told /\ pc[w] = "idle"
  /\ told' \in BOOLEAN
  /\ Goto(w, "ask")
  /\ UNCHANGED <<srv, phase, asked, got, todo, listVars, cacheVars>>

\* downloadX copies the version under the mutex.
AskVersion(t) ==
  /\ pc[t] = "ask" /\ MutexFree
  /\ asked' = [asked EXCEPT ![t] = version]
  /\ Goto(t, "fetch")
  /\ UNCHANGED <<srv, told, phase, got, todo, listVars, cacheVars>>

UpToDateInverted(t) == srv # asked[t]
UpToDate(t) == srv = asked[t]

\* downloadCommon: the answer has the version that was sent with the request.
FetchSame(t) ==
  /\ pc[t] = "fetch" /\ UpToDate(t)
  /\ Returns(t)
  /\ UNCHANGED <<srv, told, asked, got, todo, listVars, cacheVars>>

\* What downloadX does with a new list first.
AfterFetchNoSave == "process"
AfterFetch == "save"

FetchNew(t) ==
  /\ pc[t] = "fetch" /\ ~UpToDate(t)
  /\ got' = [got EXCEPT ![t] = srv]
  /\ Goto(t, AfterFetch)
  /\ UNCHANGED <<srv, told, phase, asked, todo, listVars, cacheVars>>

\* No answer within three seconds, or one that verifyJson refuses.
FetchFails(t) ==
  /\ pc[t] = "fetch"
  /\ Returns(t)
  /\ UNCHANGED <<srv, told, asked, got, todo, listVars, cacheVars>>

\* saveCache opens the file, which truncates it.
OpenCache(t) ==
  /\ pc[t] = "save"
  /\ cache' = Empty /\ unsaved' = "no" /\ Goto(t, "write")
  /\ UNCHANGED <<srv, told, phase, asked, got, todo, listVars>>

OpenCacheFails(t) ==
  /\ SaveMayFail /\ pc[t] = "save"
  /\ unsaved' = "yes" /\ Goto(t, "process")
  /\ UNCHANGED <<srv, told, phase, asked, got, todo, listVars, cache>>

\* saveCache writes from the start of the file. What another thread wrote
\* since the file was opened stays where it is the longer of the two.
SavedAsked(t) == asked[t]
Saved(t) == got[t]

WriteCache(t) ==
  /\ pc[t] = "write"
  /\ cache' \in IF cache = Empty THEN {Saved(t)} ELSE {Saved(t), Torn}
  /\ Goto(t, "process")
  /\ UNCHANGED <<srv, told, phase, asked, got, todo, listVars, unsaved>>

\* processX: Lock, clear, new version.
BeginProcess(t) ==
  /\ pc[t] = "process" /\ MutexFree
  /\ holder' = t /\ version' = got[t] /\ table' = NoEntries
  /\ todo' = [todo EXCEPT ![t] = Item]
  /\ Goto(t, "fill")
  /\ UNCHANGED <<srv, told, phase, asked, got, cacheVars>>

Fill(t, i) ==
  /\ pc[t] = "fill" /\ i \in todo[t]
  /\ table' = [table EXCEPT ![i] = got[t]]
  /\ todo' = [todo EXCEPT ![t] = @ \ {i}]
  /\ UNCHANGED <<srv, told, phase, pc, asked, got, holder, version, cacheVars>>

EndProcess(t) ==
  /\ pc[t] = "fill" /\ todo[t] = {}
  /\ holder' = None
  /\ Returns(t)
  /\ UNCHANGED <<srv, told, asked, got, todo, version, table, cacheVars>>

---------------------------------------------------------------------------
(* The configuration server, and crashes. *)

Publish ==
  /\ srv < MaxVersion
  /\ srv' = srv + 1 /\ told' = TRUE
  /\ UNCHANGED <<phase, pc, asked, got, todo, listVars, cacheVars>>

\* The thrift server is not there yet: the call fails.
LoseNotice ==
  /\ told /\ phase # "up"
  /\ told' = FALSE
  /\ UNCHANGED <<srv, phase, pc, asked, got, todo, listVars, cacheVars>>

\* The process is killed and started again.
AtStart == [t \in Thread |-> IF t = MainThread THEN "load" ELSE "idle"]
Zeros == [t \in Thread |-> 0]

Crash ==
  /\ phase' = "load" /\ pc' = AtStart
  /\ asked' = Zeros /\ got' = Zeros /\ todo' = [t \in Thread |-> {}]
  /\ holder' = None /\ version' = 0 /\ table' = NoEntries
  /\ unsaved' = "no"
  /\ UNCHANGED <<srv, told, cache>>

---------------------------------------------------------------------------
\* The server is started for the first time.
SyncInit ==
  /\ srv = 1 /\ told = FALSE /\ cache = Absent /\ unsaved = "no"
  /\ phase = "load" /\ pc = AtStart
  /\ asked = Zeros /\ got = Zeros /\ todo = [t \in Thread |-> {}]
  /\ holder = None /\ version = 0 /\ table = NoEntries

Step(t) ==
  \/ AskVersion(t) \/ FetchSame(t) \/ FetchNew(t) \/ FetchFails(t)
  \/ OpenCache(t) \/ OpenCacheFails(t) \/ WriteCache(t)
  \/ BeginProcess(t) \/ EndProcess(t) \/ \E i \in Item : Fill(t, i)

SyncNext ==
  \/ LoadCache \/ (\E w \in Updater : Notice(w)) \/ (\E t \in Thread : Step(t))
  \/ Publish \/ LoseNotice \/ Crash

\* Threads are scheduled, a request ends within its timeout and is not refused
\* for ever, the mutex is held briefly, and a notice reaches a server that is
\* up. Nothing has to be published, and nothing keeps the server up.
SyncFairness ==
  /\ WF_configVars(LoadCache) /\ \A w \in Updater : WF_configVars(Notice(w))
  /\ \A t \in Thread :
       /\ WF_configVars(Step(t)) /\ SF_configVars(AskVersion(t)) /\ SF_configVars(BeginProcess(t))
       /\ SF_configVars(FetchSame(t) \/ FetchNew(t))

SyncSafeSpec == SyncInit /\ [][SyncNext]_configVars

SyncSpec == SyncSafeSpec /\ SyncFairness

---------------------------------------------------------------------------
(* Properties. *)

\* Every variable holds what its declaration says.
SyncTypeOK ==
  /\ srv \in Nat /\ told \in BOOLEAN
  /\ phase \in {"load", "download", "up"}
  /\ pc \in [Thread -> {"load", "idle", "ask", "fetch", "save", "write",
                        "process", "fill"}]
  /\ asked \in [Thread -> Nat] /\ got \in [Thread -> Nat]
  /\ todo \in [Thread -> SUBSET Item]
  /\ holder \in Thread \cup {None}
  /\ version \in Nat /\ table \in [Item -> Nat]
  /\ unsaved \in {"no", "yes"}

\* Who gets the mutex finds the whole list of one version, the one in
\* m_policyVersion or m_cabinetVersion (432-481, 522-545).
ListIsWhole == holder = None => \A i \in Item : table[i] = version

\* A list is used only when the cache file has it, or a newer one, already
\* (saveCache comes before processX): but for the time in which the next list
\* is being written, the server never restarts with an older list than it
\* used. The code uses a list whose save failed all the same (422): such a list
\* is excepted, until a later one is saved.
DurableBeforeUse ==
  version # 0 /\ unsaved = "no" =>
    \/ cache \in Version /\ cache >= version
    \/ \E t \in Thread : pc[t] = "write"

Quiet == phase = "up" /\ \A t \in Thread : pc[t] = "idle"

\* When no download is going on, the cache file holds the list in use, but for
\* a list whose save failed; only when no list is in use it may be missing or
\* unreadable.
CacheAgrees ==
  Quiet /\ unsaved = "no" => cache = version \/ (version = 0 /\ cache \notin Version)

\* A server that stays up and is told again and again has the last version at
\* last and keeps it, although downloads may fail.
Converges ==
  <>[](phase = "up") /\ []<>told => <>[](version = srv)

---------------------------------------------------------------------------
(* The inductive invariant behind ListIsWhole, for a mutex that excludes.  *)

\* Who fills the table holds the mutex, and only one thread does.
HolderSound == \A t \in Thread : pc[t] = "fill" <=> holder = t

\* The table is of the version that the holder processes, as far as it got.
FillSound ==
  holder # None =>
    /\ version = got[holder]
    /\ \A i \in Item \ todo[holder] : table[i] = version

SyncInv == SyncTypeOK /\ HolderSound /\ FillSound /\ ListIsWhole

=============================================================================
