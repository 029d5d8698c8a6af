--------------------------- MODULE RecorderTasks ---------------------------
(***************************************************************************)
(* The recording tasks of the NVR and the processes that serve them:       *)
(* CServerManager's m_hashTask, the dispatcher of the main thread, the     *)
(* signal thread that reaps children, and the notice threads that replace  *)
(* the camera table and prune the tasks.                                   *)
(*                                                                         *)
(*   main thread    demo, createTask, then wait: dispatchTask for ever     *)
(*   signal thread  sigwaitinfo, signal_child (waitpid loop), taskExit     *)
(*   notice thread  processCamera: clear and refill the camera table,      *)
(*                  check every task against it, kill what was removed     *)
(*   kernel         fork, SIGKILL, exit, SIGCHLD (one pending bit)         *)
(*                                                                         *)
(* m_mutexTask is initialised and excludes; m_mutexCameras is not (the     *)
(* constructor forgets it) and every Lock on it fails at once, so the      *)
(* camera table is read and written with no exclusion at all.              *)
(***************************************************************************)
EXTENDS Integers, FiniteSets

CONSTANTS
  Camera,      \* camera ids
  DemoCamera,  \* the cameras the start-up code creates a task for
  Policy,      \* policy ids, and the values an uninitialised policy can have
  DemoPolicy,  \* the policy id of the start-up camera
  Pid,         \* process ids the kernel can give to a recorder
  Worker,      \* notice threads that can be inside processCamera at once
  PidReuse,    \* may a pid be given out again while the program remembers it?
  None         \* no camera, no policy, pid 0

ASSUME ConstantsAssumption ==
  /\ DemoCamera \subseteq Camera
  /\ DemoPolicy \in Policy
  /\ PidReuse \in BOOLEAN
  /\ None \notin Camera \cup Policy \cup Pid

VARIABLES
  mpc,      \* main thread: where it is
  todo,     \* main thread: cameras that still get their task at start-up
  cur,      \* main thread: the camera createTask or startTask works on
  copied,   \* createTask: the policy in its copy of the camera
  forked,   \* startTask: what fork returned, not yet stored in the task
  inSpan,   \* dispatchTask: tasks in a recording span at the time it read
  visit,    \* dispatchTask: tasks its loop has still to visit
  isExit,   \* g_bIsExit
  cameras,  \* m_hashCameras: the policy of each camera, None when absent
  policies, \* m_quePolicy: the ids in it
  tasks,    \* m_hashTask: the policy of each task, None when absent
  child,    \* m_hashTask: the child of each task, None for 0
  wpc,      \* notice threads: where each one is
  want,     \* notice threads: the cameras of the downloaded list
  fill,     \* notice threads: those not yet put in the table
  check,    \* notice threads: tasks the validation loop has still to visit
  doomed,   \* notice threads: queTask, children of removed tasks to kill
  proc,     \* kernel: state of each recorder process
  owner,    \* kernel: the camera whose command line the process runs
  sigchld,  \* kernel: SIGCHLD is pending
  spc,      \* signal thread: where it is
  reaped    \* signal thread: the pid waitpid returned

mainVars   == <<mpc, todo, cur, copied, forked, inSpan, visit>>
configVars == <<cameras, policies>>
taskVars   == <<tasks, child>>
workVars   == <<wpc, want, fill, check, doomed>>
procVars   == <<proc, owner, sigchld>>
sigVars    == <<spc, reaped>>
vars == <<mainVars, isExit, configVars, taskVars, workVars, procVars, sigVars>>

---------------------------------------------------------------------------
(* Shared helpers. *)

Startup == {"demo", "policy", "readCamera", "readPolicy", "insertTask"}

\* The process is there until main returns.
Running == mpc # "stopped"

HasTask == {c \in Camera : tasks[c] # None}

\* Nobody is between Lock and Unlock of m_mutexTask.
MutexTaskIgnored == TRUE
MutexTaskFree ==
  /\ mpc \notin {"scan", "record"}
  /\ \A w \in Worker : wpc[w] # "check"

Live(p) == proc[p] \in {"live", "dying"}

\* A signal of the blocked set instead of SIGKILL: the recorder inherits the
\* mask and never takes it.
KillBlocked(p) == proc' = proc
\* kill(p, SIGKILL): a running process will die; a zombie or a free pid is
\* left alone (ESRCH is ignored by the code).
Kill(p) ==
  proc' = [proc EXCEPT ![p] = IF @ = "live" THEN "dying" ELSE @]

\* The pids some thread of the program still holds.
Remembered ==
  {child[c] : c \in Camera} \cup {reaped}
    \cup {p \in Pid : \E w \in Worker : p \in doomed[w]}

\* The pids fork may return.
Allocatable == {p \in Pid : proc[p] = "free" /\ (PidReuse \/ p \notin Remembered)}

---------------------------------------------------------------------------
(* The main thread at start-up: demo() and the createTask() it calls. *)

\* demo, first half: the camera goes into the table.
DemoAddCamera(c) ==
  /\ mpc = "demo" /\ c \in todo
  /\ mpc' = "policy" /\ cur' = c /\ todo' = todo \ {c}
  /\ cameras' = [cameras EXCEPT ![c] = DemoPolicy]
  /\ UNCHANGED <<copied, forked, inSpan, visit, isExit, policies, taskVars,
                 workVars, procVars, sigVars>>

\* demo, second half: its policy goes into the queue.
DemoAddPolicy ==
  /\ mpc = "policy"
  /\ mpc' = "readCamera"
  /\ policies' = policies \cup {DemoPolicy}
  /\ UNCHANGED <<todo, cur, copied, forked, inSpan, visit, isExit, cameras,
                 taskVars, workVars, procVars, sigVars>>

\* createTask looks the camera up and copies it. It gives up when the camera
\* is not in the table, or when the protocol index of its entry is out of the
\* range of its protocol list (both are data this module leaves out).
CreateReadCamera ==
  /\ mpc = "readCamera"
  /\ \/ /\ cameras[cur] # None
        /\ mpc' = "readPolicy" /\ copied' = cameras[cur] /\ cur' = cur
     \/ /\ mpc' = "demo" /\ copied' = None /\ cur' = None
  /\ UNCHANGED <<todo, forked, inSpan, visit, isExit, configVars, taskVars,
                 workVars, procVars, sigVars>>

\* createTask looks the policy of its copy up, under m_mutexPolicy.
CreateReadPolicy ==
  /\ mpc = "readPolicy"
  /\ IF copied \in policies
       THEN mpc' = "insertTask" /\ UNCHANGED <<cur, copied>>
       ELSE mpc' = "demo" /\ cur' = None /\ copied' = None
  /\ UNCHANGED <<todo, forked, inSpan, visit, isExit, configVars, taskVars,
                 workVars, procVars, sigVars>>

\* createTask inserts or replaces the task, under m_mutexTask.
CreateInsertTask ==
  /\ mpc = "insertTask" /\ MutexTaskFree
  /\ tasks' = [tasks EXCEPT ![cur] = copied]
  /\ child' = [child EXCEPT ![cur] = None]
  /\ mpc' = "demo" /\ cur' = None /\ copied' = None
  /\ UNCHANGED <<todo, forked, inSpan, visit, isExit, configVars, workVars,
                 procVars, sigVars>>

\* inital() sets m_bInit and main calls wait().
StartupDone ==
  /\ mpc = "demo" /\ todo = {}
  /\ mpc' = "poll"
  /\ UNCHANGED <<todo, cur, copied, forked, inSpan, visit, isExit, configVars,
                 taskVars, workVars, procVars, sigVars>>

---------------------------------------------------------------------------
(* The main thread in wait(): dispatchTask() until g_bIsExit. *)

\* dispatchTask reads the clock; S is the set of cameras whose task, with the
\* weeks it was created with, has a span around that time.
ReadClock ==
  /\ mpc = "poll" /\ ~isExit
  /\ \E S \in SUBSET Camera : inSpan' = S
  /\ mpc' = "lock"
  /\ UNCHANGED <<todo, cur, copied, forked, visit, isExit, configVars,
                 taskVars, workVars, procVars, sigVars>>

BeginDispatch ==
  /\ mpc = "lock" /\ MutexTaskFree
  /\ mpc' = "scan" /\ visit' = HasTask
  /\ UNCHANGED <<todo, cur, copied, forked, inSpan, isExit, configVars,
                 taskVars, workVars, procVars, sigVars>>

NeedsStartUnguarded(c) == c \in inSpan
NeedsStart(c) == c \in inSpan /\ child[c] = None

NeedsStopAnyTime(c) == child[c] # None
NeedsStop(c) == c \notin inSpan /\ child[c] # None

\* startTask: fork succeeds. The child is running before its pid is stored.
StartTask(c) ==
  /\ mpc = "scan" /\ c \in visit /\ NeedsStart(c)
  /\ \E p \in Allocatable :
       /\ proc' = [proc EXCEPT ![p] = "live"]
       /\ owner' = [owner EXCEPT ![p] = c]
       /\ forked' = p
  /\ mpc' = "record" /\ cur' = c
  /\ UNCHANGED <<todo, copied, inSpan, visit, isExit, configVars, taskVars,
                 workVars, sigchld, sigVars>>

\* startTask: fork fails; the task is tried again in the next pass.
StartTaskFails(c) ==
  /\ mpc = "scan" /\ c \in visit /\ NeedsStart(c)
  /\ visit' = visit \ {c}
  /\ UNCHANGED <<mpc, todo, cur, copied, forked, inSpan, isExit, configVars,
                 taskVars, workVars, procVars, sigVars>>

\* startTask: the pid goes into the task, which taskExit sees only after the
\* loop has released m_mutexTask.
RecordChild ==
  /\ mpc = "record"
  /\ child' = [child EXCEPT ![cur] = forked]
  /\ mpc' = "scan" /\ visit' = visit \ {cur}
  /\ cur' = None /\ forked' = None
  /\ UNCHANGED <<todo, copied, inSpan, isExit, configVars, tasks, workVars,
                 procVars, sigVars>>

\* stopTask: SIGKILL. The task keeps its child until taskExit clears it.
StopTask(c) ==
  /\ mpc = "scan" /\ c \in visit /\ NeedsStop(c)
  /\ Kill(child[c])
  /\ visit' = visit \ {c}
  /\ UNCHANGED <<mpc, todo, cur, copied, forked, inSpan, isExit, configVars,
                 taskVars, workVars, owner, sigchld, sigVars>>

\* The loop passes a task that is as it should be.
PassTask(c) ==
  /\ mpc = "scan" /\ c \in visit /\ ~NeedsStart(c) /\ ~NeedsStop(c)
  /\ visit' = visit \ {c}
  /\ UNCHANGED <<mpc, todo, cur, copied, forked, inSpan, isExit, configVars,
                 taskVars, workVars, procVars, sigVars>>

EndDispatch ==
  /\ mpc = "scan" /\ visit = {}
  /\ mpc' = "poll"
  /\ UNCHANGED <<todo, cur, copied, forked, inSpan, visit, isExit, configVars,
                 taskVars, workVars, procVars, sigVars>>

\* wait() returns, unInit() runs, main returns: every thread ends. No
\* recorder is told to stop.
MainExits ==
  /\ mpc = "poll" /\ isExit
  /\ mpc' = "stopped"
  /\ UNCHANGED <<todo, cur, copied, forked, inSpan, visit, isExit, configVars,
                 taskVars, workVars, procVars, sigVars>>

---------------------------------------------------------------------------
(* The signal thread. *)

SigInt ==
  /\ Running /\ spc = "wait" /\ ~isExit
  /\ isExit' = TRUE /\ spc' = "done"
  /\ UNCHANGED <<mainVars, configVars, taskVars, workVars, procVars, reaped>>

SigChild ==
  /\ Running /\ spc = "wait" /\ sigchld
  /\ sigchld' = FALSE /\ spc' = "reap"
  /\ UNCHANGED <<mainVars, isExit, configVars, taskVars, workVars, proc, owner,
                 reaped>>

\* signal_child: waitpid finds a zombie.
Reap(p) ==
  /\ Running /\ spc = "reap" /\ proc[p] = "zombie"
  /\ proc' = [proc EXCEPT ![p] = "free"]
  /\ owner' = [owner EXCEPT ![p] = None]
  /\ reaped' = p /\ spc' = "exit"
  /\ UNCHANGED <<mainVars, isExit, configVars, taskVars, workVars, sigchld>>

\* signal_child: waitpid finds none, back to sigwaitinfo.
ReapDone ==
  /\ Running /\ spc = "reap" /\ \A p \in Pid : proc[p] # "zombie"
  /\ spc' = "wait"
  /\ UNCHANGED <<mainVars, isExit, configVars, taskVars, workVars, procVars,
                 reaped>>

\* After taskExit the waitpid loop goes round again.
AfterTaskExitOnce == "wait"
AfterTaskExit == "reap"

ExitsNoTask(c) == FALSE
ExitsTask(c) == c \in HasTask /\ child[c] = reaped

\* taskExit, under m_mutexTask: the first task whose child is pid loses it.
TaskExit ==
  /\ Running /\ spc = "exit" /\ MutexTaskFree
  /\ \/ \E c \in Camera : ExitsTask(c) /\ child' = [child EXCEPT ![c] = None]
     \/ (\A c \in Camera : ~ExitsTask(c)) /\ child' = child
  /\ reaped' = None /\ spc' = AfterTaskExit
  /\ UNCHANGED <<mainVars, isExit, configVars, tasks, workVars, procVars>>

---------------------------------------------------------------------------
(* The notice threads: downloadCameras got a list with a new version. *)

\* processCamera clears the table; S is the downloaded list.
ClearCameras(w) ==
  /\ Running /\ wpc[w] = "idle"
  /\ \E S \in SUBSET Camera :
       /\ want' = [want EXCEPT ![w] = S]
       /\ fill' = [fill EXCEPT ![w] = S]
  /\ cameras' = [c \in Camera |-> None]
  /\ wpc' = [wpc EXCEPT ![w] = "fill"]
  /\ UNCHANGED <<mainVars, isExit, policies, taskVars, check, doomed, procVars,
                 sigVars>>

\* processCamera inserts a camera. The policy member of the local object is
\* never assigned: any value may be in it.
InsertCamera(w, c) ==
  /\ Running /\ wpc[w] = "fill" /\ c \in fill[w]
  /\ \E q \in Policy : cameras' = [cameras EXCEPT ![c] = q]
  /\ fill' = [fill EXCEPT ![w] = @ \ {c}]
  /\ UNCHANGED <<mainVars, isExit, policies, taskVars, wpc, want, check, doomed,
                 procVars, sigVars>>

FillDoneEarly(w) == TRUE
FillDone(w) == fill[w] = {}

\* processCamera takes m_mutexTask for its validation loop.
BeginCheck(w) ==
  /\ Running /\ wpc[w] = "fill" /\ FillDone(w) /\ MutexTaskFree
  /\ wpc' = [wpc EXCEPT ![w] = "check"]
  /\ check' = [check EXCEPT ![w] = HasTask]
  /\ UNCHANGED <<mainVars, isExit, configVars, taskVars, want, fill, doomed,
                 procVars, sigVars>>

\* The camera is still in the table with the policy of the task.
StillValid(c) == cameras[c] # None /\ cameras[c] = tasks[c]

KeepTask(w, c) ==
  /\ Running /\ wpc[w] = "check" /\ c \in check[w] /\ StillValid(c)
  /\ check' = [check EXCEPT ![w] = @ \ {c}]
  /\ UNCHANGED <<mainVars, isExit, configVars, taskVars, wpc, want, fill, doomed,
                 procVars, sigVars>>

\* The children of removed tasks that the last loop kills.
ToKillNone(c) == {}
ToKillUnchecked(c) == {child[c]}
ToKill(c) == {child[c]} \ {None}

RemoveTask(w, c) ==
  /\ Running /\ wpc[w] = "check" /\ c \in check[w] /\ ~StillValid(c)
  /\ check' = [check EXCEPT ![w] = @ \ {c}]
  /\ doomed' = [doomed EXCEPT ![w] = @ \cup ToKill(c)]
  /\ tasks' = [tasks EXCEPT ![c] = None]
  /\ child' = [child EXCEPT ![c] = None]
  /\ UNCHANGED <<mainVars, isExit, configVars, wpc, want, fill, procVars, sigVars>>

EndCheck(w) ==
  /\ Running /\ wpc[w] = "check" /\ check[w] = {}
  /\ wpc' = [wpc EXCEPT ![w] = "kill"]
  /\ UNCHANGED <<mainVars, isExit, configVars, taskVars, want, fill, check,
                 doomed, procVars, sigVars>>

\* stopTask on a removed task, m_mutexTask already released.
KillDoomed(w, p) ==
  /\ Running /\ wpc[w] = "kill" /\ p \in doomed[w]
  /\ Kill(p)
  /\ doomed' = [doomed EXCEPT ![w] = @ \ {p}]
  /\ UNCHANGED <<mainVars, isExit, configVars, taskVars, wpc, want, fill, check,
                 owner, sigchld, sigVars>>

EndKill(w) ==
  /\ Running /\ wpc[w] = "kill" /\ doomed[w] = {}
  /\ wpc' = [wpc EXCEPT ![w] = "idle"]
  /\ want' = [want EXCEPT ![w] = {}]
  /\ UNCHANGED <<mainVars, isExit, configVars, taskVars, fill, check, doomed,
                 procVars, sigVars>>

\* processPolicy, by a notice thread: the queue is replaced under its mutex.
\* Only start-up reads it here, so later replacements are left out.
ReplacePolicies ==
  /\ mpc \in Startup
  /\ \E S \in SUBSET Policy : policies' = S
  /\ UNCHANGED <<mainVars, isExit, cameras, taskVars, workVars, procVars, sigVars>>

---------------------------------------------------------------------------
(* The kernel. *)

\* A recorder ends by itself (its source ends, execvp fails) or because it
\* was killed; its parent gets SIGCHLD, which does not queue.
ProcessExits(p) ==
  /\ Live(p)
  /\ proc' = [proc EXCEPT ![p] = "zombie"]
  /\ sigchld' = TRUE
  /\ UNCHANGED <<mainVars, isExit, configVars, taskVars, workVars, owner, sigVars>>

\* Nothing more happens in the program; the operating system goes on.
Terminated == ~Running /\ UNCHANGED vars

---------------------------------------------------------------------------
Init ==
  /\ mpc = "demo" /\ todo = DemoCamera /\ cur = None /\ copied = None
  /\ forked = None /\ inSpan = {} /\ visit = {} /\ isExit = FALSE
  /\ cameras \in [Camera -> Policy \cup {None}]
  /\ policies \in SUBSET Policy
  /\ tasks = [c \in Camera |-> None] /\ child = [c \in Camera |-> None]
  /\ wpc = [w \in Worker |-> "idle"] /\ want = [w \in Worker |-> {}]
  /\ fill = [w \in Worker |-> {}] /\ check = [w \in Worker |-> {}]
  /\ doomed = [w \in Worker |-> {}]
  /\ proc = [p \in Pid |-> "free"] /\ owner = [p \in Pid |-> None]
  /\ sigchld = FALSE /\ spc = "wait" /\ reaped = None

CreateTask ==
  \/ \E c \in Camera : DemoAddCamera(c)
  \/ DemoAddPolicy \/ CreateReadCamera \/ CreateReadPolicy
  \/ CreateInsertTask \/ StartupDone

DispatchTask ==
  \/ ReadClock \/ BeginDispatch \/ RecordChild \/ EndDispatch \/ MainExits
  \/ \E c \in Camera : \/ StartTask(c) \/ StartTaskFails(c)
                       \/ StopTask(c) \/ PassTask(c)

SignalThread ==
  SigInt \/ SigChild \/ (\E p \in Pid : Reap(p)) \/ ReapDone \/ TaskExit

ProcessCamera(w) ==
  \/ ClearCameras(w) \/ BeginCheck(w) \/ EndCheck(w) \/ EndKill(w)
  \/ \E c \in Camera : InsertCamera(w, c) \/ KeepTask(w, c) \/ RemoveTask(w, c)
  \/ \E p \in Pid : KillDoomed(w, p)

Next ==
  \/ CreateTask \/ DispatchTask \/ SignalThread
  \/ (\E w \in Worker : ProcessCamera(w)) \/ ReplacePolicies
  \/ (\E p \in Pid : ProcessExits(p)) \/ Terminated

(***************************************************************************)
(* Fairness. The main thread, the signal thread and a running notice       *)
(* thread are scheduled; a killed process dies. The clock, SIGINT, new     *)
(* notices and exits of healthy recorders are not fair. Strong fairness:   *)
(* the main thread shares m_mutexTask with threads that hold it briefly    *)
(* and again and again (and they with it), a fork that is tried for ever   *)
(* succeeds once, and waitpid looks at the children oldest first, so no    *)
(* zombie is passed over for ever.                                         *)
(***************************************************************************)
KilledDies(p) == proc[p] = "dying" /\ ProcessExits(p)

Fairness ==
  /\ WF_vars(CreateTask) /\ SF_vars(DispatchTask)
  /\ \A c \in Camera : SF_vars(StartTask(c))
  /\ SF_vars(TaskExit) /\ WF_vars(SigChild)
  /\ WF_vars(ReapDone) /\ \A p \in Pid : SF_vars(Reap(p))
  /\ \A w \in Worker :
       /\ SF_vars(BeginCheck(w))
       /\ WF_vars(ProcessCamera(w) /\ wpc[w] # "idle")
  /\ \A p \in Pid : WF_vars(KilledDies(p))

Spec == Init /\ [][Next]_vars /\ Fairness

---------------------------------------------------------------------------
(* Properties. *)

\* Every variable holds what its declaration says.
TypeOK ==
  /\ mpc \in Startup \cup {"poll", "lock", "scan", "record", "stopped"}
  /\ todo \subseteq Camera
  /\ cur \in IF mpc \in {"policy", "readCamera", "readPolicy", "insertTask",
                        "record"} THEN Camera ELSE {None}
  /\ copied \in IF mpc \in {"readPolicy", "insertTask"} THEN Policy ELSE {None}
  /\ forked \in IF mpc = "record" THEN Pid ELSE {None}
  /\ inSpan \subseteq Camera
  /\ visit \subseteq Camera
  /\ isExit \in BOOLEAN
  /\ cameras \in [Camera -> Policy \cup {None}]
  /\ policies \subseteq Policy
  /\ tasks \in [Camera -> Policy \cup {None}]
  /\ child \in [Camera -> Pid \cup {None}]
  /\ wpc \in [Worker -> {"idle", "fill", "check", "kill"}]
  /\ want \in [Worker -> SUBSET Camera]
  /\ fill \in [Worker -> SUBSET Camera]
  /\ check \in [Worker -> SUBSET Camera]
  /\ doomed \in [Worker -> SUBSET Pid]
  /\ proc \in [Pid -> {"free", "live", "dying", "zombie"}]
  /\ owner \in [Pid -> Camera \cup {None}]
  /\ sigchld \in BOOLEAN
  /\ spc \in {"wait", "reap", "exit", "done"}
  /\ reaped \in IF spc = "exit" THEN Pid ELSE {None}

\* No camera is ever recorded by two processes of one server at once, whatever
\* the order of starts, exits, reaping and pruning (869, 904, 1062).
AtMostOneRecorder ==
  \A p, q \in Pid : Live(p) /\ Live(q) /\ owner[p] = owner[q] => p = q

\* A recorder that was not killed is in somebody's hands: its task's child, the
\* fork whose result is being stored, or a kill list. None is left recording
\* with nobody able to stop it.
NoLostRecorder ==
  \A p \in Pid : proc[p] = "live" =>
    \/ child[owner[p]] = p
    \/ forked = p
    \/ \E w \in Worker : p \in doomed[w]

\* The child of a task is the recorder of that task's camera ("the
\* corresponding process", public_common.h:261) until it has been reaped, and
\* then its exit is on its way to taskExit.
ChildIsOwn ==
  \A c \in Camera : child[c] # None =>
    \/ proc[child[c]] # "free" /\ owner[child[c]] = c
    \/ spc = "exit" /\ reaped = child[c] /\ proc[reaped] = "free"

\* Every kill has a reason. stopTask kills the recorder of a task that is out of
\* its span (872), or one whose task has been removed, and that also when the
\* kill comes long after m_mutexTask was released, from a copy of the task (649).
OnlyMeantKilled ==
  [][\A p \in Pid : proc[p] = "live" /\ proc'[p] = "dying"
       => owner[p] \notin HasTask \/ owner[p] \notin inSpan]_vars

\* The validation loop removes a task because its camera is not in the list, or
\* because "the policy has changed", as the code says of its two tests (625, 633).
\* The lists carry no policy, so with one notice at a time a camera of the list
\* keeps its task. The policy member that processCamera leaves unassigned (593)
\* makes the second test come out at random: the code breaks this property.
PruneOnlyGone ==
  [][\A w \in Worker, c \in Camera :
       wpc[w] = "check" /\ c \in check[w] /\ c \in HasTask /\ tasks'[c] = None
         => c \notin want[w]]_vars

\* No zombie stays for ever while the server runs (main.cpp:83).
ZombiesReaped ==
  \A p \in Pid : proc[p] = "zombie" ~> (proc[p] # "zombie" \/ isExit)

\* The recorder of a camera whose task was removed is stopped, although no
\* task names it any more (649-657).
RemovedIsStopped ==
  \A p \in Pid :
    (Live(p) /\ owner[p] \notin HasTask) ~> (~Live(p) \/ isExit)

\* A task that stays in its span is recorded again and again, however often
\* its recorder dies.
KeepsRecording ==
  \A c \in Camera :
    <>[](c \in HasTask /\ c \in inSpan)
      => ([]<>(\E p \in Pid : Live(p) /\ owner[p] = c) \/ <>isExit)

\* A task that stays out of its span is at last not recorded.
StopsRecording ==
  \A c \in Camera :
    <>[](c \notin inSpan)
      => (<>[](\A p \in Pid : Live(p) => owner[p] # c) \/ <>isExit)

---------------------------------------------------------------------------
(* The inductive invariant behind the safety properties, in named parts. *)

\* m_mutexTask excludes.
Exclusion ==
  /\ mpc \in {"scan", "record"} => \A w \in Worker : wpc[w] # "check"
  /\ \A v, w \in Worker : wpc[v] = "check" /\ wpc[w] = "check" => v = w

\* Start-up creates tasks while nothing has been started.
StartupIdle ==
  mpc \in Startup =>
    /\ \A p \in Pid : proc[p] = "free"
    /\ \A c \in Camera : child[c] = None

\* The dispatcher's loop, under the lock, only meets tasks that exist.
ScanSound ==
  mpc \in {"scan", "record"} => visit \subseteq HasTask

\* A child that is not stored yet belongs to the task being started, or has
\* died, been reaped, and its exit waits for the lock.
ForkSound ==
  mpc = "record" =>
    /\ cur \in HasTask /\ child[cur] = None
    /\ \A c \in Camera : child[c] # forked
    /\ \/ proc[forked] # "free" /\ owner[forked] = cur
       \/ spc = "exit" /\ reaped = forked

\* Only tasks have children, and no two the same.
ChildSound ==
  /\ \A c \in Camera : child[c] # None => c \in HasTask
  /\ \A c, d \in Camera : child[c] # None /\ child[c] = child[d] => c = d

\* What waitpid returned is free, and stays so until taskExit has run.
ReapSound == spc = "exit" => proc[reaped] = "free"

\* Every process that is not free belongs to a camera, is known by that
\* camera's task unless the task is gone, and is the only one of its camera.
ProcSound ==
  /\ \A p \in Pid : proc[p] # "free" =>
       /\ owner[p] \in Camera
       /\ child[owner[p]] = p \/ forked = p \/ owner[p] \notin HasTask
  /\ \A p, q \in Pid :
       proc[p] # "free" /\ proc[q] # "free" /\ owner[p] = owner[q] => p = q

\* The inductive invariant. It holds when the kernel gives no pid out while
\* the program remembers it; every part is there for the step of some thread
\* that another part alone would not survive.
RecorderInv ==
  /\ TypeOK /\ Exclusion /\ StartupIdle /\ ScanSound /\ ForkSound
  /\ ChildSound /\ ReapSound /\ ProcSound /\ ChildIsOwn /\ NoLostRecorder

---------------------------------------------------------------------------
(* The tasks and their processes implement the contract. *)

Recorded == {c \in Camera : \E p \in Pid : Live(p) /\ owner[p] = c}

Contract == INSTANCE RecorderContract
  WITH up <- mpc \notin Startup, scheduled <- HasTask, recorded <- Recorded

\* Every start is of a scheduled camera that nobody records, every step of the
\* threads and the kernel is one step of the contract or none.
ImplementsContract == Contract!Spec

=============================================================================
