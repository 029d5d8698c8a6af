---------------------------- MODULE InstanceLock ----------------------------
(***************************************************************************)
(* The pid file that keeps a second server from starting (main.cpp):       *)
(* IsHaveInstance opens the file and takes a write lock on it with fcntl,  *)
(* setup_daemon closes every descriptor, the signal thread unlinks the     *)
(* file on SIGINT and SIGTERM, and main unlinks it again before it ends.   *)
(* Servers are started, signalled and killed at any time.                  *)
(*                                                                         *)
(* The kernel part: the lock is on the inode, not on the name; it belongs  *)
(* to a process and goes when the process closes the file or ends; open    *)
(* with O_CREAT makes a new inode when the name is gone; fcntl fails only  *)
(* on the lock of another process. Line numbers are those of src/main.cpp. *)
(***************************************************************************)
EXTENDS Naturals

CONSTANTS
  Server,   \* server processes; one that ended may be started again
  Inode,    \* inodes the pid file can get
  Daemon,   \* are the servers started with -b?
  Nil       \* no inode, no process

ASSUME LockAssumption == Daemon \in BOOLEAN /\ Nil \notin Server \cup Inode

VARIABLES
  stage,    \* main thread of each server, "refused" when IsHaveInstance returned true
  exiting,  \* g_bIsExit of each server
  sig,      \* signal thread: "wait", "unlink" (in the SIGINT case) or "done"
  named,    \* the inode INSTANCE_FILE names, Nil when it does not exist
  fd,       \* the inode each server has open
  lock      \* the process that holds the lock of each inode

lockVars == <<stage, exiting, sig, named, fd, lock>>

---------------------------------------------------------------------------
\* A server past IsHaveInstance, which got the lock.
Holder(s) == stage[s] \in {"locked", "up", "down"}

MovesTo(s, l) == stage' = [stage EXCEPT ![s] = l]

\* What open with O_CREAT can return.
Opened ==
  IF named # Nil THEN {named} ELSE {n \in Inode : \A s \in Server : fd[s] # n}

\* The kernel closes the files of a process that ends.
ProcessEnds(s) ==
  /\ MovesTo(s, "off") /\ exiting' = [exiting EXCEPT ![s] = FALSE]
  /\ sig' = [sig EXCEPT ![s] = "wait"] /\ fd' = [fd EXCEPT ![s] = Nil]
  /\ lock' = [n \in Inode |-> IF lock[n] = s THEN Nil ELSE lock[n]]
  /\ UNCHANGED named

Started(s) ==
  /\ stage[s] = "off" /\ MovesTo(s, "start")
  /\ UNCHANGED <<exiting, sig, named, fd, lock>>

\* IsHaveInstance opens the file.
OpenFile(s) ==
  /\ stage[s] = "start"
  /\ \E n \in Opened : named' = n /\ fd' = [fd EXCEPT ![s] = n]
  /\ MovesTo(s, "open")
  /\ UNCHANGED <<exiting, sig, lock>>

\* "open lock file fail!" (no directory, no permission): no server runs then either.
OpenFails(s) ==
  /\ stage[s] = "start" /\ MovesTo(s, "refused")
  /\ UNCHANGED <<exiting, sig, named, fd, lock>>

\* fcntl with F_SETLK fails when another process holds the lock.
RefusedOnZero(s) == TRUE
RefusedNever(s) == FALSE
Refused(s) == lock[fd[s]] # Nil

SetLock(s) ==
  /\ stage[s] = "open" /\ ~Refused(s)
  /\ lock' = [lock EXCEPT ![fd[s]] = s]
  /\ MovesTo(s, "locked")
  /\ UNCHANGED <<exiting, sig, named, fd>>

\* "You have a running fcmserver instance": IsHaveInstance returns true.
Refuse(s) ==
  /\ stage[s] = "open" /\ Refused(s) /\ MovesTo(s, "refused")
  /\ UNCHANGED <<exiting, sig, named, fd, lock>>

\* With -b, setup_daemon closes every descriptor, the lock's too, and goes on
\* in a grandchild; then the signal thread starts and inital() runs.
GoUp(s) ==
  /\ stage[s] = "locked"
  /\ MovesTo(s, "up")
  /\ IF Daemon
       THEN /\ fd' = [fd EXCEPT ![s] = Nil]
            /\ lock' = [n \in Inode |-> IF lock[n] = s THEN Nil ELSE lock[n]]
       ELSE UNCHANGED <<fd, lock>>
  /\ UNCHANGED <<exiting, sig, named>>

\* SIGINT: first g_bIsExit, then the unlink; the signal thread then ends.
Interrupted(s) ==
  /\ stage[s] = "up" /\ sig[s] = "wait"
  /\ exiting' = [exiting EXCEPT ![s] = TRUE] /\ sig' = [sig EXCEPT ![s] = "unlink"]
  /\ UNCHANGED <<stage, named, fd, lock>>

InterruptUnlink(s) ==
  /\ sig[s] = "unlink"
  /\ named' = Nil /\ sig' = [sig EXCEPT ![s] = "done"]
  /\ UNCHANGED <<stage, exiting, fd, lock>>

\* SIGTERM: the file goes, the server stays.
TerminateUnlink(s) ==
  /\ stage[s] = "up" /\ sig[s] = "wait"
  /\ named' = Nil
  /\ UNCHANGED <<stage, exiting, sig, fd, lock>>

\* wait() and unInit() have returned; main unlinks the file by its name.
MainUnlink(s) ==
  /\ stage[s] = "up" /\ exiting[s]
  /\ named' = Nil /\ MovesTo(s, "down")
  /\ UNCHANGED <<exiting, sig, fd, lock>>

MainReturns(s) == stage[s] \in {"refused", "down"} /\ ProcessEnds(s)

\* SIGKILL, a fault, SIGINT before the signal mask is set, a failing fork in
\* setup_daemon.
Dies(s) == stage[s] \in {"start", "open", "locked", "up"} /\ ProcessEnds(s)

---------------------------------------------------------------------------
LockInit ==
  /\ stage = [s \in Server |-> "off"] /\ exiting = [s \in Server |-> FALSE]
  /\ sig = [s \in Server |-> "wait"] /\ fd = [s \in Server |-> Nil]
  /\ lock = [n \in Inode |-> Nil] /\ named \in Inode \cup {Nil}

MainThread(s) ==
  \/ Started(s) \/ OpenFile(s) \/ OpenFails(s) \/ SetLock(s) \/ Refuse(s) \/ GoUp(s)
  \/ MainUnlink(s) \/ MainReturns(s) \/ Dies(s)

SignalThread(s) == Interrupted(s) \/ InterruptUnlink(s) \/ TerminateUnlink(s)

LockNext == \E s \in Server : MainThread(s) \/ SignalThread(s)

LockSpec == LockInit /\ [][LockNext]_lockVars

---------------------------------------------------------------------------
(* Properties. *)

\* Every variable holds what its declaration says.
LockTypeOK ==
  /\ stage \in [Server -> {"off", "start", "open", "refused", "locked", "up", "down"}]
  /\ exiting \in [Server -> BOOLEAN]
  /\ sig \in [Server -> {"wait", "unlink", "done"}]
  /\ named \in Inode \cup {Nil}
  /\ fd \in [Server -> Inode \cup {Nil}]
  /\ lock \in [Inode -> Server \cup {Nil}]

Serving(s) == stage[s] = "up" /\ ~exiting[s]

\* "You have a running fcmserver instance, please kill it first!" (302): no
\* two servers that nobody asked to exit run at once.
AtMostOneServing ==
  \A s, t \in Server : Serving(s) /\ Serving(t) => s = t

\* What the lock does promise in the foreground: two servers serve at once only
\* when one of them has lost its pid file, by SIGTERM (161) or by the unlink by
\* name of one that exits (148, 437); as long as the name leads to the inode of
\* a server that serves, no second one gets past IsHaveInstance.
TwoOnlyWithoutFile ==
  \A s, t \in Server :
    Serving(s) /\ Serving(t) /\ s # t => \E u \in {s, t} : fd[u] # named

\* A server that could open the file is turned away only while another one is
\* alive; the file and the inode that a crash leaves behind keep nobody out.
RefusedOnlyByOther ==
  [][\A s \in Server : stage[s] = "open" /\ stage'[s] = "refused" =>
       \E t \in Server \ {s} : stage[t] # "off"]_lockVars

---------------------------------------------------------------------------
(* The inductive invariant.                                                *)

\* A lock belongs to a process past IsHaveInstance, which has its inode open; in
\* the foreground every such process keeps its lock. A process between open and
\* fcntl has an inode.
LockSound ==
  /\ \A n \in Inode : lock[n] # Nil => Holder(lock[n]) /\ fd[lock[n]] = n
  /\ \A s \in Server : stage[s] \in {"open", "locked"} => fd[s] \in Inode
  /\ ~Daemon => \A s \in Server : Holder(s) => fd[s] \in Inode /\ lock[fd[s]] = s

LockInv == LockTypeOK /\ LockSound

=============================================================================
