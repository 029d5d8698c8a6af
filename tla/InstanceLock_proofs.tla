----------------------- MODULE InstanceLock_proofs ------------------------
(***************************************************************************)
(* What the lock on the pid file gives, for any number of processes and    *)
(* inodes, however servers are started, signalled and killed. LockInv is   *)
(* inductive with -b and without it; in the foreground a server past       *)
(* IsHaveInstance has the lock of the inode it opened, so that two of them *)
(* opened different inodes and the file is no longer the one of both.      *)
(***************************************************************************)
EXTENDS InstanceLock, TLAPS

\* The initial states satisfy the invariant.
LEMMA InvInit == LockInit => LockInv
  BY LockAssumption DEF LockInit, LockInv, LockTypeOK, LockSound, Holder

\* Every step of every thread, and of the kernel, preserves the invariant.
LEMMA InvStep ==
  ASSUME LockInv, [LockNext]_lockVars
  PROVE  LockInv'
<1> USE LockAssumption DEF LockInv, LockTypeOK, LockSound, Holder, MovesTo
<1>1. CASE UNCHANGED lockVars
  BY <1>1 DEF lockVars
<1>2. ASSUME NEW s \in Server, Started(s)
      PROVE  LockInv'
  BY <1>2 DEF Started
<1>3. ASSUME NEW s \in Server, OpenFile(s)
      PROVE  LockInv'
  BY <1>3 DEF OpenFile, Opened
<1>4. ASSUME NEW s \in Server, OpenFails(s)
      PROVE  LockInv'
  BY <1>4 DEF OpenFails
<1>5. ASSUME NEW s \in Server, SetLock(s)
      PROVE  LockInv'
  BY <1>5 DEF SetLock, Refused
<1>6. ASSUME NEW s \in Server, Refuse(s)
      PROVE  LockInv'
  BY <1>6 DEF Refuse
<1>7. ASSUME NEW s \in Server, GoUp(s)
      PROVE  LockInv'
  BY <1>7 DEF GoUp
<1>8. ASSUME NEW s \in Server, Interrupted(s)
      PROVE  LockInv'
  BY <1>8 DEF Interrupted
<1>9. ASSUME NEW s \in Server, InterruptUnlink(s)
      PROVE  LockInv'
  BY <1>9 DEF InterruptUnlink
<1>10. ASSUME NEW s \in Server, TerminateUnlink(s)
       PROVE  LockInv'
  BY <1>10 DEF TerminateUnlink
<1>11. ASSUME NEW s \in Server, MainUnlink(s)
       PROVE  LockInv'
  BY <1>11 DEF MainUnlink
<1>12. ASSUME NEW s \in Server, MainReturns(s)
       PROVE  LockInv'
  BY <1>12 DEF MainReturns, ProcessEnds
<1>13. ASSUME NEW s \in Server, Dies(s)
       PROVE  LockInv'
  BY <1>13 DEF Dies, ProcessEnds
<1> QED
  BY <1>1, <1>2, <1>3, <1>4, <1>5, <1>6, <1>7, <1>8, <1>9, <1>10, <1>11, <1>12, <1>13
     DEF LockNext, MainThread, SignalThread

\* The invariant holds in every reachable state, in the foreground and with -b.
THEOREM LockInvariant == LockSpec => []LockInv
<1>1. LockInv /\ [LockNext]_lockVars => LockInv'
  BY InvStep
<1> QED
  BY InvInit, <1>1, PTL DEF LockSpec

\* In the foreground two servers that nobody asked to exit run at once only when
\* one of them has lost its pid file (main.cpp:148, 161, 437): as long as the name
\* leads to a server's inode, IsHaveInstance (276-308) lets no other one pass.
THEOREM TwoOnlyWithoutFileAlways ==
  ASSUME ~Daemon
  PROVE  LockSpec => []TwoOnlyWithoutFile
<1>1. LockInv => TwoOnlyWithoutFile
  <2> SUFFICES ASSUME LockInv,
                      NEW s \in Server, NEW t \in Server,
                      Serving(s), Serving(t), fd[s] = named, fd[t] = named
               PROVE  s = t
    BY DEF TwoOnlyWithoutFile
  <2>1. lock[fd[s]] = s /\ lock[fd[t]] = t
    BY DEF LockInv, LockSound, Holder, Serving
  <2> QED
    BY <2>1
<1> QED
  BY LockInvariant, <1>1, PTL

\* A server that opened the file and is turned away met the lock of another one that
\* is alive (main.cpp:296-306): a file that a crash left behind keeps nobody out.
THEOREM RefusedByOther == LockSpec => RefusedOnlyByOther
<1>1. ASSUME LockInv, [LockNext]_lockVars,
             NEW s \in Server, stage[s] = "open", stage'[s] = "refused"
      PROVE  \E t \in Server \ {s} : stage[t] # "off"
  <2>1. Refuse(s)
    BY <1>1 DEF LockNext, lockVars, MainThread, SignalThread, Started, OpenFile, OpenFails,
       SetLock, GoUp, Interrupted, InterruptUnlink, TerminateUnlink, MainUnlink, Refuse,
       MainReturns, Dies, ProcessEnds, MovesTo, LockInv, LockTypeOK
  <2>2. lock[fd[s]] \in Server /\ Holder(lock[fd[s]])
    BY <1>1, <2>1 DEF Refuse, Refused, LockInv, LockTypeOK, LockSound
  <2> QED
    BY <1>1, <2>2 DEF Holder
<1>2. LockInv /\ [LockNext]_lockVars
        => [\A s \in Server : stage[s] = "open" /\ stage'[s] = "refused" =>
              \E t \in Server \ {s} : stage[t] # "off"]_lockVars
  BY <1>1
<1> QED
  BY LockInvariant, <1>2, PTL DEF LockSpec, RefusedOnlyByOther
=============================================================================
