------------------------- MODULE ConfigSync_proofs -------------------------
(***************************************************************************)
(* Under a mutex that excludes, a list that is read under the mutex is     *)
(* always the whole list of one version, for any number of notice threads, *)
(* entries and versions, and for failures and crashes anywhere. SyncInv is *)
(* inductive: while the holder fills the table, every entry that it has    *)
(* put there is of its own version, because nobody else gets to fill.      *)
(***************************************************************************)
EXTENDS ConfigSync, TLAPS

\* The state after a start is as SyncTypeOK wants it.
LEMMA StartTyped ==
  /\ AtStart \in [Thread -> {"load", "idle", "ask", "fetch", "save", "write",
                             "process", "fill"}]
  /\ Zeros \in [Thread -> Nat] /\ NoEntries \in [Item -> Nat]
  /\ \A t \in Thread : AtStart[t] # "fill"
  /\ \A i \in Item : NoEntries[i] = 0
  BY DEF AtStart, Zeros, NoEntries

\* What a thread does that has nothing more to do.
LEMMA ReturnTyped ==
  ASSUME SyncTypeOK, NEW t \in Thread, Returns(t)
  PROVE  /\ phase' \in {"load", "download", "up"}
         /\ \E l \in {"idle", "ask"} : pc' = [pc EXCEPT ![t] = l]
  BY DEF SyncTypeOK, Returns, Goto

\* The initial states satisfy the invariant.
LEMMA InvInit == SyncInit => SyncInv
<1> SUFFICES ASSUME SyncInit PROVE SyncInv
  OBVIOUS
<1>1. None \notin Thread
  BY SyncAssumption DEF Thread
<1>2. SyncTypeOK
  BY StartTyped DEF SyncInit, SyncTypeOK
<1>3. HolderSound /\ FillSound /\ ListIsWhole
  BY <1>1, StartTyped DEF SyncInit, HolderSound, FillSound, ListIsWhole
<1> QED
  BY <1>2, <1>3 DEF SyncInv

\* Every step of a thread preserves the invariant.
LEMMA ThreadStep ==
  ASSUME Locked, SyncInv, NEW t \in Thread, Step(t)
  PROVE  SyncInv'
<1> USE DEF SyncInv, SyncTypeOK, HolderSound, FillSound, ListIsWhole, listVars, cacheVars
<1>0. None \notin Thread
  BY SyncAssumption DEF Thread
<1>1. CASE AskVersion(t)
  BY <1>0, <1>1 DEF AskVersion, Goto
<1>2. CASE FetchSame(t)
  BY <1>0, <1>2, ReturnTyped DEF FetchSame
<1>3. CASE FetchNew(t)
  BY <1>0, <1>3 DEF FetchNew, Goto, AfterFetch
<1>4. CASE FetchFails(t)
  BY <1>0, <1>4, ReturnTyped DEF FetchFails
<1>5. CASE OpenCache(t)
  BY <1>0, <1>5 DEF OpenCache, Goto
<1>6. CASE OpenCacheFails(t)
  BY <1>0, <1>6 DEF OpenCacheFails, Goto
<1>7. CASE WriteCache(t)
  BY <1>0, <1>7 DEF WriteCache, Goto
<1>8. CASE BeginProcess(t)
  BY <1>0, <1>8, StartTyped DEF BeginProcess, Goto, MutexFree
<1>9. CASE EndProcess(t)
  BY <1>0, <1>9, ReturnTyped DEF EndProcess
<1>10. ASSUME NEW i \in Item, Fill(t, i)
       PROVE  SyncInv'
  BY <1>0, <1>10 DEF Fill
<1> QED
  BY <1>1, <1>2, <1>3, <1>4, <1>5, <1>6, <1>7, <1>8, <1>9, <1>10 DEF Step

\* Every step of the system preserves the invariant.
LEMMA InvStep ==
  ASSUME Locked, SyncInv, [SyncNext]_configVars
  PROVE  SyncInv'
<1> USE DEF SyncInv, SyncTypeOK, HolderSound, FillSound, ListIsWhole, listVars, cacheVars
<1>0. None \notin Thread /\ MainThread \in Thread
  BY SyncAssumption DEF Thread
<1>1. CASE UNCHANGED configVars
  BY <1>1 DEF configVars
<1>2. CASE LoadCache
  <2>1. CASE cache \in Version
    BY <1>0, <1>2, <2>1 DEF LoadCache, Goto, Version
  <2>2. CASE cache \notin Version
    BY <1>0, <1>2, <2>2, ReturnTyped DEF LoadCache
  <2> QED
    BY <2>1, <2>2
<1>3. ASSUME NEW w \in Updater, Notice(w)
      PROVE  SyncInv'
  BY <1>0, <1>3 DEF Notice, Goto, Thread
<1>4. ASSUME NEW t \in Thread, Step(t)
      PROVE  SyncInv'
  BY <1>4, ThreadStep
<1>5. CASE Publish
  BY <1>5 DEF Publish
<1>6. CASE LoseNotice
  BY <1>6 DEF LoseNotice
<1>7. CASE Crash
  BY <1>0, <1>7, StartTyped DEF Crash
<1> QED
  BY <1>1, <1>2, <1>3, <1>4, <1>5, <1>6, <1>7 DEF SyncNext

\* The invariant holds in every reachable state.
THEOREM SyncInvariant == ASSUME Locked PROVE SyncSafeSpec => []SyncInv
<1>1. SyncInv /\ [SyncNext]_configVars => SyncInv'
  BY InvStep
<1> QED
  BY InvInit, <1>1, PTL DEF SyncSafeSpec

\* Whoever takes m_mutexPolicy or m_mutexCabinets reads the whole list of one
\* version, however many notice threads download at once.
THEOREM WholeLists == ASSUME Locked PROVE SyncSpec => []ListIsWhole
<1>1. SyncInv => ListIsWhole
  BY DEF SyncInv
<1> QED
  BY SyncInvariant, <1>1, PTL DEF SyncSpec
---------------------------------------------------------------------------
(* The types, whether or not the mutex excludes.                           *)

\* Every step of a thread keeps the types.
LEMMA StepTyped ==
  ASSUME SyncTypeOK, NEW t \in Thread, Step(t)
  PROVE  SyncTypeOK'
<1> USE DEF SyncTypeOK, listVars, cacheVars
<1>1. CASE AskVersion(t) \/ FetchNew(t)
  BY <1>1 DEF AskVersion, FetchNew, Goto, AfterFetch
<1>2. CASE FetchSame(t) \/ FetchFails(t)
  BY <1>2, ReturnTyped DEF FetchSame, FetchFails
<1>3. CASE OpenCache(t) \/ OpenCacheFails(t) \/ WriteCache(t)
  BY <1>3 DEF OpenCache, OpenCacheFails, WriteCache, Goto
<1>4. CASE BeginProcess(t)
  BY <1>4, StartTyped DEF BeginProcess, Goto
<1>5. CASE EndProcess(t)
  BY <1>5, ReturnTyped DEF EndProcess
<1>6. ASSUME NEW i \in Item, Fill(t, i) PROVE SyncTypeOK'
  BY <1>6 DEF Fill
<1> QED
  BY <1>1, <1>2, <1>3, <1>4, <1>5, <1>6 DEF Step

\* The initial states have the types.
LEMMA SyncTypeInit == SyncInit => SyncTypeOK
<1> SUFFICES ASSUME SyncInit PROVE SyncTypeOK
  OBVIOUS
<1> QED
  BY StartTyped DEF SyncInit, SyncTypeOK

\* Every step of the system keeps the types.
LEMMA SyncTypeStep ==
  ASSUME SyncTypeOK, [SyncNext]_configVars
  PROVE  SyncTypeOK'
<1> USE DEF SyncTypeOK, listVars, cacheVars
<1>0. None \notin Thread /\ MainThread \in Thread
  BY SyncAssumption DEF Thread
<1>1. CASE UNCHANGED configVars
  BY <1>1 DEF configVars
<1>2. CASE LoadCache
  <2>1. CASE cache \in Version
    BY <1>0, <1>2, <2>1 DEF LoadCache, Goto, Version
  <2>2. CASE cache \notin Version
    BY <1>0, <1>2, <2>2, ReturnTyped DEF LoadCache
  <2> QED
    BY <2>1, <2>2
<1>3. ASSUME NEW w \in Updater, Notice(w)
      PROVE  SyncTypeOK'
  BY <1>3 DEF Notice, Goto, Thread
<1>4. ASSUME NEW t \in Thread, Step(t)
      PROVE  SyncTypeOK'
  BY <1>4, StepTyped
<1>5. CASE Publish
  BY <1>5 DEF Publish
<1>6. CASE LoseNotice
  BY <1>6 DEF LoseNotice
<1>7. CASE Crash
  BY <1>0, <1>7, StartTyped DEF Crash
<1> QED
  BY <1>1, <1>2, <1>3, <1>4, <1>5, <1>6, <1>7 DEF SyncNext

=============================================================================
