---------------------------- MODULE Parts_proofs ----------------------------
(***************************************************************************)
(* Proofs about the parts of the program that share nothing with the rest: *)
(* no file escapes the file monitor, whatever is made and removed while it *)
(* watches and lists; and the dispatcher decides by the entries of the day *)
(* as a reader understands them.                                           *)
(***************************************************************************)
EXTENDS FileMonitor, Timetable, FiniteSetTheorems, SequenceTheorems, TLAPS

---------------------------------------------------------------------------
(* The file monitor. *)

Name == {Root[1]} \cup DirName \cup FileName
Event == [wd : Nat, mask : {"create", "modify", "delete"}, isDir : BOOLEAN, name : Name]
Entry == [path : Seq(Name), expire : Nat]
Pending == [path : Seq(Name), todo : {<<"watch", "list">>, <<"list">>}]

\* Types beyond those of MonitorTypeOK.
Shapes ==
  /\ queue \in Seq(Event) /\ buffer \in Seq(Event)
  /\ fileList \in Seq(Entry) /\ frames \in Seq(Pending)
  /\ nextWd \in Nat \ {0}
  /\ \A wd \in DOMAIN monitorMap : wd \in Nat /\ monitorMap[wd] \in Seq(Name)

\* Folders are under way only while the root or a batch is handled, and events
\* are held only while a batch is.
Phases ==
  /\ phase \in {"build", "read", "events", "delete", "stopped", "end"}
  /\ phase \notin {"build", "events"} => frames = <<>>
  /\ phase # "events" => buffer = <<>>

\* What the kernel watches is there, and is in the map; files are in folders.
Watched ==
  \A wd \in DOMAIN live :
    wd \in DOMAIN monitorMap /\ wd < nextWd /\ live[wd] \in dirs
Housed == \A f \in files : Parent(f) \in dirs

\* A file that the kernel told of, of a folder watched under its name, is listed,
\* or an event of that watch tells of it, or the listing of its folder is still
\* to come.
Told(s, wd, f) ==
  \E i \in DOMAIN s : /\ s[i].wd = wd /\ s[i].mask = "create" /\ ~s[i].isDir
                      /\ s[i].name = Last(f)
PathIn(s, p) == \E i \in DOMAIN s : s[i].path = p
Known(wd, f) ==
  \/ PathIn(fileList, f) \/ PathIn(frames, Parent(f))
  \/ Told(queue, wd, f) \/ Told(buffer, wd, f)
Tracked ==
  \A f \in files \ unheard : \A wd \in DOMAIN live :
    live[wd] = Parent(f) /\ monitorMap[wd] = Parent(f) /\ ~Filtered(Last(f))
      => Known(wd, f)

MonitorInv == MonitorTypeOK /\ Shapes /\ Phases /\ Watched /\ Housed /\ Tracked

---------------------------------------------------------------------------
(* Sequences. *)

\* The sequence of a finite set has its elements, all of them.
LEMMA SetToSeqElements ==
  ASSUME NEW S, IsFiniteSet(S)
  PROVE  /\ SetToSeq(S) \in Seq(S)
         /\ \A x \in S : \E i \in DOMAIN SetToSeq(S) : SetToSeq(S)[i] = x
<1> DEFINE n == Cardinality(S)
<1>1. n \in Nat /\ ExistsBijection(1..n, S)
  BY FS_CardinalityType
<1>2. PICK g \in Bijection(1..n, S) : TRUE
  BY <1>1 DEF ExistsBijection
<1>3. g \in [1..n -> S] /\ IsInjective(g)
  BY <1>2 DEF Bijection, Injection, IsInjective
<1> DEFINE f == SetToSeq(S)
<1>4. f \in [1..n -> S] /\ IsInjective(f)
  BY <1>3 DEF SetToSeq
<1>5. f \in Injection(1..n, S)
  BY <1>4 DEF Injection, IsInjective
<1>6. IsFiniteSet(1..n) /\ Cardinality(1..n) = n
  BY <1>1, FS_Interval
<1>7. f \in Surjection(1..n, S)
  BY <1>5, <1>6, FS_Injection
<1>. QED
  BY <1>1, <1>4, <1>7 DEF Surjection

\* A path is its folder and its name.
LEMMA Paths ==
  ASSUME NEW p \in {Root} \cup SubDirs \cup AllFiles
  PROVE  /\ p \in Seq(Name) /\ p # <<>> /\ Last(p) \in Name
         /\ Parent(p) \in Seq(Name) /\ Append(Parent(p), Last(p)) = p
<1>1. Root \in Seq(Name) /\ Len(Root) = 1
  <2>1. PICK r \in Name : Root = <<r>>
    BY MonitorAssumption DEF Name
  <2>2. <<r>> \in Seq(Name) /\ Len(<<r>>) = 1
    OBVIOUS
  <2>. QED
    BY <2>1, <2>2
<1>2. ASSUME NEW d \in SubDirs
      PROVE  d \in Seq(Name) /\ Len(d) = 2
  <2>1. PICK n \in DirName : d = Append(Root, n)
    BY DEF SubDirs
  <2>2. n \in Name
    BY DEF Name
  <2>3. d \in Seq(Name) /\ Len(d) = Len(Root) + 1
    BY <1>1, <2>1, <2>2, AppendProperties
  <2>. QED
    BY <1>1, <2>3
<1>3. ASSUME NEW f \in AllFiles
      PROVE  f \in Seq(Name) /\ Len(f) \in {2, 3}
  <2>1. PICK d \in {Root} \cup SubDirs, n \in FileName : f = Append(d, n)
    BY DEF AllFiles
  <2>2. n \in Name
    BY DEF Name
  <2>3. d \in Seq(Name) /\ Len(d) \in {1, 2}
    BY <1>1, <1>2
  <2>. QED
    BY <2>1, <2>2, <2>3, AppendProperties
<1>4. p \in Seq(Name) /\ Len(p) \in {1, 2, 3}
  BY <1>1, <1>2, <1>3
<1>5. PICK s \in Seq(Name), n \in Name : p = Append(s, n)
  BY <1>4, SequenceEmptyOrAppend
<1>6. /\ Len(p) = Len(s) + 1 /\ p[Len(s) + 1] = n
      /\ \A i \in 1..Len(s) : p[i] = s[i]
  BY <1>5, AppendProperties
<1>7. Len(s) \in Nat
  BY LenProperties
<1>8. Last(p) = n
  BY <1>6, <1>7 DEF Last
<1>9. Parent(p) \in Seq(Name) /\ Len(Parent(p)) = Len(s)
      /\ \A i \in 1..Len(s) : Parent(p)[i] = p[i]
  <2> DEFINE m == Len(p) - 1
  <2>1. m = Len(s) /\ m \in Int
    BY <1>6, <1>7
  <2>2. \A i \in 1..m : p[i] \in Name
    BY <2>1, <1>6, ElementOfSeq
  <2>3. /\ SubSeq(p, 1, m) \in Seq(Name)
        /\ Len(SubSeq(p, 1, m)) = IF 1 <= m THEN m - 1 + 1 ELSE 0
        /\ \A i \in 1..m - 1 + 1 : SubSeq(p, 1, m)[i] = p[1 + i - 1]
    BY <2>1, <2>2, SubSeqProperties
  <2>. QED
    BY <2>1, <2>3, <1>7 DEF Parent, Front
<1>10. Parent(p) = s
  BY <1>6, <1>9, SeqEqual
<1>. QED
  BY <1>4, <1>5, <1>8, <1>9, <1>10

\* There are finitely many folders and files to be.
LEMMA FinitePaths == IsFiniteSet({Root} \cup SubDirs) /\ IsFiniteSet(AllFiles)
<1>1. IsFiniteSet(SubDirs)
  <2> DEFINE g == [n \in DirName |-> Append(Root, n)]
  <2>1. g \in Surjection(DirName, SubDirs)
    BY DEF Surjection, SubDirs
  <2>. QED
    BY <2>1, MonitorAssumption, FS_Surjection
<1>2. IsFiniteSet({Root} \cup SubDirs)
  <2>1. IsFiniteSet(SubDirs \cup {Root})
    BY <1>1, FS_AddElement
  <2>2. SubDirs \cup {Root} = {Root} \cup SubDirs
    OBVIOUS
  <2>. QED
    BY <2>1, <2>2
<1>3. IsFiniteSet(({Root} \cup SubDirs) \X FileName)
  BY <1>2, MonitorAssumption, FS_Product
<1>4. IsFiniteSet(AllFiles)
  <2> DEFINE g == [c \in ({Root} \cup SubDirs) \X FileName |-> Append(c[1], c[2])]
  <2>1. g \in Surjection(({Root} \cup SubDirs) \X FileName, AllFiles)
    <3>1. \A c \in ({Root} \cup SubDirs) \X FileName : g[c] \in AllFiles
      BY DEF AllFiles
    <3>2. ASSUME NEW f \in AllFiles
          PROVE  \E c \in ({Root} \cup SubDirs) \X FileName : g[c] = f
      <4>1. PICK d \in {Root} \cup SubDirs, n \in FileName : f = Append(d, n)
        BY DEF AllFiles
      <4>2. <<d, n>> \in ({Root} \cup SubDirs) \X FileName /\ g[<<d, n>>] = f
        BY <4>1
      <4>. QED
        BY <4>2
    <3>. QED
      BY <3>1, <3>2 DEF Surjection
  <2>. QED
    BY <2>1, <1>3, FS_Surjection
<1>. QED
  BY <1>2, <1>4

\* A name in a folder is a file in that folder, and the name is its last.
LEMMA FileIn ==
  ASSUME NEW d \in {Root} \cup SubDirs, NEW n \in FileName
  PROVE  /\ Append(d, n) \in AllFiles
         /\ Parent(Append(d, n)) = d /\ Last(Append(d, n)) = n
<1>1. Append(d, n) \in AllFiles
  BY DEF AllFiles
<1> DEFINE f == Append(d, n)
<1>2. Parent(f) \in Seq(Name) /\ Last(f) \in Name /\ Append(Parent(f), Last(f)) = f
  BY <1>1, Paths
<1>3. d \in Seq(Name) /\ n \in Name
  BY Paths DEF Name
<1> DEFINE q == Parent(f)  m == Last(f)
<1>4. q \in Seq(Name) /\ m \in Name /\ Append(q, m) = Append(d, n)
  BY <1>2
<1> HIDE DEF q, m, f
<1>5. q = d /\ m = n
  BY <1>3, <1>4, AppendInjective
<1>. QED
  BY <1>1, <1>5 DEF q, m, f

LEMMA FileNames == ASSUME NEW f \in AllFiles PROVE Last(f) \in FileName
<1>1. PICK d \in {Root} \cup SubDirs, n \in FileName : f = Append(d, n)
  BY DEF AllFiles
<1>. QED
  BY <1>1, FileIn

\* What the kernel reports are events, one for each watch of the folder.
LEMMA Reports ==
  ASSUME MonitorTypeOK, Shapes, NEW p \in SubDirs \cup AllFiles,
         NEW mask \in {"create", "modify", "delete"}, NEW isDir \in BOOLEAN
  PROVE  /\ Reported(p, mask, isDir) \in Seq(Event)
         /\ mask = "create" /\ ~isDir =>
              \A wd \in WatchesOf(Parent(p)) : Told(Reported(p, mask, isDir), wd, p)
<1> DEFINE W == WatchesOf(Parent(p))
           E(wd) == [wd |-> wd, mask |-> mask, isDir |-> isDir, name |-> Last(p)]
           S == {E(wd) : wd \in W}
<1>1. W \subseteq 1..nextWd - 1
  BY DEF MonitorTypeOK, WatchesOf
<1>2. IsFiniteSet(W)
  <2>1. nextWd - 1 \in Int
    BY DEF Shapes
  <2>2. IsFiniteSet(1..nextWd - 1)
    BY <2>1, FS_Interval
  <2>. QED
    BY <1>1, <2>2, FS_Subset
<1>3. IsFiniteSet(S)
  <2>1. [wd \in W |-> E(wd)] \in Surjection(W, S)
    BY DEF Surjection
  <2>. QED
    BY <1>2, <2>1, FS_Surjection
<1>4. S \subseteq Event
  BY <1>1, Paths DEF Event, Shapes
<1>5. Reported(p, mask, isDir) = SetToSeq(S)
  BY DEF Reported
<1>6. /\ SetToSeq(S) \in Seq(S)
      /\ \A x \in S : \E i \in DOMAIN SetToSeq(S) : SetToSeq(S)[i] = x
  BY <1>3, SetToSeqElements
<1>7. Reported(p, mask, isDir) \in Seq(Event)
  BY <1>4, <1>5, <1>6, SeqMonotonic
<1>8. ASSUME NEW wd \in W, mask = "create", ~isDir
      PROVE  Told(Reported(p, mask, isDir), wd, p)
  <2>1. E(wd) \in S
    OBVIOUS
  <2>2. PICK i \in DOMAIN SetToSeq(S) : SetToSeq(S)[i] = E(wd)
    BY <2>1, <1>6
  <2>3. /\ SetToSeq(S)[i].wd = wd /\ SetToSeq(S)[i].mask = "create"
        /\ ~SetToSeq(S)[i].isDir /\ SetToSeq(S)[i].name = Last(p)
    <3>1. E(wd).wd = wd /\ E(wd).mask = mask /\ E(wd).isDir = isDir /\ E(wd).name = Last(p)
      BY Zenon
    <3> HIDE DEF E, S
    <3>. QED
      BY <1>8, <2>2, <3>1, Zenon
  <2> HIDE DEF S
  <2>. QED
    BY <2>3, <1>5, Zenon DEF Told
<1>. QED
  BY <1>7, <1>8

\* Events that are joined, or of which the first is taken, still tell.
LEMMA ToldJoined ==
  ASSUME NEW s \in Seq(Event), NEW t \in Seq(Event), NEW wd, NEW f,
         Told(s, wd, f) \/ Told(t, wd, f)
  PROVE  Told(s \o t, wd, f)
<1>1. CASE Told(s, wd, f)
  <2>1. PICK i \in DOMAIN s : /\ s[i].wd = wd /\ s[i].mask = "create" /\ ~s[i].isDir
                              /\ s[i].name = Last(f)
    BY <1>1 DEF Told
  <2>2. i \in DOMAIN (s \o t) /\ (s \o t)[i] = s[i]
    BY <2>1, ConcatProperties, LenProperties
  <2>. QED
    BY <2>1, <2>2 DEF Told
<1>2. CASE Told(t, wd, f)
  <2>1. PICK i \in DOMAIN t : /\ t[i].wd = wd /\ t[i].mask = "create" /\ ~t[i].isDir
                              /\ t[i].name = Last(f)
    BY <1>2 DEF Told
  <2>2. Len(s) + i \in DOMAIN (s \o t) /\ (s \o t)[Len(s) + i] = t[i]
    BY <2>1, ConcatProperties, LenProperties
  <2>. QED
    BY <2>1, <2>2 DEF Told
<1>. QED
  BY <1>1, <1>2

LEMMA ToldTaken ==
  ASSUME NEW s \in Seq(Event), s # <<>>, NEW wd, NEW f, Told(s, wd, f)
  PROVE  \/ /\ Head(s).wd = wd /\ Head(s).mask = "create" /\ ~Head(s).isDir
            /\ Head(s).name = Last(f)
         \/ Told(Tail(s), wd, f)
<1>1. PICK i \in DOMAIN s : /\ s[i].wd = wd /\ s[i].mask = "create" /\ ~s[i].isDir
                            /\ s[i].name = Last(f)
  BY DEF Told
<1>2. i = 1 => Head(s) = s[i]
  OBVIOUS
<1>3. i # 1 => i - 1 \in DOMAIN Tail(s) /\ Tail(s)[i - 1] = s[i]
  OBVIOUS
<1>. QED
  BY <1>1, <1>2, <1>3 DEF Told

---------------------------------------------------------------------------
(* The steps. *)

\* A queue that grows or is full, in a state where the rest of what is known stays.
LEMMA QueueGrows ==
  ASSUME MonitorInv, NEW s \in Seq(Event), queue' \in {queue, queue \o s},
         UNCHANGED <<nextWd, ownVars, seconds>>, DOMAIN live' \subseteq DOMAIN live,
         \A f \in files' \ unheard' : \A wd \in DOMAIN live' :
           live'[wd] = Parent(f) =>
             \/ f \in files \ unheard /\ live[wd] = Parent(f)
             \/ queue' = queue \o s /\ Told(s, wd, f),
         ops' \in 0..MaxOps, unheard' \subseteq files',
         files' \subseteq AllFiles, dirs' \subseteq {Root} \cup SubDirs,
         \A wd \in DOMAIN live' : live'[wd] \in dirs',
         \A f \in files' : Parent(f) \in dirs'
  PROVE  MonitorInv'
<1>0. DOMAIN monitorMap' = DOMAIN monitorMap /\ monitorMap' = monitorMap
  BY DEF ownVars
<1>1. MonitorTypeOK'
  BY <1>0 DEF MonitorInv, MonitorTypeOK, ownVars
<1>2. Shapes'
  <2>1. queue' \in Seq(Event)
    BY ConcatProperties DEF MonitorInv, Shapes
  <2>. QED
    BY <2>1 DEF MonitorInv, Shapes, ownVars
<1>3. Phases' /\ Watched' /\ Housed'
  BY DEF MonitorInv, Phases, Watched, Housed, ownVars
<1>4. \A wd, f : Told(queue, wd, f) => Told(queue', wd, f)
  BY ToldJoined DEF MonitorInv, Shapes
<1>5. Tracked'
  <2>1. ASSUME NEW f \in files' \ unheard', NEW wd \in DOMAIN live', live'[wd] = Parent(f),
               monitorMap[wd] = Parent(f), ~Filtered(Last(f))
        PROVE  Known(wd, f)'
    <3>1. CASE queue' = queue \o s /\ Told(s, wd, f)
      <4>1. Told(queue', wd, f)
        BY <3>1, ToldJoined DEF MonitorInv, Shapes
      <4>. QED
        BY <4>1 DEF Known, Told
    <3>2. CASE f \in files \ unheard /\ live[wd] = Parent(f)
      <4>1. Known(wd, f)
        BY <3>2, <2>1 DEF MonitorInv, Tracked
      <4>2. fileList' = fileList /\ frames' = frames /\ buffer' = buffer
        BY DEF ownVars
      <4>3. CASE Told(queue, wd, f)
        <5>1. Told(queue', wd, f)
          BY <1>4, <4>3
        <5>. QED
          BY <5>1 DEF Known, Told
      <4>. QED
        BY <4>1, <4>2, <4>3 DEF Known, Told
    <3>. QED
      BY <2>1, <3>1, <3>2
  <2>. QED
    BY <1>0, <2>1 DEF Tracked, Filtered
<1>. QED
  BY <1>1, <1>2, <1>3, <1>5 DEF MonitorInv

LEMMA OthersStep == ASSUME MonitorInv, Others PROVE MonitorInv'
<1> USE DEF MonitorInv
<1>1. MonitorTypeOK /\ Shapes /\ Watched /\ Housed
  OBVIOUS
<1>2. ASSUME Free PROVE ops + 1 \in 0..MaxOps
  BY <1>1, <1>2, MonitorAssumption DEF Free, MonitorTypeOK
<1>3. ASSUME NEW p \in AllFiles, MakeFile(p) PROVE MonitorInv'
  <2> DEFINE r == Reported(p, "create", FALSE)
  <2>1. r \in Seq(Event) /\ \A wd \in WatchesOf(Parent(p)) : Told(r, wd, p)
    BY <1>1, Reports
  <2>2. /\ queue' = Queued(r) /\ UNCHANGED <<nextWd, ownVars, live, seconds, dirs>>
        /\ files' = files \cup {p} /\ Parent(p) \in dirs
        /\ unheard' = IF Overflows(r) THEN unheard \cup {p} ELSE unheard
    BY <1>3 DEF MakeFile, Counted
  <2>3. ops' \in 0..MaxOps
    BY <1>2, <1>3 DEF MakeFile, Counted
  <2> HIDE DEF r
  <2>4. \/ Overflows(r) /\ queue' = queue /\ unheard' = unheard \cup {p}
        \/ queue' = queue \o r /\ unheard' = unheard
    BY <2>2 DEF Queued
  <2>5. \A f \in files' \ unheard' : \A wd \in DOMAIN live' :
           live'[wd] = Parent(f) =>
             \/ f \in files \ unheard /\ live[wd] = Parent(f)
             \/ queue' = queue \o r /\ Told(r, wd, f)
    BY <2>1, <2>2, <2>4 DEF WatchesOf
  <2>6. /\ unheard' \subseteq files' /\ files' \subseteq AllFiles
        /\ \A f \in files' : Parent(f) \in dirs'
    BY <1>1, <2>2, <2>4 DEF MonitorTypeOK, Housed
  <2>. QED
    BY <1>1, <2>1, <2>2, <2>3, <2>4, <2>5, <2>6, QueueGrows DEF MonitorTypeOK, Watched
<1>4. ASSUME NEW p \in AllFiles, WriteFile(p) \/ RemoveFile(p) PROVE MonitorInv'
  <2>1. PICK r \in Seq(Event) : queue' \in {queue, queue \o r}
    BY <1>1, <1>4, Reports DEF WriteFile, RemoveFile, Queued
  <2>2. /\ UNCHANGED <<nextWd, ownVars, live, seconds, dirs>>
        /\ files' \subseteq files /\ unheard' = unheard \cap files'
    BY <1>1, <1>4 DEF WriteFile, RemoveFile, Counted, fsVars, MonitorTypeOK
  <2>3. ops' \in 0..MaxOps
    BY <1>2, <1>4 DEF WriteFile, RemoveFile, Counted
  <2>. QED
    BY <1>1, <2>1, <2>2, <2>3, QueueGrows DEF MonitorTypeOK, Watched, Housed
<1>5. ASSUME NEW p \in SubDirs, MakeDir(p) PROVE MonitorInv'
  <2>1. PICK r \in Seq(Event) : queue' \in {queue, queue \o r}
    BY <1>1, <1>5, Reports DEF MakeDir, Queued
  <2>2. /\ UNCHANGED <<nextWd, ownVars, live, seconds, files, unheard>>
        /\ dirs' = dirs \cup {p}
    BY <1>5 DEF MakeDir, Counted
  <2>3. ops' \in 0..MaxOps
    BY <1>2, <1>5 DEF MakeDir, Counted
  <2>. QED
    BY <1>1, <2>1, <2>2, <2>3, QueueGrows DEF MonitorTypeOK, Watched, Housed
<1>6. ASSUME NEW p \in SubDirs, RemoveDir(p) PROVE MonitorInv'
  <2>1. PICK r \in Seq(Event) : queue' \in {queue, queue \o r}
    BY <1>1, <1>6, Reports DEF RemoveDir, Queued
  <2>2. /\ UNCHANGED <<nextWd, ownVars, seconds, files, unheard>> /\ dirs' = dirs \ {p}
        /\ DOMAIN live' = DOMAIN live \ WatchesOf(p)
        /\ \A wd \in DOMAIN live' : live'[wd] = live[wd]
        /\ \A f \in files : Parent(f) # p
    BY <1>6 DEF RemoveDir, Without, CountedWithWatches
  <2>3. ops' \in 0..MaxOps
    BY <1>2, <1>6 DEF RemoveDir, CountedWithWatches
  <2>4. \A wd \in DOMAIN live' : live'[wd] \in dirs'
    BY <1>1, <2>2 DEF WatchesOf, Watched
  <2>5. /\ DOMAIN live' \subseteq DOMAIN live /\ dirs' \subseteq {Root} \cup SubDirs
        /\ files' \subseteq AllFiles /\ unheard' \subseteq files'
        /\ \A f \in files' : Parent(f) \in dirs'
    BY <1>1, <2>2 DEF MonitorTypeOK, Housed
  <2>. QED
    BY <2>1, <2>2, <2>3, <2>4, <2>5, QueueGrows
<1>7. ASSUME NEW p \in AllFiles, MoveFileIn(p) PROVE MonitorInv'
  <2>1. /\ UNCHANGED <<nextWd, ownVars, live, seconds, dirs, queue>> /\ Parent(p) \in dirs
        /\ files' = files \cup {p} /\ unheard' = unheard \cup {p}
    BY <1>7 DEF MoveFileIn, Counted
  <2>2. ops' \in 0..MaxOps
    BY <1>2, <1>7 DEF MoveFileIn, Counted
  <2>3. <<>> \in Seq(Event)
    BY EmptySeq
  <2>. QED
    BY <1>1, <2>1, <2>2, <2>3, QueueGrows DEF MonitorTypeOK, Watched, Housed
<1>8. ASSUME NEW p \in AllFiles, NEW q \in AllFiles, MoveFile(p, q) PROVE MonitorInv'
  <2>1. /\ UNCHANGED <<nextWd, ownVars, live, seconds, dirs, queue>> /\ Parent(q) \in dirs
        /\ p # q /\ files' = (files \ {p}) \cup {q}
        /\ unheard' = (unheard \ {p}) \cup ({q} \ files)
    BY <1>8 DEF MoveFile, Counted
  <2>2. ops' \in 0..MaxOps
    BY <1>2, <1>8 DEF MoveFile, Counted
  <2>3. <<>> \in Seq(Event)
    BY EmptySeq
  <2>4. files' \ unheard' \subseteq files \ unheard
    BY <2>1
  <2>5. unheard' \subseteq files' /\ files' \subseteq AllFiles
    BY <1>1, <2>1 DEF MonitorTypeOK
  <2>. QED
    BY <1>1, <2>1, <2>2, <2>3, <2>4, <2>5, QueueGrows DEF MonitorTypeOK, Watched, Housed
<1>9. ASSUME NEW p \in SubDirs, NEW q \in SubDirs, MoveDir(p, q) PROVE MonitorInv'
  <2> DEFINE inside == {f \in files : Parent(f) = p}
             moved == {Append(q, Last(f)) : f \in inside}
  <2>1. /\ UNCHANGED <<nextWd, ownVars, seconds, queue>> /\ q \notin dirs
        /\ files' = (files \ inside) \cup moved
        /\ unheard' = (unheard \ inside) \cup moved
        /\ dirs' = (dirs \ {p}) \cup {q}
        /\ live' = [wd \in DOMAIN live |-> IF live[wd] = p THEN q ELSE live[wd]]
    BY <1>9 DEF MoveDir, CountedWithWatches
  <2>2. ops' \in 0..MaxOps
    BY <1>2, <1>9 DEF MoveDir, CountedWithWatches
  <2>3. <<>> \in Seq(Event)
    BY EmptySeq
  <2>4. \A f \in moved : f \in AllFiles /\ Parent(f) = q
    BY <1>1, FileIn, FileNames DEF MonitorTypeOK
  <2>5. \A f \in files \ inside : Parent(f) \in dirs \ {p}
    BY <1>1 DEF Housed
  <2> HIDE DEF inside, moved
  <2>6. \A f \in files' : Parent(f) \in dirs'
    BY <2>1, <2>4, <2>5
  <2>7. unheard' \subseteq files' /\ files' \subseteq AllFiles
        /\ dirs' \subseteq {Root} \cup SubDirs
    BY <1>1, <2>1, <2>4 DEF MonitorTypeOK
  <2>8. /\ DOMAIN live' = DOMAIN live
        /\ \A wd \in DOMAIN live' : live'[wd] \in dirs'
    BY <1>1, <2>1 DEF Watched
  <2>9. \A f \in files' \ unheard' : \A wd \in DOMAIN live' :
           live'[wd] = Parent(f) => f \in files \ unheard /\ live[wd] = Parent(f)
    <3>1. ASSUME NEW f \in files' \ unheard' PROVE f \in files \ unheard /\ Parent(f) # q
      BY <2>1, <2>5
    <3>. QED
      BY <2>1, <3>1
  <2>. QED
    BY <2>1, <2>2, <2>3, <2>6, <2>7, <2>8, <2>9, QueueGrows
<1>. QED
  BY <1>3, <1>4, <1>5, <1>6, <1>7, <1>8, <1>9 DEF Others

\* The frame under way becomes the rest of its steps.
LEMMA FrameTaken ==
  ASSUME Shapes, frames # <<>>
  PROVE  /\ Head(frames) = frames[1] /\ Head(frames) \in Pending
         /\ Rest(Head(frames)) \in Seq(Pending) /\ Tail(frames) \in Seq(Pending)
         /\ Head(Head(frames).todo) = "watch" =>
              PathIn(Rest(Head(frames)), Head(frames).path)
         /\ \A i \in DOMAIN frames : i # 1 =>
              i - 1 \in DOMAIN Tail(frames) /\ Tail(frames)[i - 1] = frames[i]
<1> DEFINE h == Head(frames)
<1>1. frames \in Seq(Pending)
  BY DEF Shapes
<1>2. h = frames[1] /\ h \in Pending /\ Tail(frames) \in Seq(Pending)
  BY <1>1
<1>3. \A i \in DOMAIN frames : i # 1 =>
        i - 1 \in DOMAIN Tail(frames) /\ Tail(frames)[i - 1] = frames[i]
  BY <1>1
<1> HIDE DEF h
<1>4. CASE h.todo = <<"list">>
  <2>1. Len(h.todo) = 1 /\ Head(h.todo) = "list"
    BY <1>4
  <2>2. Rest(h) = <<>> /\ <<>> \in Seq(Pending)
    BY <2>1 DEF Rest
  <2>. QED
    BY <1>2, <1>3, <2>1, <2>2 DEF h
<1>5. CASE h.todo = <<"watch", "list">>
  <2> DEFINE r == [h EXCEPT !.todo = Tail(@)]
  <2>1. Len(h.todo) = 2 /\ Tail(h.todo) = <<"list">>
    BY <1>5
  <2>2. Rest(h) = <<r>>
    BY <2>1 DEF Rest
  <2>3. r \in Pending /\ r.path = h.path
    BY <1>2, <2>1 DEF Pending
  <2> HIDE DEF r
  <2>4. <<r>> \in Seq(Pending) /\ PathIn(<<r>>, h.path)
    BY <2>3 DEF PathIn
  <2>. QED
    BY <1>2, <1>3, <2>2, <2>4 DEF h
<1>6. h.todo \in {<<"watch", "list">>, <<"list">>}
  BY <1>2 DEF Pending
<1>. QED
  BY <1>4, <1>5, <1>6

\* A path that is in s or in t is in their join.
LEMMA PathJoined ==
  ASSUME NEW T, NEW s \in Seq(T), NEW t \in Seq(T), NEW p,
         PathIn(s, p) \/ PathIn(t, p)
  PROVE  PathIn(s \o t, p)
<1>1. ASSUME NEW i \in DOMAIN s, s[i].path = p
      PROVE  i \in DOMAIN (s \o t) /\ (s \o t)[i].path = p
  BY <1>1
<1>2. ASSUME NEW i \in DOMAIN t, t[i].path = p
      PROVE  Len(s) + i \in DOMAIN (s \o t) /\ (s \o t)[Len(s) + i].path = p
  BY <1>2
<1>. QED
  BY <1>1, <1>2 DEF PathIn

LEMMA WatchStep == ASSUME MonitorInv, Watch PROVE MonitorInv'
<1> USE DEF MonitorInv
<1> DEFINE p == Head(frames).path
           wd == IF p \notin dirs THEN 0
                 ELSE IF WatchesOf(p) # {} THEN CHOOSE w \in WatchesOf(p) : TRUE
                 ELSE nextWd
<1>1. /\ frames # <<>> /\ Head(Head(frames).todo) = "watch"
      /\ monitorMap' = With(monitorMap, wd, p)
      /\ live' = IF wd = 0 THEN live ELSE With(live, wd, p)
      /\ nextWd' = IF wd = nextWd THEN nextWd + 1 ELSE nextWd
      /\ frames' = Rest(Head(frames)) \o Tail(frames)
      /\ UNCHANGED <<fsVars, queue, fileList, buffer, phase, bRun, iter, seconds, ops>>
  BY DEF Watch
<1>2. /\ p \in Seq(Name) /\ Rest(Head(frames)) \in Seq(Pending) /\ Tail(frames) \in Seq(Pending)
      /\ PathIn(Rest(Head(frames)), p)
      /\ \A i \in DOMAIN frames : i # 1 =>
           i - 1 \in DOMAIN Tail(frames) /\ Tail(frames)[i - 1] = frames[i]
      /\ frames[1].path = p
  BY <1>1, FrameTaken DEF Pending
<1>3. nextWd \in Nat \ {0} /\ DOMAIN live \subseteq 1..nextWd - 1
  BY DEF Shapes, MonitorTypeOK
<1>4. \/ wd = 0 /\ p \notin dirs
      \/ wd \in DOMAIN live /\ live[wd] = p /\ p \in dirs /\ wd \in 1..nextWd - 1
      \/ wd = nextWd /\ p \in dirs
  BY <1>3 DEF WatchesOf
<1> HIDE DEF wd
<1>5. wd \in Nat /\ nextWd' \in Nat \ {0} /\ nextWd <= nextWd' /\ (wd # 0 => wd < nextWd')
  BY <1>1, <1>3, <1>4
<1>6. DOMAIN monitorMap' = DOMAIN monitorMap \cup {wd} /\ monitorMap'[wd] = p
      /\ \A w \in DOMAIN monitorMap \ {wd} : monitorMap'[w] = monitorMap[w]
  BY <1>1 DEF With
<1>7. DOMAIN live' = (IF wd = 0 THEN DOMAIN live ELSE DOMAIN live \cup {wd})
      /\ (wd # 0 => live'[wd] = p) /\ \A w \in DOMAIN live \ {wd} : live'[w] = live[w]
  BY <1>1 DEF With
<1>8. ASSUME NEW w \in DOMAIN live'
      PROVE  \/ w = wd /\ w # 0 /\ live'[w] = p
             \/ w # wd /\ w \in DOMAIN live /\ live'[w] = live[w]
  BY <1>3, <1>7
<1>9. DOMAIN live' \subseteq 1..nextWd' - 1
  BY <1>3, <1>5, <1>8
<1>10. MonitorTypeOK'
  <2>1. DOMAIN live' \subseteq DOMAIN monitorMap'
    BY <1>6, <1>7 DEF MonitorTypeOK
  <2>. QED
    BY <1>1, <1>9, <2>1 DEF MonitorTypeOK, fsVars
<1>11. frames' \in Seq(Pending)
  BY <1>1, <1>2, ConcatProperties
<1>12. Shapes'
  BY <1>1, <1>2, <1>5, <1>6, <1>11 DEF Shapes
<1>13. Phases' /\ Housed'
  BY <1>1 DEF Phases, Housed, fsVars
<1>14. Watched'
  <2>1. ASSUME NEW w \in DOMAIN live'
        PROVE  /\ w \in DOMAIN monitorMap' /\ w < nextWd' /\ live'[w] \in dirs'
    <3>1. CASE w = wd /\ w # 0 /\ live'[w] = p
      BY <1>1, <1>4, <1>5, <1>6, <3>1 DEF fsVars
    <3>2. CASE w # wd /\ w \in DOMAIN live /\ live'[w] = live[w]
      BY <1>1, <1>3, <1>5, <1>6, <3>2 DEF fsVars, Watched
    <3>. QED
      BY <1>8, <3>1, <3>2
  <2>. QED
    BY <2>1 DEF Watched
<1>15. Tracked'
  <2>1. ASSUME NEW f \in files \ unheard, NEW w \in DOMAIN live', live'[w] = Parent(f),
               monitorMap'[w] = Parent(f), ~Filtered(Last(f))
        PROVE  Known(w, f)'
    <3>1. CASE Parent(f) = p
      <4>1. PathIn(frames', p)
        <5> DEFINE r == Rest(Head(frames))  t == Tail(frames)
        <5>1. r \in Seq(Pending) /\ t \in Seq(Pending) /\ PathIn(r, p)
          BY <1>2
        <5> HIDE DEF p, r, t
        <5>2. PathIn(r \o t, p)
          BY <5>1, PathJoined
        <5>. QED
          BY <1>1, <5>2 DEF r, t
      <4>. QED
        BY <3>1, <4>1 DEF Known
    <3>2. CASE Parent(f) # p
      <4>1. w \in DOMAIN live /\ live[w] = Parent(f) /\ monitorMap[w] = Parent(f)
        BY <1>6, <1>8, <2>1, <3>2 DEF Watched
      <4>2. Known(w, f)
        BY <4>1, <2>1 DEF Tracked
      <4>3. ASSUME NEW i \in DOMAIN frames, frames[i].path = Parent(f)
            PROVE  PathIn(frames', Parent(f))
        <5>1. i - 1 \in DOMAIN Tail(frames) /\ Tail(frames)[i - 1].path = Parent(f)
          BY <1>2, <3>2, <4>3
        <5> DEFINE r == Rest(Head(frames))  t == Tail(frames)  q == Parent(f)
        <5>2. r \in Seq(Pending) /\ t \in Seq(Pending) /\ PathIn(t, q)
          BY <1>2, <5>1 DEF PathIn
        <5> HIDE DEF p, r, t, q
        <5>3. PathIn(r \o t, q)
          BY <5>2, PathJoined
        <5>. QED
          BY <1>1, <5>3 DEF r, t, q
      <4>. QED
        BY <1>1, <4>2, <4>3 DEF Known, Told, PathIn
    <3>. QED
      BY <3>1, <3>2
  <2>. QED
    BY <1>1, <2>1 DEF Tracked, fsVars, Filtered
<1>. QED
  BY <1>10, <1>12, <1>13, <1>14, <1>15

LEMMA ListStep == ASSUME MonitorInv, ListFolder PROVE MonitorInv'
<1> USE DEF MonitorInv
<1> DEFINE p == Head(frames).path
           subs == {d \in dirs : Len(d) = Len(p) + 1 /\ Parent(d) = p /\ Last(d) \notin Dot}
           new == {f \in files : Parent(f) = p /\ ~Filtered(Last(f))}
           F == {Frame(d) : d \in subs}
           L == {Listed(f, seconds + Expire) : f \in new}
           r == Rest(Head(frames))
           t == Tail(frames)
<1>1. /\ frames # <<>>
      /\ IF p \in dirs
           THEN /\ frames' = SetToSeq(F) \o r \o t
                /\ fileList' = fileList \o SetToSeq(L)
                /\ unheard' = {f \in unheard : Parent(f) # p}
           ELSE frames' = r \o t /\ fileList' = fileList /\ unheard' = unheard
      /\ UNCHANGED <<dirs, files, kernVars, monitorMap, buffer, phase, bRun, iter,
                     seconds, ops>>
  BY DEF ListFolder
<1>2. /\ r \in Seq(Pending) /\ t \in Seq(Pending)
      /\ \A i \in DOMAIN frames : i # 1 => i - 1 \in DOMAIN t /\ t[i - 1] = frames[i]
      /\ frames[1].path = p
  BY <1>1, FrameTaken DEF Pending
<1>3. IsFiniteSet(F) /\ F \subseteq Pending
  <2>1. IsFiniteSet(subs)
    BY FinitePaths, FS_Subset DEF MonitorTypeOK
  <2>2. [d \in subs |-> Frame(d)] \in Surjection(subs, F)
    BY DEF Surjection
  <2>3. \A d \in subs : Frame(d) \in Pending
    BY Paths DEF Frame, Steps, Pending, MonitorTypeOK
  <2>. QED
    BY <2>1, <2>2, <2>3, FS_Surjection
<1>4. IsFiniteSet(L) /\ L \subseteq Entry
  <2>1. IsFiniteSet(new)
    BY FinitePaths, FS_Subset DEF MonitorTypeOK
  <2>2. [f \in new |-> Listed(f, seconds + Expire)] \in Surjection(new, L)
    BY DEF Surjection
  <2>3. seconds + Expire \in Nat
    BY MonitorAssumption DEF MonitorTypeOK
  <2>4. \A f \in new : Listed(f, seconds + Expire) \in Entry
    BY <2>3, Paths DEF Listed, Entry, MonitorTypeOK
  <2>. QED
    BY <2>1, <2>2, <2>4, FS_Surjection
<1>5. SetToSeq(F) \in Seq(Pending) /\ SetToSeq(L) \in Seq(Entry)
  BY <1>3, <1>4, SetToSeqElements, SeqMonotonic
<1>6. ASSUME NEW f \in new
      PROVE  PathIn(SetToSeq(L), f)
  <2>1. Listed(f, seconds + Expire) \in L /\ Listed(f, seconds + Expire).path = f
    BY DEF Listed
  <2>. QED
    <3> HIDE DEF L
    <3>1. PICK i \in DOMAIN SetToSeq(L) : SetToSeq(L)[i] = Listed(f, seconds + Expire)
      BY <1>4, <2>1, SetToSeqElements
    <3>. QED
      BY <2>1, <3>1 DEF PathIn
<1>7. \A f \in files : Parent(f) = p /\ ~Filtered(Last(f)) => f \in new
  OBVIOUS
<1> DEFINE sf == SetToSeq(F)  sl == SetToSeq(L)
<1> HIDE DEF F, L, r, t, subs, new, p, sf, sl
<1>8. fileList \in Seq(Entry) /\ frames' \in Seq(Pending) /\ fileList' \in Seq(Entry)
      /\ Len(fileList) <= Len(fileList')
  <2>1. frames' \in Seq(Pending)
    <3>1. SetToSeq(F) \o r \o t \in Seq(Pending) /\ r \o t \in Seq(Pending)
      BY <1>2, <1>5
    <3>2. frames' \in {SetToSeq(F) \o r \o t, r \o t}
      BY <1>1
    <3>. QED
      BY <3>1, <3>2, Zenon
  <2>2. /\ fileList \in Seq(Entry) /\ fileList \o sl \in Seq(Entry)
        /\ Len(fileList) <= Len(fileList \o sl)
    BY <1>5 DEF Shapes, sl
  <2>3. fileList' \in {fileList, fileList \o sl}
    BY <1>1 DEF sl
  <2>4. Len(fileList) \in Nat
    BY <2>2
  <2>5. CASE fileList' = fileList
    BY <2>1, <2>2, <2>4, <2>5
  <2>6. CASE fileList' = fileList \o sl
    BY <2>1, <2>2, <2>6, Zenon
  <2>. QED
    BY <2>3, <2>5, <2>6
<1>9. MonitorTypeOK'
  <2>1. iter \in 1..Len(fileList') + 1
    BY <1>8 DEF MonitorTypeOK
  <2>. QED
    BY <1>1, <2>1 DEF MonitorTypeOK, kernVars
<1>10. Shapes' /\ Watched' /\ Housed'
  BY <1>1, <1>8 DEF Shapes, Watched, Housed, kernVars
<1>11. Phases'
  BY <1>1 DEF Phases
<1>12. Tracked'
  <2>1. ASSUME NEW f \in files \ unheard', NEW w \in DOMAIN live, live[w] = Parent(f),
               monitorMap[w] = Parent(f), ~Filtered(Last(f))
        PROVE  Known(w, f)'
    <3> DEFINE q == Parent(f)
    <3>1. q \in dirs
      BY <2>1 DEF Watched
    <3>5. CASE q = p
      <4>1. PathIn(sl, f)
        BY <1>6, <1>7, <2>1, <3>5 DEF sl
      <4>2. PathIn(fileList \o sl, f)
        BY <1>5, <1>8, <4>1, PathJoined DEF sl
      <4>3. fileList' = fileList \o sl
        BY <1>1, <3>1, <3>5 DEF sl
      <4>. QED
        BY <4>2, <4>3 DEF Known
    <3>6. ASSUME q # p PROVE Known(w, f)
      <4>1. f \notin unheard
        BY <1>1, <2>1, <3>6
      <4>. QED
        BY <2>1, <4>1 DEF Tracked
    <3>2. CASE PathIn(fileList, f)
      <4>1. PathIn(fileList \o sl, f)
        BY <1>5, <1>8, <3>2, PathJoined DEF sl
      <4>2. PathIn(fileList', f)
        BY <1>1, <3>2, <4>1 DEF sl
      <4>. QED
        BY <4>2 DEF Known
    <3>3. CASE Told(queue, w, f) \/ Told(buffer, w, f)
      BY <1>1, <3>3 DEF Known, Told, kernVars
    <3>4. CASE PathIn(frames, q) /\ q # p
      <4>1. PICK i \in DOMAIN frames : frames[i].path = q
        BY <3>4 DEF PathIn
      <4>2. PathIn(t, q)
        BY <1>2, <3>4, <4>1 DEF PathIn
      <4> HIDE DEF q
      <4>3. PathIn(r \o t, q)
        BY <1>2, <4>2, PathJoined
      <4>4. sf \o r \in Seq(Pending) /\ sf \in Seq(Pending)
        BY <1>2, <1>5 DEF sf
      <4>5. PathIn((sf \o r) \o t, q)
        BY <1>2, <4>2, <4>4, PathJoined
      <4>6. PathIn(frames', q)
        BY <1>1, <4>3, <4>5 DEF sf
      <4>. QED
        BY <4>6 DEF Known, q
    <3>. QED
      BY <3>2, <3>3, <3>4, <3>5, <3>6 DEF Known
  <2>. QED
    BY <1>1, <2>1 DEF Tracked, kernVars, Filtered
<1>. QED
  BY <1>9, <1>10, <1>11, <1>12

\* The event that is taken, and the map after its watch was looked up.
LEMMA EventTaken ==
  ASSUME MonitorInv, NEW e, Handling(e)
  PROVE  /\ e \in Event /\ buffer' \in Seq(Event) /\ frames = <<>> /\ phase' = "events"
         /\ \A wd, f : Told(buffer, wd, f) =>
              \/ e.wd = wd /\ e.mask = "create" /\ ~e.isDir /\ e.name = Last(f)
              \/ Told(buffer', wd, f)
         /\ PathOf(e.wd) \in Seq(Name) /\ Append(PathOf(e.wd), e.name) \in Seq(Name)
<1>1. /\ buffer \in Seq(Event) /\ buffer # <<>> /\ e = Head(buffer)
      /\ buffer' = Tail(buffer) /\ frames = <<>> /\ phase' = "events"
  BY DEF Handling, MonitorInv, Shapes
<1>2. e \in Event /\ Tail(buffer) \in Seq(Event)
  BY <1>1, HeadTailProperties
<1>3. PathOf(e.wd) \in Seq(Name)
  <2>1. <<>> \in Seq(Name)
    BY EmptySeq
  <2>. QED
    BY <2>1 DEF PathOf, MonitorInv, Shapes
<1>4. Append(PathOf(e.wd), e.name) \in Seq(Name)
  BY <1>2, <1>3, AppendProperties DEF Event
<1>. QED
  BY <1>1, <1>2, <1>3, <1>4, ToldTaken

\* A batch in which the list and the folders under way do not shrink, and the
\* file of the event is listed if it is one.
LEMMA EventKept ==
  ASSUME MonitorInv, NEW e, Handling(e), nextWd' = nextWd,
         DOMAIN live' \subseteq DOMAIN live, \A wd \in DOMAIN live' : live'[wd] = live[wd],
         DOMAIN live' \subseteq DOMAIN monitorMap',
         \A wd \in DOMAIN live' : monitorMap'[wd] = monitorMap[wd],
         \A wd \in DOMAIN monitorMap' : wd \in Nat /\ monitorMap'[wd] \in Seq(Name),
         fileList' \in Seq(Entry), Len(fileList) <= Len(fileList'), frames' \in Seq(Pending),
         \A f : PathIn(fileList, f) => PathIn(fileList', f),
         \A f \in files : \A wd \in DOMAIN live' :
           /\ monitorMap[wd] = Parent(f) /\ ~Filtered(Last(f))
           /\ e.wd = wd /\ e.mask = "create" /\ ~e.isDir /\ e.name = Last(f)
           => PathIn(fileList', f)
  PROVE  MonitorInv'
<1> USE DEF MonitorInv
<1>1. UNCHANGED <<fsVars, nextWd, queue, phase, iter, seconds, ops>>
  BY DEF Handling
<1>2. /\ buffer' \in Seq(Event) /\ frames = <<>> /\ phase = "events"
      /\ \A wd, f : Told(buffer, wd, f) =>
           \/ e.wd = wd /\ e.mask = "create" /\ ~e.isDir /\ e.name = Last(f)
           \/ Told(buffer', wd, f)
  BY <1>1, EventTaken
<1>3. MonitorTypeOK'
  <2>1. iter \in 1..Len(fileList) + 1 /\ Len(fileList) \in Nat /\ Len(fileList') \in Nat
    BY LenProperties DEF MonitorTypeOK, Shapes
  <2>2. iter \in 1..Len(fileList') + 1
    BY <2>1
  <2>. QED
    BY <1>1, <2>2 DEF MonitorTypeOK, fsVars
<1>4. Shapes'
  BY <1>1, <1>2 DEF Shapes
<1>5. Phases' /\ Watched' /\ Housed'
  BY <1>1, <1>2 DEF Phases, Watched, Housed, fsVars
<1>6. Tracked'
  <2>1. ASSUME NEW f \in files \ unheard, NEW wd \in DOMAIN live', live'[wd] = Parent(f),
               monitorMap[wd] = Parent(f), ~Filtered(Last(f))
        PROVE  Known(wd, f)'
    <3>1. Known(wd, f) /\ ~PathIn(frames, Parent(f))
      BY <1>2, <2>1 DEF Tracked, PathIn
    <3>2. CASE PathIn(fileList, f)
      BY <3>2 DEF Known
    <3>3. CASE Told(queue, wd, f)
      BY <1>1, <3>3 DEF Known, Told
    <3>4. CASE Told(buffer, wd, f)
      <4>1. \/ e.wd = wd /\ e.mask = "create" /\ ~e.isDir /\ e.name = Last(f)
            \/ Told(buffer', wd, f)
        BY <1>2, <3>4
      <4>2. PathIn(fileList', f) \/ Told(buffer', wd, f)
        BY <2>1, <4>1
      <4>. QED
        BY <4>2 DEF Known, Told
    <3>. QED
      BY <3>1, <3>2, <3>3, <3>4 DEF Known
  <2>. QED
    BY <1>1, <2>1 DEF Tracked, fsVars, Filtered
<1>. QED
  BY <1>3, <1>4, <1>5, <1>6

LEMMA EventStep ==
  ASSUME MonitorInv, NEW e,
         \/ SkipEvent(e) \/ HandleCreateDir(e) \/ HandleCreateFile(e)
         \/ HandleDeleteDir(e) \/ HandleOtherEvent(e)
  PROVE  MonitorInv'
<1>1. Handling(e) /\ nextWd' = nextWd
  BY DEF SkipEvent, HandleCreateDir, HandleCreateFile, HandleDeleteDir,
         HandleOtherEvent, Handling
<1>2. /\ e \in Event /\ frames = <<>>
      /\ PathOf(e.wd) \in Seq(Name) /\ Append(PathOf(e.wd), e.name) \in Seq(Name)
  BY <1>1, EventTaken
<1>3. /\ fileList \in Seq(Entry) /\ Len(fileList) \in Nat /\ frames \in Seq(Pending)
      /\ DOMAIN live \subseteq DOMAIN monitorMap
      /\ \A wd \in DOMAIN monitorMap : wd \in Nat /\ monitorMap[wd] \in Seq(Name)
  BY DEF MonitorInv, Shapes, Watched
<1>4. /\ DOMAIN Touched(e.wd) = DOMAIN monitorMap \cup {e.wd}
      /\ Touched(e.wd)[e.wd] = PathOf(e.wd)
      /\ \A wd \in DOMAIN monitorMap : Touched(e.wd)[wd] = monitorMap[wd]
  BY DEF Touched, With, PathOf
<1>5. \A wd \in DOMAIN Touched(e.wd) : wd \in Nat /\ Touched(e.wd)[wd] \in Seq(Name)
  BY <1>2, <1>3, <1>4 DEF Event
<1>6. CASE SkipEvent(e)
  <2>1. UNCHANGED <<live, monitorMap, fileList, frames>> /\ Filtered(e.name)
    BY <1>6 DEF SkipEvent
  <2>. QED
    BY <1>1, <1>3, <2>1, EventKept
<1>7. CASE HandleCreateDir(e)
  <2>1. /\ monitorMap' = Touched(e.wd) /\ UNCHANGED <<live, fileList>> /\ e.isDir
        /\ frames' = <<Frame(Append(PathOf(e.wd), e.name))>>
    BY <1>7 DEF HandleCreateDir
  <2>2. Frame(Append(PathOf(e.wd), e.name)) \in Pending
    BY <1>2 DEF Frame, Steps, Pending
  <2>3. frames' \in Seq(Pending)
    BY <2>1, <2>2
  <2>. QED
    BY <1>1, <1>3, <1>4, <1>5, <2>1, <2>3, EventKept
<1>8. CASE HandleCreateFile(e)
  <2> DEFINE q == Append(PathOf(e.wd), e.name)
             x == Listed(q, IF e.name = StopName THEN seconds ELSE seconds + Expire)
  <2>1. /\ monitorMap' = Touched(e.wd) /\ UNCHANGED <<live, frames>>
        /\ fileList' = Append(fileList, x)
    BY <1>8 DEF HandleCreateFile
  <2>2. x \in Entry /\ x.path = q
    BY <1>2, MonitorAssumption DEF Listed, Entry, MonitorInv, MonitorTypeOK
  <2> HIDE DEF x
  <2>3. /\ fileList' \in Seq(Entry) /\ Len(fileList') = Len(fileList) + 1
        /\ \A i \in 1..Len(fileList) : fileList'[i] = fileList[i]
        /\ fileList'[Len(fileList) + 1] = x
    BY <1>3, <2>1, <2>2, AppendProperties
  <2>4. PathIn(fileList', q) /\ \A f : PathIn(fileList, f) => PathIn(fileList', f)
    <3>1. PathIn(<<x>>, q) /\ <<x>> \in Seq(Entry)
      BY <2>2 DEF PathIn
    <3>2. fileList' = fileList \o <<x>>
      BY <1>3, <2>1, <2>2, AppendIsConcat
    <3> DEFINE y == <<x>>
    <3> HIDE DEF y
    <3>3. fileList \in Seq(Entry) /\ y \in Seq(Entry) /\ PathIn(y, q)
      BY <1>3, <3>1 DEF y
    <3>4. PathIn(fileList \o y, q) /\ \A f : PathIn(fileList, f) => PathIn(fileList \o y, f)
      BY <3>3, PathJoined
    <3>. QED
      BY <3>2, <3>4 DEF y
  <2>5. ASSUME NEW f \in files, e.wd \in DOMAIN live, monitorMap[e.wd] = Parent(f),
               e.name = Last(f)
        PROVE  q = f
    BY <1>3, <2>5, Paths DEF PathOf, MonitorInv, MonitorTypeOK
  <2> HIDE DEF q
  <2>6. Len(fileList) <= Len(fileList')
    BY <1>3, <2>3
  <2>. QED
    BY <1>1, <1>3, <1>4, <1>5, <2>1, <2>3, <2>4, <2>5, <2>6, EventKept
<1>9. CASE HandleDeleteDir(e)
  <2>1. /\ DOMAIN live' = DOMAIN live \ {e.wd} /\ DOMAIN monitorMap' = DOMAIN monitorMap \ {e.wd}
        /\ \A wd \in DOMAIN live' : live'[wd] = live[wd]
        /\ \A wd \in DOMAIN monitorMap' : monitorMap'[wd] = monitorMap[wd]
        /\ UNCHANGED <<fileList, frames>> /\ e.mask = "delete"
    BY <1>9 DEF HandleDeleteDir, Without, Unwatched
  <2>. QED
    BY <1>1, <1>3, <2>1, EventKept
<1>10. CASE HandleOtherEvent(e)
  <2>1. /\ monitorMap' = Touched(e.wd) /\ UNCHANGED <<live, fileList, frames>>
        /\ e.mask # "create"
    BY <1>10 DEF HandleOtherEvent
  <2>. QED
    BY <1>1, <1>3, <1>4, <1>5, <2>1, EventKept
<1>. QED
  BY <1>6, <1>7, <1>8, <1>9, <1>10

\* deleteFile: only the file that is removed leaves the list.
LEMMA DeleteStep ==
  ASSUME MonitorInv, NEW e \in ToSet(fileList), DeleteExpired(e) \/ KeepEntry(e)
  PROVE  MonitorInv'
<1> USE DEF MonitorInv
<1>1. MonitorTypeOK /\ Shapes
  OBVIOUS
<1>2. /\ phase = "delete" /\ iter <= Len(fileList) /\ e = fileList[iter]
      /\ UNCHANGED <<dirs, live, nextWd, monitorMap, frames, buffer, phase, bRun, seconds, ops>>
  BY DEF DeleteExpired, KeepEntry, AtEntry
<1>3. fileList \in Seq(Entry) /\ Len(fileList) \in Nat /\ iter \in 1..Len(fileList)
  BY <1>1, <1>2, LenProperties DEF Shapes, MonitorTypeOK
<1>4. CASE KeepEntry(e)
  <2>1. iter' = iter + 1 /\ UNCHANGED <<files, unheard, queue, fileList>>
    BY <1>4 DEF KeepEntry
  <2>2. iter' \in 1..Len(fileList') + 1
    BY <1>3, <2>1
  <2>3. MonitorTypeOK' /\ Shapes'
    BY <1>1, <1>2, <2>1, <2>2 DEF MonitorTypeOK, Shapes
  <2>4. Phases' /\ Watched' /\ Housed'
    BY <1>2, <2>1 DEF Phases, Watched, Housed
  <2>5. Tracked'
    BY <1>2, <2>1 DEF Tracked, Known, Told, PathIn, Filtered
  <2>. QED
    BY <2>3, <2>4, <2>5
<1>5. CASE DeleteExpired(e)
  <2> DEFINE r == Reported(e.path, "delete", FALSE)
  <2>1. /\ e.path \in files /\ files' = files \ {e.path} /\ unheard' = unheard \ {e.path}
        /\ queue' \in {queue, queue \o r}
        /\ fileList' = RemoveAt(fileList, iter) /\ iter' = iter
    BY <1>5 DEF DeleteExpired, Queued
  <2>2. r \in Seq(Event)
    BY <1>1, <2>1, Reports DEF MonitorTypeOK
  <2> HIDE DEF r
  <2>3. /\ fileList' \in Seq(Entry) /\ Len(fileList') = Len(fileList) - 1
        /\ \A i \in 1..Len(fileList) : i < iter => fileList'[i] = fileList[i]
        /\ \A i \in 1..Len(fileList) : i > iter => fileList'[i - 1] = fileList[i]
    <3> DEFINE a == SubSeq(fileList, 1, iter - 1)  b == SubSeq(fileList, iter + 1, Len(fileList))
    <3>1. /\ a \in Seq(Entry) /\ Len(a) = iter - 1
          /\ \A i \in 1..iter - 1 : a[i] = fileList[i]
      BY <1>3
    <3>2. /\ b \in Seq(Entry) /\ Len(b) = Len(fileList) - iter
          /\ \A i \in 1..Len(fileList) - iter : b[i] = fileList[iter + i]
      BY <1>3
    <3>3. fileList' = a \o b
      BY <2>1 DEF RemoveAt
    <3> HIDE DEF a, b
    <3>4. fileList' \in Seq(Entry) /\ Len(fileList') = Len(fileList) - 1
      BY <1>3, <3>1, <3>2, <3>3
    <3>5. ASSUME NEW i \in 1..Len(fileList), i < iter PROVE fileList'[i] = fileList[i]
      <4>1. i \in 1..iter - 1
        BY <1>3, <3>5
      <4>2. (a \o b)[i] = a[i]
        BY <3>1, <3>2, <4>1
      <4>. QED
        BY <3>1, <3>3, <4>1, <4>2, Zenon
    <3>6. ASSUME NEW i \in 1..Len(fileList), i > iter PROVE fileList'[i - 1] = fileList[i]
      <4>1. fileList'[i - 1] = b[i - iter]
        BY <1>3, <3>1, <3>2, <3>3, <3>6
      <4>2. b[i - iter] = fileList[iter + (i - iter)] /\ iter + (i - iter) = i
        BY <1>3, <3>2, <3>6
      <4>. QED
        BY <4>1, <4>2
    <3>. QED
      BY <3>4, <3>5, <3>6
  <2>4. iter' \in 1..Len(fileList') + 1
    BY <1>3, <2>1, <2>3
  <2>5. MonitorTypeOK'
    BY <1>1, <1>2, <2>1, <2>4 DEF MonitorTypeOK
  <2>6. queue' \in Seq(Event)
    BY <1>1, <2>1, <2>2, ConcatProperties DEF Shapes
  <2>7. Shapes'
    BY <1>1, <1>2, <2>3, <2>6 DEF Shapes
  <2>8. Phases' /\ Watched' /\ Housed'
    BY <1>2, <2>1 DEF Phases, Watched, Housed
  <2>9. ASSUME NEW f \in files' \ unheard', NEW wd \in DOMAIN live, live[wd] = Parent(f),
               monitorMap[wd] = Parent(f), ~Filtered(Last(f))
        PROVE  Known(wd, f)'
    <3>1. Known(wd, f) /\ f # e.path
      BY <2>1, <2>9 DEF Tracked
    <3>2. CASE PathIn(fileList, f)
      <4>1. PICK i \in 1..Len(fileList) : fileList[i].path = f
        BY <1>3, <3>2 DEF PathIn
      <4>2. i # iter
        BY <1>2, <3>1, <4>1
      <4>3. \E j \in 1..Len(fileList) - 1 : fileList'[j] = fileList[i]
        <5>1. CASE i < iter
          BY <1>3, <2>3, <5>1
        <5>2. CASE i > iter
          <6>1. i - 1 \in 1..Len(fileList) - 1 /\ fileList'[i - 1] = fileList[i]
            BY <1>3, <2>3, <5>2
          <6>. QED
            BY <6>1
        <5>. QED
          BY <1>3, <4>2, <5>1, <5>2
      <4>4. PathIn(fileList', f)
        BY <2>3, <4>1, <4>3 DEF PathIn
      <4>. QED
        BY <4>4 DEF Known
    <3>3. CASE Told(queue, wd, f)
      <4>1. Told(queue \o r, wd, f)
        BY <1>1, <2>2, <3>3, ToldJoined DEF Shapes
      <4>2. Told(queue', wd, f)
        BY <2>1, <3>3, <4>1, Zenon
      <4>. QED
        BY <4>2 DEF Known
    <3>4. CASE Told(buffer, wd, f) \/ PathIn(frames, Parent(f))
      BY <1>2, <3>4 DEF Known, Told, PathIn
    <3>. QED
      BY <3>1, <3>2, <3>3, <3>4 DEF Known
  <2>10. Tracked'
    BY <1>2, <2>9 DEF Tracked, Filtered
  <2>. QED
    BY <2>5, <2>7, <2>8, <2>10
<1>. QED
  BY <1>4, <1>5

\* The other steps move events from the queue to the buffer, or change the phase.
LEMMA PhaseStep ==
  ASSUME MonitorInv,
         Built \/ ReadEvents \/ ReadFails \/ Handled \/ Deleted \/ Destroy \/ MonitorTick
         \/ UNCHANGED monVars
  PROVE  MonitorInv'
<1> USE DEF MonitorInv
<1>1. MonitorTypeOK /\ Shapes /\ Phases /\ Watched /\ Housed
  OBVIOUS
<1>2. CASE Built \/ Deleted \/ UNCHANGED monVars
  <2>1. /\ UNCHANGED <<fsVars, kernVars, monitorMap, fileList, frames, buffer, iter, seconds, ops>>
        /\ \/ phase' = phase
           \/ frames = <<>> /\ phase # "events" /\ phase' \in {"read", "stopped"}
    BY <1>1, <1>2 DEF Built, Deleted, monVars, ownVars, Phases
  <2>2. Phases'
    BY <1>1, <2>1 DEF Phases
  <2>3. MonitorTypeOK' /\ Shapes' /\ Watched' /\ Housed'
    BY <1>1, <2>1 DEF MonitorTypeOK, Shapes, Watched, Housed, fsVars, kernVars
  <2>4. Tracked'
    BY <2>1 DEF Tracked, Known, Told, PathIn, Filtered, fsVars, kernVars
  <2>. QED
    BY <2>2, <2>3, <2>4
<1>3. CASE Handled \/ ReadFails
  <2>1. /\ UNCHANGED <<fsVars, kernVars, monitorMap, fileList, frames, buffer, seconds, ops>>
        /\ frames = <<>> /\ buffer = <<>> /\ phase' = "delete" /\ iter' = 1
    BY <1>1, <1>3 DEF Handled, ReadFails, Phases
  <2>2. 1 \in 1..Len(fileList) + 1
    BY <1>1, LenProperties DEF Shapes
  <2>3. MonitorTypeOK' /\ Shapes' /\ Watched' /\ Housed' /\ Phases'
    BY <1>1, <2>1, <2>2 DEF MonitorTypeOK, Shapes, Watched, Housed, Phases, fsVars, kernVars
  <2>4. Tracked'
    BY <2>1 DEF Tracked, Known, Told, PathIn, Filtered, fsVars, kernVars
  <2>. QED
    BY <2>3, <2>4
<1>4. CASE ReadEvents
  <2>1. /\ UNCHANGED <<fsVars, live, nextWd, monitorMap, fileList, frames, iter, seconds, ops>>
        /\ buffer' = queue /\ queue' = <<>> /\ phase = "read" /\ phase' = "events"
    BY <1>4 DEF ReadEvents
  <2>2. buffer = <<>>
    BY <1>1, <2>1 DEF Phases
  <2>3. <<>> \in Seq(Event)
    BY EmptySeq
  <2>4. MonitorTypeOK' /\ Shapes' /\ Watched' /\ Housed' /\ Phases'
    BY <1>1, <2>1, <2>3 DEF MonitorTypeOK, Shapes, Watched, Housed, Phases, fsVars
  <2>5. \A wd, f : ~Told(buffer, wd, f)
    BY <2>2 DEF Told
  <2>6. Tracked'
    <3>1. ASSUME NEW f \in files \ unheard, NEW wd \in DOMAIN live, live[wd] = Parent(f),
                 monitorMap[wd] = Parent(f), ~Filtered(Last(f))
          PROVE  Known(wd, f)'
      <4>1. Known(wd, f)
        BY <3>1 DEF Tracked
      <4>. QED
        BY <2>1, <2>5, <4>1 DEF Known, Told, PathIn
    <3>. QED
      BY <2>1, <3>1 DEF Tracked, Filtered, fsVars
  <2>. QED
    BY <2>4, <2>6
<1>5. CASE Destroy
  <2>1. /\ UNCHANGED <<fsVars, nextWd, fileList, frames, buffer, iter, seconds, ops>>
        /\ live' = Without(live, DOMAIN monitorMap) /\ monitorMap' = <<>> /\ queue' = <<>>
        /\ phase = "stopped" /\ phase' = "end"
    BY <1>5 DEF Destroy
  <2>2. DOMAIN live' = {} /\ DOMAIN monitorMap' = {}
    BY <1>1, <2>1 DEF Without, MonitorTypeOK
  <2>3. <<>> \in Seq(Event)
    BY EmptySeq
  <2>4. MonitorTypeOK' /\ Shapes' /\ Watched' /\ Housed' /\ Phases'
    BY <1>1, <2>1, <2>2, <2>3 DEF MonitorTypeOK, Shapes, Watched, Housed, Phases, fsVars
  <2>5. Tracked'
    BY <2>2 DEF Tracked
  <2>. QED
    BY <2>4, <2>5
<1>6. CASE MonitorTick
  <2>1. /\ UNCHANGED <<fsVars, kernVars, ownVars, ops>> /\ seconds' \in 0..MaxSeconds
    BY <1>1, <1>6, MonitorAssumption DEF MonitorTick, MonitorTypeOK
  <2>2. MonitorTypeOK' /\ Shapes' /\ Watched' /\ Housed' /\ Phases'
    BY <1>1, <2>1 DEF MonitorTypeOK, Shapes, Watched, Housed, Phases, fsVars, kernVars, ownVars
  <2>3. Tracked'
    BY <2>1 DEF Tracked, Known, Told, PathIn, Filtered, fsVars, kernVars, ownVars
  <2>. QED
    BY <2>2, <2>3
<1>. QED
  BY <1>2, <1>3, <1>4, <1>5, <1>6

\* At the start nothing is watched and the root is under way.
LEMMA MonitorInitInv == ASSUME MonitorInit PROVE MonitorInv
<1>1. /\ files \subseteq AllFiles /\ Housed /\ unheard = {} /\ dirs \subseteq {Root} \cup SubDirs
      /\ live = <<>> /\ nextWd = 1 /\ queue = <<>> /\ monitorMap = <<>> /\ fileList = <<>>
      /\ frames = <<Frame(Root)>> /\ buffer = <<>> /\ phase = "build" /\ iter = 1
      /\ seconds = 0 /\ ops = 0
  BY DEF MonitorInit, Housed
<1>2. <<>> \in Seq(Event) /\ <<>> \in Seq(Entry) /\ DOMAIN <<>> = {} /\ Len(<<>>) = 0
  OBVIOUS
<1>3. Frame(Root) \in Pending
  BY Paths DEF Frame, Steps, Pending
<1>4. frames \in Seq(Pending)
  BY <1>1, <1>3
<1>5. MonitorTypeOK
  BY <1>1, <1>2, MonitorAssumption DEF MonitorTypeOK
<1>6. Shapes /\ Phases /\ Watched /\ Housed /\ Tracked
  BY <1>1, <1>2, <1>4 DEF Shapes, Phases, Watched, Tracked
<1>. QED
  BY <1>5, <1>6 DEF MonitorInv

\* The types of the monitor, and no file escapes: for every set of names, time of
\* expiry, length of the kernel's queue and number of operations of other
\* processes, when the monitor waits and no event is queued, each file of a folder
\* that it watches under its name is listed (77, 100), but for those that were
\* moved there or found the queue full after the folder was listed.
THEOREM NothingEscapesAlways == MonitorSpec => [](MonitorTypeOK /\ NothingEscapes)
<1>1. MonitorInit => MonitorInv
  BY MonitorInitInv
<1>2. MonitorInv /\ [MonitorNext]_monVars => MonitorInv'
  <2> SUFFICES ASSUME MonitorInv, [MonitorNext]_monVars PROVE MonitorInv'
    OBVIOUS
  <2>. QED
    BY OthersStep, WatchStep, ListStep, EventStep, DeleteStep, PhaseStep
    DEF MonitorNext, Monitor
<1>3. MonitorInv => MonitorTypeOK /\ NothingEscapes
  <2> SUFFICES ASSUME MonitorInv, phase = "read", queue = <<>>, NEW f \in files \ unheard,
                      NEW wd \in DOMAIN live, live[wd] = Parent(f),
                      monitorMap[wd] = Parent(f), ~Filtered(Last(f))
               PROVE  \E i \in DOMAIN fileList : fileList[i].path = f
    BY DEF NothingEscapes, MonitorInv
  <2>1. Known(wd, f) /\ frames = <<>> /\ buffer = <<>>
    BY DEF MonitorInv, Tracked, Phases
  <2>. QED
    BY <2>1 DEF Known, Told, PathIn
<1>. QED
  BY <1>1, <1>2, <1>3, PTL DEF MonitorSpec

---------------------------------------------------------------------------
(* The weekly schedule. *)

\* The cuts of a text with two or three pieces are taken in their order.
LEMMA ThreeCuts ==
  ASSUME NEW a \in Int, NEW b \in Int, NEW c \in Int, a < b, b < c
  PROVE  LET S == {a, b, c} IN
         /\ Cardinality(S) = 3
         /\ CutAt(S, 1) = a /\ CutAt(S, 2) = b /\ CutAt(S, 3) = c
<1> DEFINE S == {a, b, c}  B(x) == {k \in S : k < x}
<1>1. B(a) = {} /\ B(b) = {a} /\ B(c) = {a} \cup {b} /\ S = ({a} \cup {b}) \cup {c}
  OBVIOUS
<1>2. /\ IsFiniteSet({a}) /\ Cardinality({a}) = 1 /\ Cardinality({}) = 0
  BY FS_EmptySet, FS_Singleton
<1>3. IsFiniteSet({a} \cup {b}) /\ Cardinality({a} \cup {b}) = 2
  BY <1>2, FS_AddElement
<1>4. Cardinality(({a} \cup {b}) \cup {c}) = 3
  BY <1>3, FS_AddElement
<1>5. Cardinality(B(a)) = 0 /\ Cardinality(B(b)) = 1 /\ Cardinality(B(c)) = 2
  BY <1>1, <1>2, <1>3
<1>6. ASSUME NEW n \in {1, 2, 3}, NEW x \in S, Cardinality(B(x)) = n - 1,
             \A y \in S : Cardinality(B(y)) = n - 1 => y = x
      PROVE  CutAt(S, n) = x
  BY <1>6 DEF CutAt
<1> HIDE DEF B
<1>7. CutAt(S, 1) = a /\ CutAt(S, 2) = b /\ CutAt(S, 3) = c
  BY <1>5, <1>6
<1>. QED
  BY <1>1, <1>4, <1>7

LEMMA FourCuts ==
  ASSUME NEW a \in Int, NEW b \in Int, NEW c \in Int, NEW d \in Int, a < b, b < c, c < d,
         NEW S, S = {a, b, c, d}
  PROVE  /\ Cardinality(S) = 4
         /\ CutAt(S, 1) = a /\ CutAt(S, 2) = b /\ CutAt(S, 3) = c /\ CutAt(S, 4) = d
<1> DEFINE B(x) == {k \in S : k < x}
<1>1. /\ B(a) = {} /\ B(b) = {a} /\ B(c) = {a} \cup {b} /\ B(d) = ({a} \cup {b}) \cup {c}
      /\ S = (({a} \cup {b}) \cup {c}) \cup {d}
  OBVIOUS
<1>2. /\ IsFiniteSet({a}) /\ Cardinality({a}) = 1 /\ Cardinality({}) = 0
  BY FS_EmptySet, FS_Singleton
<1>3. IsFiniteSet({a} \cup {b}) /\ Cardinality({a} \cup {b}) = 2
  BY <1>2, FS_AddElement
<1>4. IsFiniteSet(({a} \cup {b}) \cup {c}) /\ Cardinality(({a} \cup {b}) \cup {c}) = 3
  BY <1>3, FS_AddElement
<1>5. Cardinality((({a} \cup {b}) \cup {c}) \cup {d}) = 4
  BY <1>4, FS_AddElement
<1>6. /\ Cardinality(B(a)) = 0 /\ Cardinality(B(b)) = 1
      /\ Cardinality(B(c)) = 2 /\ Cardinality(B(d)) = 3
  BY <1>1, <1>2, <1>3, <1>4
<1>7. ASSUME NEW n \in {1, 2, 3, 4}, NEW x \in S, Cardinality(B(x)) = n - 1,
             \A y \in S : Cardinality(B(y)) = n - 1 => y = x
      PROVE  CutAt(S, n) = x
  BY <1>7 DEF CutAt
<1> HIDE DEF B
<1>8. CutAt(S, 1) = a /\ CutAt(S, 2) = b /\ CutAt(S, 3) = c /\ CutAt(S, 4) = d
  BY <1>6, <1>7
<1>. QED
  BY <1>1, <1>5, <1>8

\* An entry that is taken for a span, and at which stoi does not throw, is one
\* that a reader takes for a span too, with minutes and seconds below sixty.
\* The code takes others: it carries 8:75:00 into the hour and does not see what
\* follows a number.
BelowSixty(e) == \A i \in {3, 5, 9, 11} : e[i] < 60
AsMeant(e) == WellFormed(e) /\ ~SpanThrows(e) => Readable(e) /\ BelowSixty(e)
WeekAsMeant ==
  \A w \in Week : \A d \in WeekDays : \A i \in 1..Len(Entries(w, d)) :
    AsMeant(Entries(w, d)[i])

\* Where the spans of the task come from, and what getTaskTime has read while no
\* thread has filled localtime's buffer with another time.
FromText ==
  /\ plan.demo = 0 /\ plan.week \in Week /\ spans = Weeks(plan.week)
  /\ \A d \in WeekDays : ~TimeSpansThrow(Entries(plan.week, d))
FromDemo ==
  /\ plan.demo \in Time
  /\ spans = [d \in WeekDays |-> {DemoSpan(Instant[plan.demo])}]
TimetableInv ==
  /\ FromText \/ FromDemo
  /\ shown \in Time /\ asked \in Time /\ step \in {"clock", "read"} /\ kept \in {"yes", "no"}
  /\ got \in Seq(Nat) /\ Len(got) <= 4 /\ (step = "clock" => got = <<>>)
  /\ step = "read" /\ kept = "yes" =>
       /\ shown = asked
       /\ \A n \in 1..Len(got) : got[n] = Instant[asked][Fields[n]]

\* A piece of a text has its tokens.
LEMMA Piece ==
  ASSUME NEW s \in Seq(Int), NEW k \in Nat, NEW l \in Nat, 1 <= k, k <= l, l <= Len(s)
  PROVE  /\ SubSeq(s, k, l) \in Seq(Int) /\ Len(SubSeq(s, k, l)) = l - k + 1
         /\ \A i \in 1..l - k + 1 : SubSeq(s, k, l)[i] = s[k + i - 1]
<1>1. Len(s) \in Nat /\ k \in Int /\ l \in Int
  BY LenProperties
<1>2. \A i \in k..l : s[i] \in Int
  BY <1>1, ElementOfSeq
<1>. QED
  BY <1>1, <1>2, SubSeqProperties

\* h:m:s is read as three numbers.
LEMMA EndRead ==
  ASSUME NEW s \in Seq(Int), Len(s) = 5, s[2] = Colon, s[4] = Colon,
         \A i \in {1, 3, 5} : s[i] >= 0
  PROVE  /\ Len(Parts(s)) = 3 /\ \A n \in 1..3 : ~StoiThrows(Parts(s)[n])
         /\ TimePoint(s) = [hour |-> s[1], minute |-> s[3], seconds |-> s[5]]
<1>0. /\ s[1] \in Int /\ s[3] \in Int /\ s[5] \in Int
      /\ s[1] >= 0 /\ s[3] >= 0 /\ s[5] >= 0
  <2>1. 1 \in 1..Len(s) /\ 3 \in 1..Len(s) /\ 5 \in 1..Len(s)
    OBVIOUS
  <2>2. s[1] \in Int /\ s[3] \in Int /\ s[5] \in Int
    BY <2>1, ElementOfSeq
  <2>. QED
    BY <2>2
<1>1. Cuts(s, Colon) = {0, 2, 4, 6}
  <2>1. s # <<>> /\ s[Len(s)] # Colon
    <3>1. s # <<>>
      BY EmptySeq
    <3>. QED
      BY <1>0, <3>1 DEF Colon
  <2>2. Cuts(s, Colon) = {i \in 0..6 : i \in {0, 6} \/ s[i] = Colon}
    BY <2>1 DEF Cuts
  <2>3. s[1] # Colon /\ s[3] # Colon /\ s[5] # Colon
    BY <1>0 DEF Colon
  <2>. QED
    BY <2>2, <2>3
<1>2. /\ Cardinality({0, 2, 4, 6}) = 4
      /\ CutAt({0, 2, 4, 6}, 1) = 0 /\ CutAt({0, 2, 4, 6}, 2) = 2
      /\ CutAt({0, 2, 4, 6}, 3) = 4 /\ CutAt({0, 2, 4, 6}, 4) = 6
  <2>1. PICK S : S = {0, 2, 4, 6}
    OBVIOUS
  <2>2. /\ Cardinality(S) = 4
        /\ CutAt(S, 1) = 0 /\ CutAt(S, 2) = 2 /\ CutAt(S, 3) = 4 /\ CutAt(S, 4) = 6
    BY <2>1, FourCuts
  <2>. QED
    BY <2>1, <2>2, Zenon
<1> DEFINE C == {0, 2, 4, 6}
<1> HIDE DEF C
<1>3. Parts(s) = [n \in 1..3 |-> SubSeq(s, CutAt(C, n) + 1, CutAt(C, n + 1) - 1)]
  BY <1>1, <1>2 DEF Parts, Split, C
<1>4. /\ Parts(s)[1] = SubSeq(s, 1, 1) /\ Parts(s)[2] = SubSeq(s, 3, 3)
      /\ Parts(s)[3] = SubSeq(s, 5, 5)
  BY <1>2, <1>3 DEF C
<1>5. \A n \in 1..3 : Parts(s)[n] # <<>> /\ Parts(s)[n][1] = s[2 * n - 1]
  <2>1. ASSUME NEW k \in {1, 3, 5}
        PROVE  SubSeq(s, k, k) # <<>> /\ SubSeq(s, k, k)[1] = s[k]
    <3>1. Len(SubSeq(s, k, k)) = 1 /\ SubSeq(s, k, k)[1] = s[k + 1 - 1]
      BY Piece
    <3>. QED
      BY <3>1
  <2>. QED
    BY <1>4, <2>1
<1>6. Len(Parts(s)) = 3
  BY <1>3
<1>7. ASSUME NEW n \in 1..3 PROVE ~StoiThrows(Parts(s)[n])
  <2>1. s[2 * n - 1] >= 0 /\ s[2 * n - 1] \in Int
    BY <1>0
  <2>2. Parts(s)[n] # <<>> /\ Parts(s)[n][1] >= 0 /\ Parts(s)[n][1] \in Int
    BY <1>5, <2>1
  <2>3. ~(Parts(s)[n][1] < 0)
    BY <2>2
  <2>. QED
    BY <2>2, <2>3 DEF StoiThrows
<1>8. Parts(s)[1][1] = s[1] /\ Parts(s)[2][1] = s[3] /\ Parts(s)[3][1] = s[5]
  BY <1>5
<1>. QED
  BY <1>6, <1>7, <1>8 DEF TimePoint, Stoi

\* What a reader takes for an entry is taken for one, with the same numbers.
LEMMA EntryRead ==
  ASSUME NEW e \in Seq(Int), Readable(e)
  PROVE  /\ WellFormed(e) /\ ~SpanThrows(e)
         /\ Span(e) = [from |-> [hour |-> e[1], minute |-> e[3], seconds |-> e[5]],
                       to |-> [hour |-> e[7], minute |-> e[9], seconds |-> e[11]]]
<1>1. Cuts(e, Dash) = {0, 6, 12}
  <2>1. Len(e) = 11 /\ e[6] = Dash /\ \A i \in {1, 2, 3, 4, 5, 7, 8, 9, 10, 11} : e[i] # Dash
    <3>1. Len(e) = 11 /\ e[6] = Dash
      BY Zenon DEF Readable
    <3>2. \A i \in {1, 3, 5, 7, 9, 11} : e[i] # Dash
      BY DEF Dash, Readable
    <3>3. \A i \in {2, 4, 8, 10} : e[i] # Dash
      BY DEF Dash, Colon, Readable
    <3>. QED
      BY <3>1, <3>2, <3>3
  <2>2. Len(e) = 11 /\ e[Len(e)] # Dash /\ e # <<>>
    <3>1. Len(e) = 11
      BY <2>1, Zenon
    <3>2. e # <<>>
      <4>1. 11 # 0 /\ Len(<<>>) = 0
        BY EmptySeq
      <4>. QED
        BY <3>1, <4>1, Zenon
    <3>3. e[11] # Dash
      BY <2>1
    <3>. QED
      BY <3>1, <3>2, <3>3, Zenon
  <2>3. Cuts(e, Dash) = {i \in 0..12 : i \in {0, 12} \/ e[i] = Dash}
    BY <2>2 DEF Cuts
  <2>. QED
    BY <2>1, <2>3
<1>2. /\ Cardinality({0, 6, 12}) = 3 /\ CutAt({0, 6, 12}, 1) = 0
      /\ CutAt({0, 6, 12}, 2) = 6 /\ CutAt({0, 6, 12}, 3) = 12
  BY ThreeCuts
<1> DEFINE C == {0, 6, 12}
<1> HIDE DEF C
<1>3. Ends(e) = [n \in 1..2 |-> SubSeq(e, CutAt(C, n) + 1, CutAt(C, n + 1) - 1)]
  BY <1>1, <1>2 DEF Ends, Split, C
<1>4. Len(Ends(e)) = 2 /\ Ends(e)[1] = SubSeq(e, 1, 5) /\ Ends(e)[2] = SubSeq(e, 7, 11)
  <2>1. Len(Ends(e)) = 2
    BY <1>3
  <2>2. CutAt(C, 1) = 0 /\ CutAt(C, 2) = 6 /\ CutAt(C, 3) = 12
    BY <1>2 DEF C
  <2> DEFINE low(n) == CutAt(C, n) + 1  high(n) == CutAt(C, n + 1) - 1
  <2>3. low(1) = 1 /\ high(1) = 5 /\ low(2) = 7 /\ high(2) = 11
    BY <2>2
  <2>4. Ends(e) = [n \in 1..2 |-> SubSeq(e, low(n), high(n))]
    BY <1>3
  <2> HIDE DEF low, high
  <2>5. 1 \in 1..2 /\ 2 \in 1..2
    OBVIOUS
  <2>6. Ends(e)[1] = SubSeq(e, 1, 5) /\ Ends(e)[2] = SubSeq(e, 7, 11)
    BY <2>3, <2>4, <2>5, Zenon
  <2>. QED
    BY <2>1, <2>6
<1> DEFINE s == SubSeq(e, 1, 5)  t == SubSeq(e, 7, 11)
<1>5. Len(e) = 11
  BY DEF Readable
<1>6. /\ s \in Seq(Int) /\ Len(s) = 5
      /\ s[1] = e[1] /\ s[2] = e[2] /\ s[3] = e[3] /\ s[4] = e[4] /\ s[5] = e[5]
  <2>1. /\ s \in Seq(Int) /\ Len(s) = 5 - 1 + 1
        /\ \A i \in 1..5 - 1 + 1 : s[i] = e[1 + i - 1]
    <3>1. 1 <= 5 /\ 5 <= Len(e)
      BY <1>5
    <3>. QED
      BY <3>1, Piece
  <2>. QED
    BY <2>1
<1>7. /\ t \in Seq(Int) /\ Len(t) = 5
      /\ t[1] = e[7] /\ t[2] = e[8] /\ t[3] = e[9] /\ t[4] = e[10] /\ t[5] = e[11]
  <2>1. /\ t \in Seq(Int) /\ Len(t) = 11 - 7 + 1
        /\ \A i \in 1..11 - 7 + 1 : t[i] = e[7 + i - 1]
    <3>1. 7 <= 11 /\ 11 <= Len(e)
      BY <1>5
    <3>. QED
      BY <3>1, Piece
  <2>. QED
    BY <2>1
<1> HIDE DEF s, t
<1>8. /\ Len(Parts(s)) = 3 /\ \A n \in 1..3 : ~StoiThrows(Parts(s)[n])
      /\ TimePoint(s) = [hour |-> e[1], minute |-> e[3], seconds |-> e[5]]
  BY <1>6, EndRead DEF Readable
<1>9. /\ Len(Parts(t)) = 3 /\ \A n \in 1..3 : ~StoiThrows(Parts(t)[n])
      /\ TimePoint(t) = [hour |-> e[7], minute |-> e[9], seconds |-> e[11]]
  BY <1>7, EndRead DEF Readable
<1>10. Ends(e)[1] = s /\ Ends(e)[2] = t
  BY <1>4 DEF s, t
<1>11. WellFormed(e)
  <2>1. \A i \in 1..2 : Ends(e)[i] = s \/ Ends(e)[i] = t
    BY <1>10
  <2>. QED
    BY <1>4, <1>8, <1>9, <2>1 DEF WellFormed
<1>12. ~SpanThrows(e)
  <2>1. \A i \in 1..2 : Ends(e)[i] = s \/ Ends(e)[i] = t
    BY <1>10
  <2>2. \A n \in 1..3 : ~StoiThrows(Parts(s)[n]) /\ ~StoiThrows(Parts(t)[n])
    BY <1>8, <1>9, Zenon
  <2>. QED
    BY <2>1, <2>2, Zenon DEF SpanThrows
<1>. QED
  BY <1>8, <1>9, <1>10, <1>11, <1>12 DEF Span

\* The numbers of an entry.
LEMMA ReadableNumbers ==
  ASSUME NEW e \in Seq(Int), Readable(e), BelowSixty(e)
  PROVE  /\ e[1] \in Nat /\ e[3] \in 0..59 /\ e[5] \in 0..59
         /\ e[7] \in Nat /\ e[9] \in 0..59 /\ e[11] \in 0..59
<1>1. \A i \in 1..11 : e[i] \in Int
  BY ElementOfSeq DEF Readable
<1>2. /\ e[1] >= 0 /\ e[3] >= 0 /\ e[5] >= 0 /\ e[7] >= 0 /\ e[9] >= 0 /\ e[11] >= 0
  BY DEF Readable
<1>3. e[3] < 60 /\ e[5] < 60 /\ e[9] < 60 /\ e[11] < 60
  BY DEF BelowSixty
<1>4. /\ e[1] \in Int /\ e[3] \in Int /\ e[5] \in Int
      /\ e[7] \in Int /\ e[9] \in Int /\ e[11] \in Int
  BY <1>1
<1>5. \A x \in Int : (x >= 0 => x \in Nat) /\ (x >= 0 /\ x < 60 => x \in 0..59)
  OBVIOUS
<1>. QED
  BY <1>2, <1>3, <1>4, <1>5, Zenon

\* The comparison of dispatchTask, by seconds of the day, is the order of times.
LEMMA CoversIncludes ==
  ASSUME NEW e \in Seq(Int), Readable(e), BelowSixty(e),
         NEW t, t.hour \in 0..23, t.minute \in 0..59, t.seconds \in 0..59
  PROVE  Covers(Span(e), t) <=> Includes(e, t)
<1>1. /\ e[1] \in Nat /\ e[3] \in 0..59 /\ e[5] \in 0..59
      /\ e[7] \in Nat /\ e[9] \in 0..59 /\ e[11] \in 0..59
  BY ReadableNumbers
<1>2. t.hour \in Nat /\ t.minute \in 0..59 /\ t.seconds \in 0..59
  <2>1. \A h \in 0..23 : h \in Nat
    OBVIOUS
  <2>. QED
    BY <2>1, Zenon
<1> DEFINE A(h, m, s) == h * 3600 + m * 60 + s
<1>3. ASSUME NEW h \in Nat, NEW m \in 0..59, NEW s \in 0..59,
             NEW i \in Nat, NEW j \in 0..59, NEW k \in 0..59
      PROVE  A(h, m, s) < A(i, j, k) <=> Before(<<h, m, s>>, <<i, j, k>>)
  <2>1. A(h, m, s) < A(i, j, k) <=>
          (h < i \/ (h = i /\ m < j) \/ (h = i /\ m = j /\ s < k))
    OBVIOUS
  <2>. QED
    BY <2>1 DEF Before
<1>4. /\ Value(Span(e).from) = A(e[1], e[3], e[5]) /\ Value(Span(e).to) = A(e[7], e[9], e[11])
      /\ Value(t) = A(t.hour, t.minute, t.seconds)
  <2>1. Span(e) = [from |-> [hour |-> e[1], minute |-> e[3], seconds |-> e[5]],
                   to |-> [hour |-> e[7], minute |-> e[9], seconds |-> e[11]]]
    BY EntryRead
  <2>2. /\ Span(e).from.hour = e[1] /\ Span(e).from.minute = e[3] /\ Span(e).from.seconds = e[5]
        /\ Span(e).to.hour = e[7] /\ Span(e).to.minute = e[9] /\ Span(e).to.seconds = e[11]
    BY <2>1
  <2> HIDE DEF A
  <2>3. \A p : Value(p) = A(p.hour, p.minute, p.seconds)
    BY DEF Value, A
  <2>. QED
    BY <2>2, <2>3
<1> HIDE DEF A
<1> DEFINE now == A(t.hour, t.minute, t.seconds)
           from == A(e[1], e[3], e[5])
           to == A(e[7], e[9], e[11])
<1>5. now \in Int /\ from \in Int /\ to \in Int
  <2>1. \A h \in Nat, m \in 0..59, s \in 0..59 : A(h, m, s) \in Int
    BY DEF A
  <2>. QED
    BY <1>1, <1>2, <2>1
<1>6. now < from <=> Before(<<t.hour, t.minute, t.seconds>>, <<e[1], e[3], e[5]>>)
  BY <1>1, <1>2, <1>3
<1>7. now < to <=> Before(<<t.hour, t.minute, t.seconds>>, <<e[7], e[9], e[11]>>)
  BY <1>1, <1>2, <1>3
<1>8. Covers(Span(e), t) <=> from <= now /\ now < to
  BY <1>4 DEF Covers
<1> HIDE DEF now, from, to
<1>9. from <= now <=> ~(now < from)
  BY <1>5
<1>. QED
  BY <1>6, <1>7, <1>8, <1>9 DEF Includes

\* The span of the demo covers the two minutes after the one it is made in.
LEMMA DemoCovers ==
  ASSUME NEW s, s.hour \in 0..23, s.minute \in 0..59,
         NEW t, t.hour \in 0..23, t.minute \in 0..59, t.seconds \in 0..59
  PROVE  Covers(DemoSpan(s), t) <=> Minutes(t) - Minutes(s) \in {1, 2}
<1>1. PICK h \in 0..23, m \in 0..59, c \in 0..59 :
        h = t.hour /\ m = t.minute /\ c = t.seconds
  BY Zenon
<1>2. PICK g \in 0..23, n \in 0..59 : g = s.hour /\ n = s.minute
  BY Zenon
<1> DEFINE x == (h * 60 + m) - (g * 60 + n)
<1>3. Minutes(t) - Minutes(s) = x
  BY <1>1, <1>2, Zenon DEF Minutes
<1>4. /\ Value(DemoSpan(s).from) = g * 3600 + (n + 1) * 60 + 0
      /\ Value(DemoSpan(s).to) = g * 3600 + (n + 3) * 60 + 0
      /\ Value(t) = h * 3600 + m * 60 + c
  BY <1>1, <1>2 DEF Value, DemoSpan
<1>5. /\ Value(DemoSpan(s).from) <= Value(t) <=> 60 <= 60 * x + c
      /\ Value(t) < Value(DemoSpan(s).to) <=> 60 * x + c < 180
  <2> DEFINE lo == Value(DemoSpan(s).from)  hi == Value(DemoSpan(s).to)  v == Value(t)
  <2>1. 60 * x + c = (h * 3600 + m * 60 + c) - (g * 3600 + n * 60)
    OBVIOUS
  <2>2. /\ lo = g * 3600 + n * 60 + 60 /\ hi = g * 3600 + n * 60 + 180
        /\ v = h * 3600 + m * 60 + c
    BY <1>4
  <2> HIDE DEF lo, hi, v, x
  <2>3. lo <= v <=> 60 <= 60 * x + c
    BY <2>1, <2>2
  <2>4. v < hi <=> 60 * x + c < 180
    BY <2>1, <2>2
  <2>. QED
    BY <2>3, <2>4 DEF lo, hi, v
<1>6. x \in Int
  OBVIOUS
<1> HIDE DEF x
<1>7. 60 <= 60 * x + c /\ 60 * x + c < 180 <=> x \in {1, 2}
  BY <1>6
<1>. QED
  BY <1>3, <1>5, <1>7, Zenon DEF Covers

LEMMA InstantType ==
  ASSUME NEW i \in Time
  PROVE  /\ Instant[i].wday \in WeekDays /\ Instant[i].hour \in 0..23
         /\ Instant[i].minute \in 0..59 /\ Instant[i].seconds \in 0..59
BY InstantAssumption DEF Time

\* dispatchTask records what is configured at the time it sees.
LEMMA SpansAsConfigured ==
  ASSUME WeekAsMeant, FromText \/ FromDemo, NEW i \in Time
  PROVE  InSpan(spans, Instant[i]) <=> Configured(i)
<1> DEFINE t == Instant[i]  d == t.wday
<1>1. /\ d \in WeekDays /\ t.hour \in 0..23 /\ t.minute \in 0..59 /\ t.seconds \in 0..59
  BY InstantType
<1>2. CASE FromDemo
  <2> DEFINE s == Instant[plan.demo]
  <2>1. s.hour \in 0..23 /\ s.minute \in 0..59 /\ plan.demo # 0
    BY <1>2, InstantType DEF FromDemo, Time
  <2>2. spans[d] = {DemoSpan(s)}
    BY <1>1, <1>2 DEF FromDemo
  <2>3. InSpan(spans, t) <=> Covers(DemoSpan(s), t)
    BY <2>2 DEF InSpan
  <2>4. Configured(i) <=> Minutes(t) - Minutes(s) \in {1, 2}
    BY <2>1 DEF Configured
  <2>. QED
    BY <1>1, <2>1, <2>3, <2>4, DemoCovers
<1>3. CASE FromText
  <2> DEFINE w == plan.week  day == Entries(w, d)
  <2>1. plan.demo = 0 /\ w \in Week /\ spans[d] = TimeSpans(day) /\ ~TimeSpansThrow(day)
    BY <1>1, <1>3 DEF FromText, Weeks
  <2>2. \A n \in 1..Len(day) : AsMeant(day[n])
    BY <1>1, <2>1 DEF WeekAsMeant
  <2>3. day \in Seq(Seq(Int))
    <3>1. <<>> \in Seq(Seq(Int))
      BY EmptySeq
    <3>. QED
      BY <2>1, <3>1, WeekAssumption DEF Entries
  <2>4. Configured(i) <=> \E n \in 1..Len(day) : Readable(day[n]) /\ Includes(day[n], t)
    BY <2>1 DEF Configured
  <2>5. InSpan(spans, t) <=>
          \E n \in 1..Len(day) : WellFormed(day[n]) /\ Covers(Span(day[n]), t)
    BY <2>1 DEF InSpan, TimeSpans
  <2>6. ASSUME NEW n \in 1..Len(day)
        PROVE  WellFormed(day[n]) /\ Covers(Span(day[n]), t)
                 <=> Readable(day[n]) /\ Includes(day[n], t)
    <3> DEFINE e == day[n]
    <3>1. e \in Seq(Int)
      BY <2>3, ElementOfSeq
    <3>2. WellFormed(e) => ~SpanThrows(e)
      BY <2>1 DEF TimeSpansThrow
    <3>3. AsMeant(e)
      BY <2>2
    <3>4. Readable(e) <=> WellFormed(e)
      BY <3>1, <3>2, <3>3, EntryRead DEF AsMeant
    <3>5. Readable(e) => BelowSixty(e)
      BY <3>2, <3>3, <3>4 DEF AsMeant
    <3>6. Readable(e) => (Covers(Span(e), t) <=> Includes(e, t))
      BY <1>1, <3>1, <3>5, CoversIncludes
    <3>. QED
      BY <3>4, <3>6
  <2>. QED
    BY <2>4, <2>5, <2>6
<1>. QED
  BY <1>2, <1>3

\* The fields of an instant are those of a time.
LEMMA FieldType ==
  ASSUME NEW i \in Time, NEW n \in 1..4
  PROVE  Instant[i][Fields[n]] \in Nat
<1> DEFINE t == Instant[i]
<1>1. t.wday \in 0..6 /\ t.hour \in 0..23 /\ t.minute \in 0..59 /\ t.seconds \in 0..59
  BY InstantType DEF WeekDays
<1>2. t.wday \in Nat /\ t.hour \in Nat /\ t.minute \in Nat /\ t.seconds \in Nat
  BY <1>1
<1>3. Fields[n] \in {"hour", "minute", "seconds", "wday"}
  BY DEF Fields
<1>. QED
  BY <1>2, <1>3

LEMMA TimetableInitInv == ASSUME TimetableInit PROVE TimetableInv
<1>1. FromText \/ FromDemo
  <2>1. CASE TextPlan
    BY <2>1 DEF TextPlan, FromText
  <2>2. CASE DemoPlan
    BY <2>2 DEF DemoPlan, FromDemo
  <2>. QED
    BY <2>1, <2>2 DEF TimetableInit
<1>2. got = <<>> /\ <<>> \in Seq(Nat) /\ Len(<<>>) = 0
  BY EmptySeq DEF TimetableInit
<1>. QED
  BY <1>1, <1>2 DEF TimetableInit, TimetableInv

LEMMA TimetableStep ==
  ASSUME TimetableInv, [TimetableNext]_timeVars
  PROVE  TimetableInv'
<1>1. /\ FromText \/ FromDemo
      /\ shown \in Time /\ asked \in Time
      /\ step \in {"clock", "read"} /\ kept \in {"yes", "no"}
      /\ got \in Seq(Nat) /\ Len(got) <= 4 /\ (step = "clock" => got = <<>>)
  BY DEF TimetableInv
<1>2. step = "read" /\ kept = "yes" =>
        shown = asked /\ \A n \in 1..Len(got) : got[n] = Instant[asked][Fields[n]]
  BY DEF TimetableInv
<1>3. UNCHANGED <<plan, spans>>
  BY DEF TimetableNext, ReadClock, ReadField, Dispatch, FillBuffer, timeVars
<1>4. (FromText \/ FromDemo)'
  BY <1>1, <1>3 DEF FromText, FromDemo
<1>5. CASE ReadClock
  <2>1. /\ step = "clock" /\ shown' = asked' /\ asked' \in Time /\ got' = got
        /\ step' = "read" /\ kept' = "yes"
    BY <1>5 DEF ReadClock
  <2>2. got = <<>> /\ 1..Len(got) = {}
    BY <1>1, <2>1
  <2>. QED
    BY <1>1, <1>4, <2>1, <2>2 DEF TimetableInv
<1>6. CASE ReadField
  <2> DEFINE x == Instant[shown][Fields[Len(got) + 1]]
  <2>1. /\ step = "read" /\ Len(got) < 4 /\ got' = Append(got, x)
        /\ UNCHANGED <<shown, step, asked, kept>>
    BY <1>6 DEF ReadField
  <2>2. Len(got) \in Nat /\ Len(got) + 1 \in 1..4
    BY <1>1, <2>1, LenProperties
  <2>3. x \in Nat
    BY <1>1, <2>2, FieldType
  <2>4. kept = "yes" => x = Instant[asked][Fields[Len(got) + 1]]
    BY <1>2, <2>1
  <2> HIDE DEF x
  <2>5. /\ got' \in Seq(Nat) /\ Len(got') = Len(got) + 1 /\ got'[Len(got) + 1] = x
        /\ \A n \in 1..Len(got) : got'[n] = got[n]
    BY <1>1, <2>1, <2>3, AppendProperties
  <2>6. ASSUME kept = "yes", NEW n \in 1..Len(got')
        PROVE  got'[n] = Instant[asked][Fields[n]]
    <3>1. n \in 1..Len(got) \/ n = Len(got) + 1
      BY <2>2, <2>5
    <3>. QED
      BY <1>2, <2>1, <2>4, <2>5, <2>6, <3>1
  <2>. QED
    BY <1>1, <1>2, <1>4, <2>1, <2>2, <2>5, <2>6 DEF TimetableInv
<1>7. CASE Dispatch
  <2>1. step' = "clock" /\ got' = <<>> /\ UNCHANGED <<shown, asked, kept>>
    BY <1>7 DEF Dispatch
  <2>2. <<>> \in Seq(Nat) /\ Len(<<>>) = 0
    BY EmptySeq
  <2>. QED
    BY <1>1, <1>4, <2>1, <2>2 DEF TimetableInv
<1>8. ASSUME NEW i \in Time, FillBuffer(i) PROVE TimetableInv'
  <2>1. /\ shown' = i /\ kept' = IF i = asked THEN kept ELSE "no"
        /\ UNCHANGED <<step, got, asked>>
    BY <1>8 DEF FillBuffer
  <2>. QED
    BY <1>1, <1>2, <1>4, <2>1 DEF TimetableInv
<1>9. CASE UNCHANGED timeVars
  BY <1>1, <1>2, <1>4, <1>9 DEF timeVars, TimetableInv
<1>. QED
  BY <1>5, <1>6, <1>7, <1>8, <1>9 DEF TimetableNext

\* What was read decides as the instant would that it was read from.
LEMMA ReadWhole ==
  ASSUME NEW i \in Time, Len(got) = 4,
         \A n \in 1..Len(got) : got[n] = Instant[i][Fields[n]]
  PROVE  InSpan(spans, TaskTime) <=> InSpan(spans, Instant[i])
<1> DEFINE t == Instant[i]
<1>1. /\ Fields[1] = "hour" /\ Fields[2] = "minute" /\ Fields[3] = "seconds"
      /\ Fields[4] = "wday"
  BY DEF Fields
<1>2. got[1] = t.hour /\ got[2] = t.minute /\ got[3] = t.seconds /\ got[4] = t.wday
  BY <1>1
<1> HIDE DEF t
<1>3. /\ TaskTime.hour = t.hour /\ TaskTime.minute = t.minute
      /\ TaskTime.seconds = t.seconds /\ TaskTime.wday = t.wday
  BY <1>2 DEF TaskTime
<1> DEFINE now == TaskTime
<1> HIDE DEF now
<1>4. /\ now.hour = t.hour /\ now.minute = t.minute
      /\ now.seconds = t.seconds /\ now.wday = t.wday
  BY <1>3 DEF now
<1>5. Value(now) = Value(t)
  BY <1>4 DEF Value
<1>6. \A span : Covers(span, now) <=> Covers(span, t)
  BY <1>5, Zenon DEF Covers
<1>7. InSpan(spans, now) <=> InSpan(spans, t)
  BY <1>4, <1>6, Zenon DEF InSpan
<1>. QED
  BY <1>7 DEF now, t

\* A round of the dispatcher during which no thread fills localtime's buffer with
\* another time records a task exactly when its policy says so for the time of the
\* round, for every week whose entries are as a reader takes them, every course of
\* the clock and every other fill before, between and after the rounds (852).
THEOREM RecordsAlways ==
  ASSUME WeekAsMeant
  PROVE  TimetableSpec => RecordsAsConfigured
<1> DEFINE Right == step = "read" /\ step' = "clock" /\ kept = "yes" =>
                      record' = Configured(asked)
<1>1. TimetableInit => TimetableInv
  BY TimetableInitInv
<1>2. TimetableInv /\ [TimetableNext]_timeVars => TimetableInv'
  BY TimetableStep
<1>3. TimetableInv /\ [TimetableNext]_timeVars => [Right]_timeVars
  <2> SUFFICES ASSUME TimetableInv, TimetableNext, step = "read", step' = "clock", kept = "yes"
               PROVE  record' = Configured(asked)
    OBVIOUS
  <2>1. record' = InSpan(spans, TaskTime) /\ Len(got) = 4
    BY DEF TimetableNext, ReadClock, ReadField, Dispatch, FillBuffer
  <2>2. /\ asked \in Time /\ (FromText \/ FromDemo)
        /\ \A n \in 1..Len(got) : got[n] = Instant[asked][Fields[n]]
    BY DEF TimetableInv
  <2>3. InSpan(spans, TaskTime) <=> Configured(asked)
    BY <2>1, <2>2, ReadWhole, SpansAsConfigured
  <2>4. InSpan(spans, TaskTime) \in BOOLEAN /\ Configured(asked) \in BOOLEAN
    <3>1. InSpan(spans, TaskTime) \in BOOLEAN
      BY Zenon DEF InSpan
    <3>2. Configured(asked) \in BOOLEAN
      BY Zenon DEF Configured
    <3>. QED
      BY <3>1, <3>2
  <2>5. InSpan(spans, TaskTime) = Configured(asked)
    BY <2>3, <2>4
  <2>. QED
    BY <2>1, <2>5
<1>. QED
  BY <1>1, <1>2, <1>3, PTL DEF TimetableSpec, RecordsAsConfigured
=============================================================================
