--------------------------- MODULE Recycle_proofs ---------------------------
(***************************************************************************)
(* Proofs about Recycle, for every set of cameras, policies, retentions    *)
(* and days and any number of notice threads, which may clear and fill the *)
(* table and replace the policies at any moment of a pass: a camera whose  *)
(* entry stays keeps its directory, and of one whose retention stays too   *)
(* only outdated recordings are unlinked.                                  *)
(***************************************************************************)
EXTENDS Recycle, TLAPS

\* Retentions, found or not, are numbers.
LEMMA RetentionNumber == \A r \in Retention \cup {-1, None} : r # None => r \in Int
BY ConstantsAssumption

\* The retention of an entry in the table is a retention or -1.
LEMMA FoundType ==
  ASSUME NEW queue \in [Policy -> Retention \cup {None}], NEW q
  PROVE  Found(queue, q) \in Retention \cup {-1} /\ Found(queue, q) # None
BY ConstantsAssumption DEF Found

\* The initial states satisfy the invariant.
LEMMA InvInit == ASSUME Init PROVE RecycleInv
<1>1. TypeOK
  <2>1. today \in Day /\ seen \in [Camera -> Member \cup {None}]
    BY ConstantsAssumption DEF Init, Day
  <2>2. limit \in [Camera -> Retention \cup {-1, None}] /\ held = limit
    BY DEF Init
  <2>3. npc \in [Notice -> {"idle", "fill"}] /\ fill \in [Notice -> SUBSET Camera]
    BY DEF Init
  <2>4. table \in [Camera -> Member \cup {None}]
        /\ expires \in [Policy -> Retention \cup {None}]
        /\ rpc = "idle" /\ left = {} /\ orphans = {} /\ listed = {} /\ files = {}
        /\ file = None /\ age \in Int /\ read \in {"whole", "torn"} /\ dirs \subseteq Camera
    BY DEF Init
  <2>. QED
    BY <2>1, <2>2, <2>3, <2>4 DEF TypeOK
<1>2. HeldSound /\ CopySound /\ PassSound
  BY DEF Init, HeldSound, CopySound, PassSound, Looked
<1>. QED
  BY <1>1, <1>2 DEF RecycleInv

\* A notice thread or a new policy queue ends the steadiness of what it
\* changes, and changes nothing the pass has copied.
LEMMA NoticeStep ==
  ASSUME RecycleInv, (\E n \in Notice : ProcessCamera(n)) \/ ReplacePolicies
  PROVE  RecycleInv'
<1> USE ConstantsAssumption
    DEF RecycleInv, TypeOK, passVars, compareVars, diskVars
<1>1. ASSUME NEW n \in Notice, ClearCameras(n)
      PROVE  RecycleInv'
  BY <1>1 DEF ClearCameras, HeldSound, CopySound, PassSound
<1>2. ASSUME NEW n \in Notice, NEW c \in Camera, InsertCamera(n, c)
      PROVE  RecycleInv'
  BY <1>2 DEF InsertCamera, Member, HeldSound, CopySound, PassSound, RetentionFound
<1>3. ASSUME NEW n \in Notice, EndFill(n)
      PROVE  RecycleInv'
  BY <1>3 DEF EndFill, HeldSound, CopySound, PassSound, RetentionFound
<1>4. CASE ReplacePolicies
  <2>1. held' \in [Camera -> Retention \cup {-1, None}]
    BY <1>4 DEF ReplacePolicies
  <2>2. TypeOK' /\ PassSound'
    BY <1>4, <2>1 DEF ReplacePolicies, PassSound
  <2>3. \A c \in Camera : held'[c] # None =>
          held'[c] = held[c] /\ held[c] # None /\ held[c] = Found(expires', table[c])
    BY <1>4 DEF ReplacePolicies
  <2>4. HeldSound' /\ CopySound'
    BY <1>4, <2>3 DEF ReplacePolicies, HeldSound, CopySound, RetentionFound
  <2>. QED
    BY <2>2, <2>4
<1>. QED
  BY <1>1, <1>2, <1>3, <1>4 DEF ProcessCamera

\* What a pass copies and looks up of a steady camera agrees with the table.
LEMMA CopyStep ==
  ASSUME RecycleInv, StartPass \/ (\E c \in Camera : CopyCamera(c)) \/ LookUpRetention
  PROVE  RecycleInv'
<1> USE ConstantsAssumption DEF RecycleInv, TypeOK, noticeVars, compareVars, diskVars
<1>0. \A q : RetentionFound(q) \in Retention \cup {-1} /\ RetentionFound(q) # None
  BY FoundType DEF RetentionFound
<1>1. CASE StartPass
  <2>1. HeldSound' /\ TypeOK'
    BY <1>0, <1>1 DEF StartPass, HeldSound, RetentionFound
  <2>2. CopySound' /\ PassSound'
    BY <1>1 DEF StartPass, CopySound, PassSound, Looked
  <2>. QED
    BY <2>1, <2>2
<1>2. ASSUME NEW c \in Camera, CopyCamera(c)
      PROVE  RecycleInv'
  BY <1>2 DEF CopyCamera, HeldSound, CopySound, PassSound, Looked, RetentionFound
<1>3. CASE LookUpRetention
  <2>1. \A c \in Camera : held[c] # None =>
          seen[c] # None /\ limit'[c] = held[c]
    BY <1>3 DEF LookUpRetention, HeldSound, CopySound
  <2>2. limit' \in [Camera -> Retention \cup {-1, None}]
    BY <1>0, <1>3 DEF LookUpRetention
  <2>3. TypeOK' /\ HeldSound' /\ CopySound' /\ PassSound'
    BY <1>3, <2>1, <2>2 DEF LookUpRetention, HeldSound, CopySound, PassSound, Looked,
       RetentionFound
  <2>. QED
    BY <2>3
<1>. QED
  BY <1>1, <1>2, <1>3

\* The rest of a pass, the recorders and the clock.
LEMMA DiskStep ==
  ASSUME RecycleInv,
         \/ ListDirectories \/ EndRemove \/ EndFiles \/ EndPass \/ UnlinkFile \/ KeepFile
         \/ \E c \in Camera : RemoveDirectory(c) \/ KeepForEver(c) \/ ListFiles(c) \/ Record(c)
         \/ \E f \in Camera \X Day : DiffDay(f) \/ DiffDayTorn(f)
         \/ NextDay
  PROVE  RecycleInv'
<1> USE ConstantsAssumption
    DEF RecycleInv, TypeOK, noticeVars, passVars, compareVars, diskVars, Looked, RetentionFound,
        HeldSound, CopySound, PassSound
<1>1. CASE ListDirectories
  BY <1>1 DEF ListDirectories, NotOwned
<1>2. CASE EndRemove \/ EndFiles
  BY <1>2 DEF EndRemove, EndFiles
<1>3. CASE EndPass
  <2>1. TypeOK'
    BY <1>3 DEF EndPass
  <2>2. HeldSound' /\ CopySound' /\ PassSound'
    BY <1>3 DEF EndPass
  <2>. QED
    BY <2>1, <2>2
<1>4. CASE UnlinkFile
  <2>1. TypeOK'
    BY <1>4 DEF UnlinkFile, NextFile
  <2>2. HeldSound' /\ CopySound' /\ PassSound'
    BY <1>4 DEF UnlinkFile, NextFile
  <2>. QED
    BY <2>1, <2>2
<1>5. CASE KeepFile
  BY <1>5 DEF KeepFile, NextFile
<1>6. ASSUME NEW c \in Camera, RemoveDirectory(c)
      PROVE  RecycleInv'
  BY <1>6 DEF RemoveDirectory
<1>7. ASSUME NEW c \in Camera, KeepForEver(c)
      PROVE  RecycleInv'
  BY <1>7 DEF KeepForEver
<1>8. ASSUME NEW c \in Camera, ListFiles(c)
      PROVE  RecycleInv'
  <2>1. TypeOK'
    BY <1>8 DEF ListFiles, FilesOf
  <2>2. \A f \in listed' : limit[f[1]] # 0
    BY <1>8 DEF ListFiles, FilesOf
  <2>3. HeldSound' /\ CopySound' /\ PassSound'
    BY <1>8, <2>2 DEF ListFiles
  <2>. QED
    BY <2>1, <2>3
<1>9. ASSUME NEW c \in Camera, Record(c)
      PROVE  RecycleInv'
  BY <1>9 DEF Record
<1>10. ASSUME NEW f \in Camera \X Day, DiffDay(f)
       PROVE  RecycleInv'
  <2>1. f # None /\ f \in listed /\ f[2] \in Int /\ today \in Int
    BY <1>10 DEF DiffDay, Day
  <2>2. TypeOK'
    BY <1>10, <2>1 DEF DiffDay
  <2>3. HeldSound' /\ CopySound'
    BY <1>10 DEF DiffDay
  <2>4. PassSound'
    <3>1. file' = f /\ age' = today - f[2] /\ today' = today /\ limit' = limit /\ rpc = "unlink"
          /\ rpc' = rpc /\ listed' = listed \ {f}
      BY <1>10 DEF DiffDay
    <3>2. limit[f[1]] # 0 /\ \A g \in listed' : limit'[g[1]] # 0
      BY <2>1, <3>1
    <3>3. today' - f[2] >= age'
      BY <2>1, <3>1
    <3>. QED
      BY <3>1, <3>2, <3>3
  <2>. QED
    BY <2>2, <2>3, <2>4
<1>11. ASSUME NEW f \in Camera \X Day, DiffDayTorn(f)
       PROVE  RecycleInv'
  <2>1. f # None /\ f \in listed
    BY <1>11 DEF DiffDayTorn, Day
  <2>. QED
    BY <1>11, <2>1 DEF DiffDayTorn
<1>12. CASE NextDay
  BY <1>12 DEF NextDay, Day
<1>. QED
  BY <1>1, <1>2, <1>3, <1>4, <1>5, <1>6, <1>7, <1>8, <1>9, <1>10, <1>11, <1>12

\* Every step keeps the invariant.
LEMMA InvStep == ASSUME RecycleInv, [Next]_vars PROVE RecycleInv'
<1>1. CASE UNCHANGED vars
  BY <1>1 DEF vars, noticeVars, passVars, compareVars, diskVars, RecycleInv, TypeOK,
     HeldSound, CopySound, PassSound, RetentionFound
<1>. QED
  BY <1>1, NoticeStep, CopyStep, DiskStep DEF Next, Pass

\* The invariant holds, whatever notices do.
THEOREM RecycleInvariant == Spec => []RecycleInv
<1>1. Init => RecycleInv
  BY InvInit
<1>2. RecycleInv /\ [Next]_vars => RecycleInv'
  BY InvStep
<1>. QED
  BY <1>1, <1>2, PTL DEF Spec

\* Only two kinds of steps take something away from the disk.
LEMMA TakenAway ==
  ASSUME [Next]_vars
  PROVE  \/ dirs \subseteq dirs' /\ files \subseteq files'
         \/ \E c \in Camera : RemoveDirectory(c)
         \/ UnlinkFile
<1> USE DEF passVars, diskVars
<1>1. CASE (\E n \in Notice : ProcessCamera(n)) \/ ReplacePolicies
  BY <1>1 DEF ProcessCamera, ClearCameras, InsertCamera, EndFill, ReplacePolicies
<1>2. CASE StartPass \/ NextDay \/ \E c \in Camera : Record(c)
  BY <1>2 DEF StartPass, NextDay, Record
<1>3. CASE Pass
  BY <1>3 DEF Pass, LookUpRetention, ListDirectories, EndRemove, EndFiles, EndPass,
     CopyCamera, KeepForEver, ListFiles, KeepFile, DiffDay, DiffDayTorn
<1>4. CASE UNCHANGED vars
  BY <1>4 DEF vars
<1>. QED
  BY <1>1, <1>2, <1>3, <1>4 DEF Next

\* What rm -rf takes was not copied, so it is no steady camera's.
LEMMA RemovedNotSteady ==
  ASSUME RecycleInv, NEW c \in Camera, RemoveDirectory(c)
  PROVE  held[c] = None
BY DEF RecycleInv, RemoveDirectory, PassSound, CopySound, Looked

\* rm -rf takes no directory of a camera whose entry stays (1139-1145).
THEOREM DirectoriesStay == Spec => SteadyDirectoryStays
<1>1. ASSUME RecycleInv, [Next]_vars, NEW c \in Camera, c \in dirs, c \notin dirs'
      PROVE  held[c] = None
  <2>1. RemoveDirectory(c)
    BY <1>1, TakenAway DEF RemoveDirectory, UnlinkFile
  <2>. QED
    BY <1>1, <2>1, RemovedNotSteady
<1>2. RecycleInv /\ [Next]_vars
        => [\A c \in Camera : c \in dirs /\ c \notin dirs' => held[c] = None]_vars
  BY <1>1
<1>. QED
  BY <1>2, RecycleInvariant, PTL DEF Spec, SteadyDirectoryStays

\* Of a camera whose entry and retention stay, only outdated recordings are
\* unlinked, and none that are kept for ever (1149-1173).
THEOREM RetentionKept == Spec => SteadyRetentionKept
<1> DEFINE Kept(f) == LET r == held[f[1]]
                      IN  r # None => r # 0 /\ (read = "torn" \/ today - f[2] > r)
<1>1. ASSUME RecycleInv, [Next]_vars, NEW f \in files \ files'
      PROVE  Kept(f)
  <2>1. f \in Camera \X Day /\ today \in Int /\ f[2] \in Int /\ f[1] \in Camera
    BY <1>1, ConstantsAssumption DEF RecycleInv, TypeOK, Day
  <2>2. ASSUME NEW c \in Camera, RemoveDirectory(c)
        PROVE  held[f[1]] = None
    <3>1. f[1] = c
      BY <1>1, <2>2 DEF RemoveDirectory, FilesOf
    <3>. QED
      BY <1>1, <2>2, <3>1, RemovedNotSteady
  <2>3. ASSUME UnlinkFile, held[f[1]] # None
        PROVE  held[f[1]] # 0 /\ (read = "torn" \/ today - f[2] > held[f[1]])
    <3>1. file = f /\ rpc = "unlink" /\ file # None /\ age > limit[f[1]]
      BY <1>1, <2>3 DEF UnlinkFile, IsExpired
    <3>2. limit[f[1]] = held[f[1]]
      BY <1>1, <2>1, <2>3, <3>1 DEF RecycleInv, CopySound, Looked
    <3>4. held[f[1]] \in Int /\ age \in Int
      BY <1>1, <2>1, <2>3, RetentionNumber DEF RecycleInv, TypeOK
    <3>3. limit[f[1]] # 0 /\ (read = "torn" \/ today - f[2] >= age)
      BY <1>1, <3>1 DEF RecycleInv, PassSound
    <3>. QED
      BY <2>1, <3>1, <3>2, <3>3, <3>4
  <2>. QED
    BY <1>1, <2>2, <2>3, TakenAway
<1>2. RecycleInv /\ [Next]_vars => [\A f \in files \ files' : Kept(f)]_vars
  BY <1>1
<1>. QED
  BY <1>2, RecycleInvariant, PTL DEF Spec, SteadyRetentionKept
=============================================================================
