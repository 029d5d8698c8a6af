------------------------------ MODULE Recycle ------------------------------
(***************************************************************************)
(* The recycling of recordings: recycleExpired, run by a detached thread   *)
(* that wait() starts, against the notice threads that replace the camera  *)
(* table and the policies, and the recorders that write the files.         *)
(*                                                                         *)
(* A pass of recycleExpired has five parts, and nothing it reads in one    *)
(* part is protected until the next: it copies the cameras (m_mutexCameras *)
(* does not exclude), looks their retention up in m_quePolicy, lists the   *)
(* directories, removes those no copied camera owns, and unlinks the files *)
(* that are older than the retention. Every notice has a thread of its     *)
(* own, and nothing keeps those from each other or from a pass. Time is    *)
(* counted in days since the first day of the instance; a file is its      *)
(* camera and the day it was last written.                                 *)
(***************************************************************************)
EXTENDS Integers, FiniteSets

CONSTANTS
  Camera,     \* camera ids; a camera's directory is named by its id
  Policy,     \* policy ids
  Stray,      \* the number of no policy
  Retention,  \* retentions a policy can have, in days; 0 = for ever
  MaxDay,     \* the instance's last day
  Notice,     \* notice threads that can be inside processCamera at once
  None        \* no camera, no policy, no retention, no file

ASSUME ConstantsAssumption ==
  /\ Retention \subseteq Nat
  /\ MaxDay \in Nat
  /\ Stray \notin Policy
  /\ None \notin Policy \cup {Stray} /\ None \notin Int
  /\ None \notin Camera \X (0 .. MaxDay)

VARIABLES
  npc,      \* notice threads in processCamera: "idle" or "fill"
  fill,     \* notice threads: cameras of the list not yet in the table
  table,    \* m_hashCameras: the policy member of each camera, None if absent
  expires,  \* m_quePolicy: the retention of each policy, None if absent
  rpc,      \* recycle thread: which part of the pass it is in
  left,     \* recycle thread: cameras its present loop has still to visit
  seen,     \* recycle thread: queCameras, policy of each copied camera
  limit,    \* recycle thread: queCameras, retention found, -1 when not found
  orphans,  \* recycle thread: queDirName
  listed,   \* recycle thread: queFileInfo of the camera being visited
  file,     \* recycle thread: fileInfo, the file whose age is known
  age,      \* recycle thread: nDay, as diffDay gave it
  dirs,     \* the directories under the recorder path
  files,    \* the recordings
  today,
  held,     \* history: the retention of every camera whose entry in the table
            \* and whose retention are what they were when the pass began
  read      \* history: "torn" if two threads wrote localtime's buffer for age

noticeVars  == <<npc, fill, table, expires>>
compareVars == <<file, age, read>>
passVars    == <<rpc, left, seen, limit, orphans, listed, compareVars>>
diskVars    == <<dirs, files, today>>
vars == <<noticeVars, passVars, diskVars, held>>

Day == 0 .. MaxDay

FilesOf(c) == {f \in files : f[1] = c}

---------------------------------------------------------------------------
(* The notice threads. *)

\* The number in the policy member of a camera put in the table: processCamera
\* does not assign it, so it is whatever the memory held.
Member == Policy \cup {Stray}

\* processCamera: a new list S arrived; the table is cleared.
ClearCameras(n) ==
  /\ npc[n] = "idle"
  /\ \E S \in SUBSET Camera : fill' = [fill EXCEPT ![n] = S]
  /\ table' = [c \in Camera |-> None]
  /\ npc' = [npc EXCEPT ![n] = "fill"]
  /\ held' = [c \in Camera |-> None]
  /\ UNCHANGED <<expires, passVars, diskVars>>

\* processCamera: one camera goes into the table, its directory is created; nobody
\* looks whether createDirectory could do so.
InsertCamera(n, c) ==
  /\ npc[n] = "fill" /\ c \in fill[n]
  /\ \E q \in Member : table' = [table EXCEPT ![c] = q]
  /\ fill' = [fill EXCEPT ![n] = @ \ {c}]
  /\ dirs' \in {dirs, dirs \cup {c}}
  /\ held' = [held EXCEPT ![c] = None]
  /\ UNCHANGED <<npc, expires, passVars, files, today>>

EndFill(n) ==
  /\ npc[n] = "fill" /\ fill[n] = {}
  /\ npc' = [npc EXCEPT ![n] = "idle"]
  /\ UNCHANGED <<fill, table, expires, passVars, diskVars, held>>

\* The retention of policy q, -1 when it is not in the queue.
Found(queue, q) == IF q \in Policy /\ queue[q] # None THEN queue[q] ELSE -1
RetentionFound(q) == Found(expires, q)

\* processPolicy: the queue is replaced under m_mutexPolicy; a policy whose
\* week has not seven days is left out.
ReplacePolicies ==
  /\ expires' \in [Policy -> Retention \cup {None}]
  /\ held' = [c \in Camera |->
                IF held[c] = Found(expires', table[c]) THEN held[c] ELSE None]
  /\ UNCHANGED <<npc, fill, table, passVars, diskVars>>

---------------------------------------------------------------------------
(* The recycle thread. *)

\* wait(): the time is up and m_bExpired is false.
StartPass ==
  /\ rpc = "idle"
  /\ rpc' = "cameras" /\ left' = Camera
  /\ held' = [c \in Camera |->
                IF table[c] = None THEN None ELSE RetentionFound(table[c])]
  /\ UNCHANGED <<noticeVars, seen, limit, orphans, listed, compareVars, diskVars>>

\* The loop over m_hashCameras, one bucket after the other, while a notice
\* thread may be clearing and filling it.
CopyCamera(c) ==
  /\ rpc = "cameras" /\ c \in left
  /\ seen' = [seen EXCEPT ![c] = table[c]]
  /\ left' = left \ {c}
  /\ UNCHANGED <<noticeVars, rpc, limit, orphans, listed, compareVars,
                 diskVars, held>>

\* The loop over queCameras under m_mutexPolicy.
LookUpRetention ==
  /\ rpc = "cameras" /\ left = {}
  /\ limit' = [c \in Camera |->
                 IF seen[c] = None THEN None ELSE RetentionFound(seen[c])]
  /\ rpc' = "dirs"
  /\ UNCHANGED <<noticeVars, left, seen, orphans, listed, compareVars, diskVars,
                 held>>

\* Directories nobody copied owns.
NotOwnedInverted(c) == seen[c] # None
NotOwned(c) == seen[c] = None

\* recursionDir, and the search for each directory in queCameras.
ListDirectories ==
  /\ rpc = "dirs"
  /\ orphans' = {c \in dirs : NotOwned(c)}
  /\ rpc' = "remove"
  /\ UNCHANGED <<noticeVars, left, seen, limit, listed, compareVars, diskVars,
                 held>>

\* rm -rf of one of them.
RemoveDirectory(c) ==
  /\ rpc = "remove" /\ c \in orphans
  /\ dirs' = dirs \ {c} /\ files' = files \ FilesOf(c)
  /\ orphans' = orphans \ {c}
  /\ UNCHANGED <<noticeVars, rpc, left, seen, limit, listed, compareVars, today,
                 held>>

EndRemove ==
  /\ rpc = "remove" /\ orphans = {}
  /\ rpc' = "expire" /\ left' = {c \in Camera : limit[c] # None}
  /\ UNCHANGED <<noticeVars, seen, limit, orphans, listed, compareVars, diskVars,
                 held>>

\* Cameras whose recordings are kept for ever are passed over.
KeepForEver(c) ==
  /\ rpc = "expire" /\ c \in left /\ limit[c] = 0
  /\ left' = left \ {c}
  /\ UNCHANGED <<noticeVars, rpc, seen, limit, orphans, listed, compareVars,
                 diskVars, held>>

\* recursionFile lists the files of a camera (none when there is no directory).
ListFiles(c) ==
  /\ rpc = "expire" /\ c \in left /\ limit[c] # 0
  /\ rpc' = "unlink" /\ left' = left \ {c}
  /\ listed' = FilesOf(c)
  /\ UNCHANGED <<noticeVars, seen, limit, orphans, compareVars, diskVars, held>>

\* localtime for now, and diffDay of that and of the time recursionFile copied
\* for the file.
DiffDay(f) ==
  /\ rpc = "unlink" /\ file = None /\ f \in listed
  /\ file' = f /\ age' = today - f[2] /\ read' = "whole"
  /\ listed' = listed \ {f}
  /\ UNCHANGED <<noticeVars, rpc, left, seen, limit, orphans, diskVars, held>>

\* Both times pass through localtime's one buffer, which the log lines of every
\* thread fill as well: either can be a mixture.
DiffDayTorn(f) ==
  /\ rpc = "unlink" /\ file = None /\ f \in listed
  /\ file' = f /\ age' \in -MaxDay .. MaxDay /\ read' = "torn"
  /\ listed' = listed \ {f}
  /\ UNCHANGED <<noticeVars, rpc, left, seen, limit, orphans, diskVars, held>>

\* The age against the retention.
IsExpiredAtLimit == age >= limit[file[1]]
IsExpiredSwapped == -age > limit[file[1]]
IsExpired == age > limit[file[1]]

NextFile == file' = None /\ age' = 0 /\ read' = "whole"

UnlinkFile ==
  /\ rpc = "unlink" /\ file # None /\ IsExpired
  /\ files' = files \ {file}
  /\ NextFile
  /\ UNCHANGED <<noticeVars, rpc, left, seen, limit, orphans, listed, dirs,
                 today, held>>

KeepFile ==
  /\ rpc = "unlink" /\ file # None /\ ~IsExpired
  /\ NextFile
  /\ UNCHANGED <<noticeVars, rpc, left, seen, limit, orphans, listed, diskVars,
                 held>>

EndFiles ==
  /\ rpc = "unlink" /\ file = None /\ listed = {}
  /\ rpc' = "expire"
  /\ UNCHANGED <<noticeVars, left, seen, limit, orphans, listed, compareVars,
                 diskVars, held>>

EndPass ==
  /\ rpc = "expire" /\ left = {}
  /\ rpc' = "idle"
  /\ seen' = [c \in Camera |-> None] /\ limit' = [c \in Camera |-> None]
  /\ held' = [c \in Camera |-> None]
  /\ UNCHANGED <<noticeVars, left, orphans, listed, compareVars, diskVars>>

---------------------------------------------------------------------------
(* The recorders and the clock. *)

\* A recorder writes today's file. It may still be that of a camera that has
\* been removed.
Record(c) ==
  /\ c \in dirs
  /\ files' = files \cup {<<c, today>>}
  /\ UNCHANGED <<noticeVars, passVars, dirs, today, held>>

NextDay ==
  /\ today < MaxDay /\ today' = today + 1
  /\ UNCHANGED <<noticeVars, passVars, dirs, files, held>>

---------------------------------------------------------------------------
\* The server is up with some cameras in the table (demo assigns the policy, a
\* downloaded list does not); directories of others may be there from earlier.
Init ==
  /\ npc = [n \in Notice |-> "idle"] /\ fill = [n \in Notice |-> {}]
  /\ table \in [Camera -> Member \cup {None}]
  /\ expires \in [Policy -> Retention \cup {None}]
  /\ rpc = "idle" /\ left = {} /\ orphans = {} /\ listed = {}
  /\ seen = [c \in Camera |-> None] /\ limit = [c \in Camera |-> None]
  /\ file = None /\ age = 0 /\ read = "whole"
  /\ dirs \in SUBSET Camera
  /\ files = {} /\ today = 0
  /\ held = [c \in Camera |-> None]

ProcessCamera(n) ==
  ClearCameras(n) \/ (\E c \in Camera : InsertCamera(n, c)) \/ EndFill(n)

Pass ==
  \/ LookUpRetention \/ ListDirectories \/ EndRemove \/ EndFiles \/ EndPass
  \/ UnlinkFile \/ KeepFile
  \/ \E c \in Camera : \/ CopyCamera(c) \/ RemoveDirectory(c)
                       \/ KeepForEver(c) \/ ListFiles(c)
  \/ \E f \in Camera \X Day : DiffDay(f) \/ DiffDayTorn(f)

Next ==
  \/ (\E n \in Notice : ProcessCamera(n)) \/ ReplacePolicies
  \/ StartPass \/ Pass \/ NextDay
  \/ \E c \in Camera : Record(c)

\* The timer of wait() runs out again and again, and threads are scheduled. The
\* race for localtime's buffer is not lost every time. Lists may be quiet for
\* ever, or change at any moment.
Fairness ==
  /\ WF_vars(StartPass) /\ WF_vars(Pass)
  /\ \A f \in Camera \X Day : SF_vars(DiffDay(f))

Spec == Init /\ [][Next]_vars /\ Fairness

---------------------------------------------------------------------------
(* Properties. *)

\* Every variable holds what its declaration says.
TypeOK ==
  /\ npc \in [Notice -> {"idle", "fill"}] /\ fill \in [Notice -> SUBSET Camera]
  /\ table \in [Camera -> Member \cup {None}]
  /\ expires \in [Policy -> Retention \cup {None}]
  /\ rpc \in {"idle", "cameras", "dirs", "remove", "expire", "unlink"}
  /\ left \subseteq Camera
  /\ seen \in [Camera -> Member \cup {None}]
  /\ limit \in [Camera -> Retention \cup {-1, None}]
  /\ orphans \subseteq Camera
  /\ listed \subseteq Camera \X Day
  /\ file \in (Camera \X Day) \cup {None} /\ age \in Int /\ read \in {"whole", "torn"}
  /\ dirs \subseteq Camera /\ files \subseteq Camera \X Day /\ today \in Day
  /\ held \in [Camera -> Retention \cup {-1, None}]

\* rm -rf never takes the directory of a camera whose entry has been in the
\* table unchanged since the pass began, whatever the notice threads do to the
\* rest of the table while the pass copies it and lists the directories (1084,
\* 1122). Nothing more can be promised: see OnlyOrphansRemoved.
SteadyDirectoryStays ==
  [][\A c \in Camera : c \in dirs /\ c \notin dirs' => held[c] = None]_vars

\* Of such a camera whose retention did not change either, no recording is
\* unlinked that is to be kept for ever, and none that is not older than the
\* retention, unless its age was mixed from two times (1112, 1167). The
\* retention is the one of the policy the camera has in the table, -1 if that
\* is none: see OnlyExpiredUnlinked.
SteadyRetentionKept ==
  [][\A f \in files \ files' :
       LET r == held[f[1]]
       IN  r # None => r # 0 /\ (read = "torn" \/ today - f[2] > r)]_vars

\* "Recycle the directories of cameras that do not exist" (1139): no directory
\* of a camera that is in the table is removed.
OnlyOrphansRemoved ==
  [][\A c \in Camera : c \in dirs /\ c \notin dirs' => table[c] = None]_vars

\* "0 means it never expires" (public_common.h:207): while every policy there
\* is keeps recordings for ever, none of a camera in the table is unlinked (a pass
\* that removes a whole directory is the matter of OnlyOrphansRemoved).
OnlyExpiredUnlinked ==
  [][(\A q \in Policy : expires[q] = 0) /\ read = "whole" /\ dirs' = dirs
       => \A f \in files \ files' : table[f[1]] = None]_vars

\* A recording of a camera in the table that is older than the retention of the
\* camera's policy.
Outdated(f) ==
  /\ table[f[1]] # None
  /\ LET r == RetentionFound(table[f[1]]) IN r > 0 /\ today - f[2] > r

\* An outdated recording is recycled in the end, unless the lists change so
\* that it is not outdated any more, however often they change otherwise.
ExpiredRecycled ==
  \A f \in Camera \X Day :
    (f \in files /\ Outdated(f)) ~> (f \notin files \/ ~Outdated(f))

\* The directory of a camera that is not in the table is recycled in the end,
\* unless the camera comes back.
OrphansRecycled ==
  \A c \in Camera : (c \in dirs /\ table[c] = None) ~> (c \notin dirs \/ table[c] # None)

---------------------------------------------------------------------------
(* The inductive invariant behind the two action properties about cameras  *)
(* that stay: what the pass copied, found and listed of them agrees with   *)
(* the table, although it may not agree for the others.                    *)

Looked == {"dirs", "remove", "expire", "unlink"}

\* A steady camera is in the table with the retention it had.
HeldSound ==
  \A c \in Camera : held[c] # None =>
    table[c] # None /\ held[c] = RetentionFound(table[c])

\* What a pass copied and found of it is what the table and the queue hold.
CopySound ==
  \A c \in Camera : held[c] # None =>
    /\ rpc = "cameras" /\ c \notin left => seen[c] = table[c]
    /\ rpc \in Looked => seen[c] # None /\ limit[c] = held[c]

\* What a pass removes was not copied, what it compares is not kept for ever.
PassSound ==
  /\ rpc = "remove" => \A c \in orphans : seen[c] = None
  /\ rpc = "unlink" => \A f \in listed : limit[f[1]] # 0
  /\ rpc # "unlink" => file = None
  /\ rpc = "unlink" /\ file # None =>
       limit[file[1]] # 0 /\ (read = "torn" \/ today - file[2] >= age)

RecycleInv == TypeOK /\ HeldSound /\ CopySound /\ PassSound

=============================================================================
