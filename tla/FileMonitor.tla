---------------------------- MODULE FileMonitor ----------------------------
(***************************************************************************)
(* CFileMonitor (src/file_monitor.cpp): watches a folder and what is below *)
(* it with inotify, lists every file it hears of with the time at which it *)
(* expires, and removes the expired ones after each batch of events.       *)
(* Nothing in the server starts one yet. It has a listener, without which  *)
(* watchFolder lists no files.                                             *)
(*                                                                         *)
(* Other processes make, move and remove files and folders at any time,    *)
(* also between the watch and the listing of a new folder. A path is a     *)
(* sequence of names; the kernel's part is inotify: a folder has at most   *)
(* one watch, which stays with it under its new name and goes when it is   *)
(* removed; events queue until they are read, and are lost when the queue  *)
(* is full (what tells of that has no name and is passed over); a move     *)
(* gives no event, because the mask does not ask for IN_MOVED_TO (158).    *)
(***************************************************************************)
EXTENDS Naturals, Sequences, SequencesExt, FiniteSets

CONSTANTS
  Root,     \* the folder given to the constructor: a path of one name
  DirName,  \* names of folders
  FileName, \* names of files
  Dot,      \* names that begin with a dot
  Tilde,    \* names that end with a tilde
  StopName, \* the file "stop"
  Expire,   \* m_expire, in seconds
  QueueLimit, \* events the kernel queues
  MaxOps,   \* bound of the operations of other processes
  MaxSeconds  \* bound of seconds

\* A path of one name for the root; a file system has finitely many names.
ASSUME MonitorAssumption ==
  /\ Root = <<Root[1]>>
  /\ IsFiniteSet(DirName) /\ IsFiniteSet(FileName)
  /\ Expire \in Nat /\ QueueLimit \in Nat /\ MaxOps \in Nat /\ MaxSeconds \in Nat

VARIABLES
  dirs,       \* folders that exist
  files,      \* files that exist
  unheard,    \* history: those that came without an event after their folder was listed
  live,       \* inotify: watch descriptor -> folder
  nextWd,     \* inotify: the next descriptor
  queue,      \* inotify: events not read
  monitorMap, \* watch descriptor -> path
  fileList,   \* files and when they expire
  frames,     \* watchFolder: folders under way, the innermost first
  buffer,     \* start: events read and not handled
  phase,      \* where the monitor is
  bRun,       \* start: no "stop" file seen
  iter,       \* deleteFile: place in fileList
  seconds,    \* time
  ops         \* operations other processes have made

fsVars   == <<dirs, files, unheard>>
kernVars == <<live, nextWd, queue>>
ownVars  == <<monitorMap, fileList, frames, buffer, phase, bRun, iter>>
monVars  == <<fsVars, kernVars, ownVars, seconds, ops>>

---------------------------------------------------------------------------
(* Helpers. *)

Parent(p) == Front(p)
WatchesOf(p) == {wd \in DOMAIN live : live[wd] = p}
Without(f, S) == [x \in DOMAIN f \ S |-> f[x]]
With(f, x, v) == [y \in DOMAIN f \cup {x} |-> IF y = x THEN v ELSE f[y]]

\* What the kernel reports of p to the watch of its folder.
Reported(p, mask, isDir) ==
  SetToSeq({[wd |-> wd, mask |-> mask, isDir |-> isDir, name |-> Last(p)] :
             wd \in WatchesOf(Parent(p))})

\* The queue with events more, unless it is full.
Overflows(events) == Len(queue) + Len(events) > QueueLimit
Queued(events) == IF Overflows(events) THEN queue ELSE queue \o events

\* Hidden and temporary files are filtered by the first and the last character.
Filtered(name) == name \in Dot \cup Tilde

\* monitorMap[wd] makes an empty entry for a descriptor that is not there.
PathOf(wd) == IF wd \in DOMAIN monitorMap THEN monitorMap[wd] ELSE <<>>
Touched(wd) == With(monitorMap, wd, PathOf(wd))

Listed(p, stamp) == [path |-> p, expire |-> stamp]

\* watchFolder watches a folder and then lists it: what is made in between is
\* seen twice rather than not at all.
StepsListFirst == <<"list", "watch">>
Steps == <<"watch", "list">>
Frame(p) == [path |-> p, todo |-> Steps]

---------------------------------------------------------------------------
(* Other processes. *)

Free == ops < MaxOps /\ phase # "end"
Counted == ops' = ops + 1 /\ UNCHANGED <<live, nextWd, ownVars, seconds>>

MakeFile(p) ==
  /\ Free /\ Parent(p) \in dirs /\ p \notin files
  /\ LET events == Reported(p, "create", FALSE)
     IN /\ queue' = Queued(events)
        /\ unheard' = IF Overflows(events) THEN unheard \cup {p} ELSE unheard
  /\ files' = files \cup {p}
  /\ Counted /\ UNCHANGED dirs

WriteFile(p) ==
  /\ Free /\ p \in files
  /\ queue' = Queued(Reported(p, "modify", FALSE))
  /\ Counted /\ UNCHANGED fsVars

RemoveFile(p) ==
  /\ Free /\ p \in files
  /\ files' = files \ {p} /\ unheard' = unheard \ {p}
  /\ queue' = Queued(Reported(p, "delete", FALSE))
  /\ Counted /\ UNCHANGED dirs

\* rename: from a folder that is below the root, or from elsewhere; a file that
\* has the name already is replaced.
MoveFile(p, q) ==
  /\ Free /\ p \in files \ {q} /\ Parent(q) \in dirs
  /\ files' = (files \ {p}) \cup {q}
  /\ unheard' = (unheard \ {p}) \cup ({q} \ files)
  /\ Counted /\ UNCHANGED <<dirs, queue>>

MoveFileIn(q) ==
  /\ Free /\ q \notin files /\ Parent(q) \in dirs
  /\ files' = files \cup {q} /\ unheard' = unheard \cup {q}
  /\ Counted /\ UNCHANGED <<dirs, queue>>

MakeDir(p) ==
  /\ Free /\ Parent(p) \in dirs /\ p \notin dirs
  /\ dirs' = dirs \cup {p} /\ queue' = Queued(Reported(p, "create", TRUE))
  /\ Counted /\ UNCHANGED <<files, unheard>>

CountedWithWatches == ops' = ops + 1 /\ UNCHANGED <<nextWd, ownVars, seconds>>

\* An empty folder; its watch goes with it.
RemoveDir(p) ==
  /\ Free /\ p \in dirs \ {Root}
  /\ \A q \in dirs \cup files : Parent(q) # p
  /\ dirs' = dirs \ {p} /\ live' = Without(live, WatchesOf(p))
  /\ queue' = Queued(Reported(p, "delete", TRUE))
  /\ CountedWithWatches /\ UNCHANGED <<files, unheard>>

\* A folder gets another name, with its files and its watch, which monitorMap
\* has under the old name.
MoveDir(p, q) ==
  /\ Free /\ p \in dirs \ {Root} /\ q \notin dirs
  /\ LET inside == {f \in files : Parent(f) = p}
         moved  == {Append(q, Last(f)) : f \in inside}
     IN /\ files' = (files \ inside) \cup moved
        /\ unheard' = (unheard \ inside) \cup moved
  /\ dirs' = (dirs \ {p}) \cup {q}
  /\ live' = [wd \in DOMAIN live |-> IF live[wd] = p THEN q ELSE live[wd]]
  /\ CountedWithWatches /\ UNCHANGED queue

---------------------------------------------------------------------------
(* watchFolder. *)

Rest(frame) == IF Len(frame.todo) = 1 THEN <<>>
               ELSE <<[frame EXCEPT !.todo = Tail(@)]>>

\* inotify_add_watch: a folder that has a watch keeps it; -1 when there is no
\* such folder. The result is stored in either case.
Watch ==
  /\ frames # <<>> /\ Head(Head(frames).todo) = "watch"
  /\ LET p  == Head(frames).path
         wd == IF p \notin dirs THEN 0
               ELSE IF WatchesOf(p) # {} THEN CHOOSE w \in WatchesOf(p) : TRUE
               ELSE nextWd
     IN /\ monitorMap' = With(monitorMap, wd, p)
        /\ live' = IF wd = 0 THEN live ELSE With(live, wd, p)
        /\ nextWd' = IF wd = nextWd THEN nextWd + 1 ELSE nextWd
  /\ frames' = Rest(Head(frames)) \o Tail(frames)
  /\ UNCHANGED <<fsVars, queue, fileList, buffer, phase, bRun, iter, seconds, ops>>

\* opendir and readdir: files are listed, folders are watched in their turn.
ListFolder ==
  /\ frames # <<>> /\ Head(Head(frames).todo) = "list"
  /\ LET p    == Head(frames).path
         subs == {d \in dirs : Len(d) = Len(p) + 1 /\ Parent(d) = p /\ Last(d) \notin Dot}
         new  == {f \in files : Parent(f) = p /\ ~Filtered(Last(f))}
     IN IF p \in dirs
          THEN /\ frames' = SetToSeq({Frame(d) : d \in subs})
                              \o Rest(Head(frames)) \o Tail(frames)
               /\ fileList' = fileList
                    \o SetToSeq({Listed(f, seconds + Expire) : f \in new})
               /\ unheard' = {f \in unheard : Parent(f) # p}
          ELSE /\ frames' = Rest(Head(frames)) \o Tail(frames)
               /\ UNCHANGED <<fileList, unheard>>
  /\ UNCHANGED <<dirs, files, kernVars, monitorMap, buffer, phase, bRun, iter, seconds, ops>>

\* The constructor has watched the root and what is below.
Built ==
  /\ phase = "build" /\ frames = <<>>
  /\ phase' = "read"
  /\ UNCHANGED <<fsVars, kernVars, monitorMap, fileList, frames, buffer, bRun,
                 iter, seconds, ops>>

---------------------------------------------------------------------------
(* start. *)

\* read waits for events and takes those there are.
ReadEvents ==
  /\ phase = "read" /\ queue # <<>>
  /\ buffer' = queue /\ queue' = <<>> /\ phase' = "events"
  /\ UNCHANGED <<fsVars, live, nextWd, monitorMap, fileList, frames, bRun, iter,
                 seconds, ops>>

\* read fails, as when a signal comes ("read none"): deleteFile runs all the same.
ReadFails ==
  /\ phase = "read" /\ phase' = "delete" /\ iter' = 1
  /\ UNCHANGED <<fsVars, kernVars, monitorMap, fileList, frames, buffer, bRun,
                 seconds, ops>>

Handling(e) ==
  /\ phase = "events" /\ frames = <<>> /\ buffer # <<>>
  /\ e = Head(buffer) /\ buffer' = Tail(buffer)
  /\ UNCHANGED <<fsVars, nextWd, queue, phase, iter, seconds, ops>>

SkipEvent(e) ==
  /\ Handling(e) /\ Filtered(e.name)
  /\ UNCHANGED <<live, monitorMap, fileList, frames, bRun>>

HandleCreateDir(e) ==
  /\ Handling(e) /\ ~Filtered(e.name) /\ e.mask = "create" /\ e.isDir
  /\ monitorMap' = Touched(e.wd)
  /\ frames' = <<Frame(Append(PathOf(e.wd), e.name))>>
  /\ UNCHANGED <<live, fileList, bRun>>

\* The file "stop" ends the loop and expires at once.
HandleCreateFile(e) ==
  /\ Handling(e) /\ ~Filtered(e.name) /\ e.mask = "create" /\ ~e.isDir
  /\ monitorMap' = Touched(e.wd)
  /\ bRun' = (bRun /\ e.name # StopName)
  /\ fileList' = Append(fileList,
       Listed(Append(PathOf(e.wd), e.name),
              IF e.name = StopName THEN seconds ELSE seconds + Expire))
  /\ UNCHANGED <<live, frames>>

\* The watch that reported the removal goes: that of the folder above.
UnwatchedNone(e) == {}
Unwatched(e) == {e.wd}
HandleDeleteDir(e) ==
  /\ Handling(e) /\ ~Filtered(e.name) /\ e.mask = "delete" /\ e.isDir
  /\ live' = Without(live, Unwatched(e)) /\ monitorMap' = Without(monitorMap, {e.wd})
  /\ UNCHANGED <<fileList, frames, bRun>>

\* A file that is gone stays in the list; a change of a file changes nothing.
HandleOtherEvent(e) ==
  /\ Handling(e) /\ ~Filtered(e.name)
  /\ e.mask = "modify" \/ (e.mask = "delete" /\ ~e.isDir)
  /\ monitorMap' = Touched(e.wd)
  /\ UNCHANGED <<live, fileList, frames, bRun>>

Handled ==
  /\ phase = "events" /\ frames = <<>> /\ buffer = <<>>
  /\ phase' = "delete" /\ iter' = 1
  /\ UNCHANGED <<fsVars, kernVars, monitorMap, fileList, frames, buffer, bRun,
                 seconds, ops>>

---------------------------------------------------------------------------
(* deleteFile: an expired file is removed and leaves the list; what cannot *)
(* be removed stays and is tried again after the next batch.               *)

AtEntry(e) ==
  /\ phase = "delete" /\ iter <= Len(fileList) /\ e = fileList[iter]
  /\ UNCHANGED <<dirs, live, nextWd, monitorMap, frames, buffer, phase, bRun,
                 seconds, ops>>

DeleteExpired(e) ==
  /\ AtEntry(e) /\ e.expire <= seconds /\ e.path \in files
  /\ files' = files \ {e.path} /\ unheard' = unheard \ {e.path}
  /\ queue' = Queued(Reported(e.path, "delete", FALSE))
  /\ fileList' = RemoveAt(fileList, iter) /\ UNCHANGED iter

KeepEntry(e) ==
  /\ AtEntry(e) /\ (e.expire > seconds \/ e.path \notin files)
  /\ iter' = iter + 1 /\ UNCHANGED <<files, unheard, queue, fileList>>

Deleted ==
  /\ phase = "delete" /\ iter > Len(fileList)
  /\ phase' = IF bRun THEN "read" ELSE "stopped"
  /\ UNCHANGED <<fsVars, kernVars, monitorMap, fileList, frames, buffer, bRun,
                 iter, seconds, ops>>

\* The destructor.
Destroy ==
  /\ phase = "stopped" /\ phase' = "end"
  /\ live' = Without(live, DOMAIN monitorMap) /\ monitorMap' = <<>> /\ queue' = <<>>
  /\ UNCHANGED <<fsVars, nextWd, fileList, frames, buffer, bRun, iter, seconds, ops>>

\* Seconds pass, but not while a batch is handled or files are removed.
MonitorTick ==
  /\ phase \in {"build", "read"} /\ seconds < MaxSeconds
  /\ seconds' = seconds + 1
  /\ UNCHANGED <<fsVars, kernVars, ownVars, ops>>

---------------------------------------------------------------------------
SubDirs == {Append(Root, d) : d \in DirName}
AllFiles == {Append(d, f) : d \in {Root} \cup SubDirs, f \in FileName}

MonitorInit ==
  /\ \E ds \in SUBSET SubDirs : dirs = {Root} \cup ds
  /\ files \in SUBSET {f \in AllFiles : Parent(f) \in dirs /\ Last(f) # StopName}
  /\ unheard = {} /\ live = <<>> /\ nextWd = 1 /\ queue = <<>>
  /\ monitorMap = <<>> /\ fileList = <<>> /\ frames = <<Frame(Root)>>
  /\ buffer = <<>> /\ phase = "build" /\ bRun = TRUE /\ iter = 1
  /\ seconds = 0 /\ ops = 0

Others ==
  \/ \E p \in AllFiles : MakeFile(p) \/ WriteFile(p) \/ RemoveFile(p) \/ MoveFileIn(p)
  \/ \E p, q \in AllFiles : MoveFile(p, q)
  \/ \E p \in SubDirs : MakeDir(p) \/ RemoveDir(p)
  \/ \E p, q \in SubDirs : MoveDir(p, q)

Monitor ==
  \/ Watch \/ ListFolder \/ Built \/ ReadEvents \/ ReadFails \/ Handled \/ Deleted \/ Destroy
  \/ \E e \in ToSet(buffer) : \/ SkipEvent(e) \/ HandleCreateDir(e) \/ HandleCreateFile(e)
                             \/ HandleDeleteDir(e) \/ HandleOtherEvent(e)
  \/ \E e \in ToSet(fileList) : DeleteExpired(e) \/ KeepEntry(e)

MonitorNext == Others \/ Monitor \/ MonitorTick

MonitorSpec == MonitorInit /\ [][MonitorNext]_monVars

---------------------------------------------------------------------------
(* Properties. *)

\* Type invariant of the monitor; every watch the kernel has is in the map, so
\* that the destructor finds it.
MonitorTypeOK ==
  /\ unheard \subseteq files /\ files \subseteq AllFiles
  /\ dirs \subseteq {Root} \cup SubDirs
  /\ DOMAIN live \subseteq DOMAIN monitorMap /\ DOMAIN live \subseteq 1..nextWd - 1
  /\ iter \in 1..Len(fileList) + 1 /\ seconds \in 0..MaxSeconds /\ ops \in 0..MaxOps

\* No file escapes: when the monitor waits for events and there are none, each
\* file of a folder it watches is listed to expire, also one that was made or
\* moved while the folder was being watched and listed. Only files that the
\* kernel told nothing of afterwards can be missing: those that were moved, for
\* which the mask (158) does not ask, or whose event found the queue full.
NothingEscapes ==
  phase = "read" /\ queue = <<>> =>
    \A f \in files \ unheard :
      (\E wd \in DOMAIN live : live[wd] = Parent(f) /\ monitorMap[wd] = Parent(f))
        /\ ~Filtered(Last(f))
      => \E i \in DOMAIN fileList : fileList[i].path = f
=============================================================================
