# Verification of qiyicc.nvr

TLA+ models of the network video recorder in this repository, with TLC runs and
TLAPS proofs. Paths are relative to the repository; line numbers in module
comments are those of `src/server_manager.cpp` unless a file is named.

## 1. The system

`nvrserver` keeps a copy of three lists of a configuration server (policies,
cabinets, cameras), records cameras by running one `ffmpeg` process per
recording task inside the time spans of the camera's policy, and recycles old
recordings. The configuration server tells it over thrift when a list changed.

| Component | Files | State | Operations |
|---|---|---|---|
| Recording tasks, dispatcher | `src/server_manager.cpp` 255-275, 281-352, 782-1074 | `m_hashTask` (camera, policy, child, weeks) | `demo`, `createTask`, `dispatchTask`, `startTask`, `stopTask`, `taskExit` |
| Signal thread | `src/main.cpp` 83-269 | `g_bIsExit`, pending signals | `signal_thread`, `signal_handler`, `signal_child` |
| Configuration | `src/server_manager.cpp` 131-225, 358-726, `src/web_client.cpp` | three tables, three versions, three cache files | `inital`, `loadX`, `downloadX`, `processX`, `loadCache`, `saveCache` |
| Notice interface | `src/thrift_handler.cpp`, `src/thrift_server.cpp`, `thrift/gen-*` | worker threads, one detached thread per notice | `notice`, `start`, `stop`, `run` |
| Recycling | `src/server_manager.cpp` 1076-1178 | `m_timeExpired`, `m_bExpired`, the recording directories | `recycleExpired` |
| Instance lock and process life | `src/main.cpp` 40-81, 276-308, 345-446 | pid file, `fcntl` lock | `IsHaveInstance`, `setup_daemon`, `main` |
| Locks | `src/jmutex.cpp` | `initialized`, pthread mutex | `Init`, `Lock`, `Unlock` |
| Time, paths, directories | `include/public_common.h` | `localtime`'s static buffer | `TIMESTATE`, `TIMEPOINT`, `string_split`, `createDirectory`, `recursionDir`, `recursionFile` |
| File monitor | `src/file_monitor.cpp` | watch table, expiry deque | `start`, `watchFolder`, `deleteFile` (no caller in the build) |
| XML library (CMarkup) | `src/markup.cpp` | text, index of element positions, current and saved positions, document flags | `Load`, `Save`, `SetDoc`, `Find*`, `Add*`, `Insert*`, `Set*`, `Remove*`, `SavePos`, `RestorePos` (the server calls `Load` and the finds, on `config.xml`) |
| Calls of `notice` | `thrift/gen-cpp/nvrWebService.*` | sequence numbers, pending reply, connection | `send_notice`, `recv_notice`, `process_notice`, `return_notice` |

### Threads and how they meet

* The **main thread** runs `inital()` (load caches, download lists, start
  thrift, `demo()`), then `wait()`: `dispatchTask()` every 20 microseconds and,
  every `m_expired` seconds, a detached **recycle thread**. When `g_bIsExit` is
  set it runs `unInit()`, removes the pid file and returns.
* The **signal thread** takes SIGINT, SIGHUP, SIGTERM, SIGUSR1 and SIGCHLD,
  which every other thread blocks. SIGCHLD makes it reap every zombie and call
  `taskExit` for each; SIGINT sets `g_bIsExit`.
* Each thrift `notice` starts a detached **notice thread** that downloads one
  list and, when its version differs, replaces the table.
* The **thrift thread** accepts connections; `mCount` **workers** serve one
  connection each until it is closed, the others wait.
* The **kernel** runs the recorders and tells of their exits by SIGCHLD, which
  does not queue.

`m_mutexTask` and `m_mutexPolicy` and `m_mutexCabinets` are initialised in the
constructor; `m_mutexCameras` is not, and `JMutex::Lock` then returns an error
nobody reads. The camera table has no mutual exclusion.

### What is hard about it

* Start, kill, exit, reap and restart of one recorder are spread over three
  threads and the kernel; the pid is stored after the child already runs, and
  SIGKILL does not clear the task's `child`, only the reaped exit does.
* Exits that happen together make one SIGCHLD.
* A notice thread replaces the camera table entry by entry while the
  dispatcher, `createTask` and the recycle thread use it, and kills recorders
  of removed tasks after it released the mutex.
* `recycleExpired` reads cameras, retentions, directories and files one after
  the other, and runs `rm -rf` on what the first reading did not show.
* The server can be killed between any two writes; the cache file is the only
  thing it starts from.
* The pid file is locked by inode and removed by name, by two threads and by
  servers that are on their way out.
* SIGINT can come at any point of the start; `m_bExpired` is set by the recycle
  thread and tested by the one that starts it; the milliseconds of the timer are
  an int.
* `localtime` returns one buffer to all threads, and the dispatcher takes its
  time from it field by field.
* `processCamera` leaves one member of a camera unassigned, and the pruning loop
  and the recycle thread decide by it.
* CMarkup corrects its index after each edit instead of parsing again, keeps
  saved positions in arrays that end at a mark, and remembers byte order marks
  from one file to the next.
* Threads that share a thrift client read each other's answers.

### When each component is correct

| Component | Correct when |
|---|---|
| Recording tasks | no camera is ever recorded twice; no recorder is left that nobody can stop; every exit is handled; a task in its span is recorded and one out of it is not |
| Pruning | only tasks whose camera left the list or changed its policy are removed (the code breaks this: `recorder_prune`), their recorders are stopped, and no others |
| Configuration | whoever may look sees one whole list; a list in use is in the cache; the list follows the configuration server |
| Recycling | only directories of unknown cameras and only outdated recordings go (broken: `recycle_race`, `recycle_never`; it holds of cameras that do not change meanwhile), and they do go |
| Instance lock | at most one server serves (broken: `lock_daemon`, `lock_term`; it holds in the foreground of servers that have their file); nobody is kept out by a server that is gone |
| Schedule | a task is recorded in exactly the seconds its policy names |
| Server life | no worker outlives `main`; a server that listens ends after SIGINT; passes recur and never overlap; waiting connections get their turn |
| Calls of `notice` | each caller gets its own answer, or an exception, and none waits for ever |
| File monitor | no file of a watched folder escapes the list of what expires |
| XML library | the index is what a new parse of the text would give; what was set is read back; a file is loaded as the text it stands for and saved as it was |

## 2. The modules

| Module | Models | Proofs |
|---|---|---|
| `RecorderTasks` | tasks, dispatcher, signal thread, notice threads in `processCamera`, recorder processes | `RecorderTasks_proofs` |
| `RecorderContract` | what the recording side promises, with no threads or processes | refined by `RecorderTasks` |
| `Recycle` | one recycle pass, the notice threads, files and directories, days | `Recycle_proofs` |
| `InstanceLock` | several servers, the pid file, inodes and locks | `InstanceLock_proofs` |
| `ConfigSync` | one list, its cache file, the configuration server, crashes | `ConfigSync_proofs` |
| `ServerLife` | main, thrift and detached threads of one process, the recycle timer, SIGINT | `ServerLife_proofs` |
| `NoticeCalls` | calls over a connection that several threads share | `NoticeCalls_proofs` |
| `Schedule` | the arithmetic of spans, from the policy's text to "now is in a span" | `Parts_proofs` |
| `Timetable` | the dispatcher against the clock and `localtime`'s buffer; extends `Schedule` | `Parts_proofs` |
| `FileMonitor` | `CFileMonitor`, inotify and other processes | `Parts_proofs` |
| `MarkupDoc` | documents as lexemes, the tokenizer, `x_ParseElem`, the reference parse | |
| `SavedPositions` | the array of saved positions of one slot: save, look up, take out what is gone | `Markup_proofs` |
| `MarkupTree` | every operation of CMarkup on a document in memory; extends `MarkupDoc` and `SavedPositions` | |
| `MarkupText` | attribute values and data in the characters of the text | |
| `TextCodes` | UTF-8 and UTF-16 | `Markup_proofs` |
| `TextFile` | `Load` and `Save`; extends `TextCodes` | `Markup_proofs` |
| `MCRecorderTasks`, `MCRecycle` | instances for TLC: symmetry, `SafeSpec` without fairness | |
| `MCServer` | `ServerLife`, `NoticeCalls` or `ConfigSync`, the others at rest while one runs | `NoticeCalls_proofs` |
| `MCParts` | `InstanceLock`, `Timetable`, `FileMonitor`, `MarkupTree`, `MarkupText` or `TextFile`, the others at rest | |

### RecorderTasks

`mpc` is the program counter of the main thread. The first five values are
`demo()` and the `createTask()` it calls, with a step for each lock that is
taken (`CreateReadCamera`, `CreateReadPolicy`, `CreateInsertTask`); then
`poll`, `lock`, `scan`, `record` are one pass of `dispatchTask()`. A pass reads
the clock once; which tasks are then in a span (`inSpan`) is an arbitrary set,
so nothing here depends on the arithmetic of spans. The loop runs under
`m_mutexTask`: `mpc \in {"scan", "record"}` *is* holding that mutex, as is
`wpc[w] = "check"` for a notice thread, and `MutexTaskFree` is the guard of
everyone who takes it. `startTask` has two steps, since the child runs, and may
exit and be reaped, before the parent stores its pid.

`wpc`, `want`, `fill`, `check` and `doomed` are the notice threads in
`processCamera`: clear, fill, validate under the mutex, kill after it. The
camera table has no lock, so any thread may be anywhere else meanwhile.
`spc` and `reaped` are the signal thread, `proc`, `owner` and `sigchld` the
kernel: a process is live, dying (SIGKILL is on its way), a zombie or free, and
the pending SIGCHLD is one bit.

`RecorderContract` knows only the cameras that have a task and those being
recorded. The refinement maps them to the tasks and to the owners of the live
processes. Its `Start` requires that the camera has a task and no recorder;
this is where the order of reaping, clearing and starting matters.

### Recycle

`rpc` is the part of the pass: copy the cameras (one step each, the table may
change between two), look up the retentions (one step, under `m_mutexPolicy`),
list the directories, remove, then list and unlink the files of one camera after
the other. `seen` and `limit` are the two members of `queCameras`, `file` and
`age` the file whose age `diffDay` has just given. Any number of notice threads
are in `processCamera` at the same time and at any time of a pass, one step for
each camera they insert; `createDirectory` runs in that step and may fail, which
nobody looks at. The policy member, which `processCamera` does not assign, is any
policy or none (`Member`).

Two variables are history. `held` has the retention of a camera as long as its
entry and its retention are what they were when the pass began, `None` from the
first change on. `read` is "torn" when `age` was mixed from two times
(`DiffDayTorn`): both times pass through `localtime`'s buffer. One pass runs at a
time; that is what `OnePass` of `ServerLife` is about.

### InstanceLock

A server is `off`, past `main`'s first lines (`start`), has the file `open`,
`locked` it, is `up`, `down` (past `unInit`, before exit) or `refused`, since
`open` failed or since `fcntl` did. `named` is the inode the name leads to, `fd`
and `lock` the kernel's tables; `fcntl` fails only on the lock of another
process. Servers are started, interrupted, terminated and killed at any time, and
the two unlinks of one that exits (signal thread, main thread) are steps of their
own.

### ConfigSync

`pc` is where each thread is in `loadX`, `downloadX` and `processX`; the main
thread goes through load and download at start-up, a notice thread through
download. `asked` is the version copied under the mutex before the request,
`got` the answer. A version stands for a whole answer. `OpenCache` truncates the
cache file and `WriteCache` fills it, and the process may die between the two:
the server then starts with no list at all. The code uses a list although its save
failed; `unsaved` is a history variable that says so, until the next save. These
are the two cases that `DurableBeforeUse` has to except.
`Locked` distinguishes the policy and cabinet lists from the camera list.

### ServerLife

`main` is where the main thread is in `inital`, in the loop of `wait` (`test`,
`poll`, `reset`), in `stop` (`join`), or past it (`exit`, `gone`). `job` has one
entry for each detached thread the process may have: `new` is between
`std::thread` and the first statement of `recycleExpired`, which sets
`m_bExpired`. `now` and `logon` are kept modulo 2 * `Half`, `Half` standing for
2^31, and `Duration` cuts their difference to an int as `TIMESTATE` does. Of the
thrift library, which is not in the repository, the documented behaviour is
modelled: an interrupt before `listen` is lost, an interrupted `serve` drops what
no worker took and waits for the workers, a worker keeps its connection. A
failing `listen` and a failing `std::thread` end the process (`Ends`), since
nobody catches what they throw. `Prompt` says that a new thread runs its first
statement within one tick of the clock. What a download does is in `ConfigSync`;
here it is a detached thread that ends, or ends the process.

### NoticeCalls

`at` is where each caller is in `notice`, `send_notice` and `recv_notice`. The
library's `TConcurrentClientSyncInfo` is modelled as those functions use it: two
mutexes, the numbers with a condition (`mapped`), one message that waits
(`pending`), `wake` and `stop`. Messages are lists of fields with id and type, of
which the generated readers take the last that fits. The server answers calls in
any order and may answer with an exception; the connection may break at any time.

### Schedule and Timetable

A text is a sequence of numbers and separators; `Split` is `string_split`,
`TimeSpans` is the set of spans that `getTimeSpan` makes (`Span` of one entry), with
the places at which `stoi` throws, `Covers` the comparison in `dispatchTask`,
`DemoSpan` the span that `demo` makes. `Timetable` runs them: the main thread calls
`localtime` (`ReadClock`), takes hour, minute, second and day from its buffer one
after the other (`ReadField`) and decides (`Dispatch`), and at any moment another
thread may fill the buffer with any time (`FillBuffer`: log lines, the times of
files). The clock is not a variable: every round may see any of the instants.
`asked` is the time of the round, and `kept` becomes "no" once another time was in
the buffer; both are history.

### FileMonitor

A path is a sequence of names. `frames` is the stack of `watchFolder`, `buffer`
the events of one `read`, `phase` the loop of `start`. `Others` are the processes
that make, write, move and remove files and folders; the kernel queues an event for
each watch of the folder unless `QueueLimit` are waiting, drops a watch with its
folder and keeps it when the folder is renamed. A move gives no event that the mask
asks for. `unheard` is history: the files that came without an event, until their
folder is listed again. `read` may fail, after which `deleteFile` runs all the same.

### MarkupDoc, SavedPositions, MarkupTree, MarkupText

A document is a sequence of lexemes of one place each; offsets and lengths count
places. `elem` is `m_pElemPosTree` with position 0 as the root of the tree, `cursor`
the current position (parent, main, child and the node's offset, length and type).
`SavedPositions` has one slot of the saved positions (`table`, an array with its end
mark) and what each name was last saved as (`wanted`); its three steps are the only
ones with which `MarkupTree` changes the two, so that the array can be reasoned
about without the documents. Each operation is one action with everything it calls:
the edit of the text, `x_Adjust`, the links, `x_CheckSavedPos`. `Reference` in
`MarkupDoc` is another way to say what the elements of a text are, by matching tags,
which `IndexAgrees` compares with the index. `MarkupText` goes down to characters,
for a document of one element: escaping, references, CDATA, quotes, white space
flags, and the correction of the start tag's length.

### TextCodes, TextFile

The codecs byte by byte, and `Load` and `Save` with the table of byte order marks,
the declared encoding, the removal of nulls and the byte swap. `flags` are
`m_nDocFlags`; `meant` is the text the file stands for, kept beside the code's
state to say what loading should give. It is known for what others wrote as text
and for what the user set and saved. Once bytes without a meaning were loaded,
saving what became of them gives the file no meaning either: a mark that stands
in the middle of such bytes is at the top of the file when nulls before it are
gone, and is then taken for the mark of the file.

`Load` and `LoadAstray` are one operation. `FileOpen` never resets the flag of
UTF-16BE; an object that has it reads a file of another kind as UTF-16 too
(`Astray`): with the units of UTF-16LE swapped, or with two bytes of an 8-bit file
taken for a unit, as many units as the file has bytes. The second half of those lies
behind the buffer that was made for them, and `Beyond` is what may be there. The text
is then "astray" until the next load; saving it gives the file no meaning.

## 3. The runs

| Run | Instance | What it shows |
|---|---|---|
| `recorder_safety` | 2 cameras, 3 pids, 1 notice thread, symmetry of pids and cameras | `RecorderInv` (with the types), no second, lost or foreign recorder, none killed that should run, refinement of `RecorderContract` |
| `recorder_live` | 2 cameras, 2 pids, no notice | zombies are reaped, tasks recorded and stopped, although SIGCHLD does not queue |
| `recorder_removed` | 1 camera, 2 pids, 2 policies, 1 notice thread | the recorder of a removed task is stopped |
| `recorder_prune` (violation) | 1 camera, 2 pids, 2 policies, 1 notice thread | the task of a camera that is in the list is removed, by a policy nobody assigned |
| `recycle` | 1 camera, 2 notice threads, a policy or none in its entry, retentions 0 and 1, 3 days | a camera that does not change keeps its directory, and its recordings as long as its retention says; what is outdated or without a camera goes in the end |
| `recycle_race` (violation) | 1 notice thread, 1 day | `rm -rf` of a configured camera's directory |
| `recycle_never` (violation) | 1 notice thread, retention 0, 2 days | recordings kept for ever are unlinked |
| `lock_daemon` (violation) | 3 servers and inodes with `-b` | two servers serve |
| `lock_term` (violation) | the same in the foreground | two servers serve, one without its file |
| `sync_crash` | 1 notice thread, no mutex, 4 versions, failing downloads and saves | a list in use is in the cache but while the next one is written, both agree when quiet, and the list converges |
| `server_life`, process | 2 clients, 1 worker, 2 detached threads, an int of -2000 to 1999, a tick and a period of 1000 | workers are gone before `main` returns, a listening server ends after SIGINT, one pass at a time and again and again, waiting connections are served |
| `server_life`, calls | 3 callers of one client | callers get their own answers and all end |
| `server_life`, list | 2 notice threads, 2 entries, 3 versions, failing saves | the list is whole whenever the mutex is free |
| `parts`, pid file | 3 servers and inodes, foreground | two serve only when one has lost its file; refusals are justified |
| `parts`, schedule | 4 policies and the demo, 9 instants | a round that reads one time records exactly what is configured |
| `parts`, monitor | files `f`, `.h` and `stop`, one subfolder with two names, a queue of 2 events, 3 operations of others, 1 second | no file escapes that was neither moved nor lost to a full queue, no watch is lost from the map |
| `parts`, documents | an empty document with 3 edits, one of mixed content with 2, one of siblings with 4 and 3 names | index, current and saved positions agree with the text |
| `parts`, texts | 3 elements, 2 attributes, 9 values, 2 sets | what was set reads back, the document stays one element |
| `parts`, files | 4 first lexemes, texts of 2 of 5 code points behind them, 3 bytes of garbage, 4 calls | loaded text is text and the one that is meant, saving restores the file |

`server_life` and `parts` each check parts that share no state (the rows after the
comma); in each behaviour one of them runs and the others rest (`MCServer`,
`MCParts`). `ServerTypeOK` and `PartsTypeOK` join their type invariants.

**Why the bounds are enough.** Two cameras are needed for one to have what belongs
to the other; a third pid lets one be a zombie while both cameras have a live
recorder or a kill list holds one. Two versions behind are needed to ask for one,
receive another and find a third in the cache. Two notice threads and a pass are
three that meet at one entry of the camera table; entries share nothing, so one
camera shows what can happen to each (the theorems are for any number). Retentions
0, 1 and "no policy" with three days give files below, at and above the limit. Three
servers are needed for one that exits, one that locks the orphaned inode and one
that starts beside it. Versions and days are the only counters, cut off by
`MaxVersion` (`Publish`) and `MaxDay` (`NextDay`).

In `server_life` one worker with two clients makes a connection wait, two
detached threads make two passes possible and a third `std::thread` fail, and the
clock wraps every four ticks, so that every difference of two times occurs, the
negative ones too. Three callers are needed for one that reads the answer of a
second while a third waits. In `parts` the instants are those around the ends of
spans (08:59:59, 09:00:00, 09:00:01, midnight, 23:59:59), and the policies have
entries that are complete, of another format, empty, reversed, and with a wrong
day. While a time is read, others put the instant after it or that same one into the
buffer (`FilledWhileRead`; `kept` is lost with any other one); what they put there
between rounds does not matter, since a round begins with its own time.
A subfolder that others make, fill and remove, or rename, while it is watched needs
three operations, and a queue of two events is full within them. A hidden file is
only made first, in the root, and stays (`HiddenStays`); files are written to in the
first operation (`WrittenFirst`); the second name of the subfolder is only there
after a rename (`OnlyRenamed`); and the file that ends the loop is made in the root,
when no file has been moved (`StopAlone`). A document grows from nothing by
every operation in turn; three edits reach the first, the last and the only
child; the edits of the mixed document meet text, comments and white space
between elements; four steps with three names fill the array of two, make it
grow and empty it. The values contain every character that escaping touches,
references, an unfinished reference and the end of a CDATA section. The code
points take one to four bytes and one or two units, with the null among them, and
the garbage has a lead byte without followers, a follower without a lead, bytes
that are no text, and the three bytes of the mark of UTF-8. Behind a buffer there is
one unit (`Beyond`): what matters is that the text of a load that went astray is not
the file's. Counters with bounds: `MaxOps`, `MaxSeconds`,
`QueueLimit`, `MaxEdits`,
`MaxSets`, `MaxCalls`, `MaxChars`.

**What the passing runs assume.** `SteadyDirectoryStays` and `SteadyRetentionKept`
are about cameras whose entry, and for the second whose retention, does not change
during the pass; of the others nothing can be promised, as the two violation runs
show. The retention is that of the policy the unassigned member happens to be, and
files whose age two threads mixed are excepted. `TwoOnlyWithoutFile` is about
servers in the foreground. `RefusedOnlyByOther` is about `fcntl`: a server that
cannot open the pid file is refused with nobody else alive, and says so
(`OpenFails`). `DurableBeforeUse` and `CacheAgrees` are about one notice at a time
and except a list whose save failed, until the next save. `ListIsWhole` is about
the policy and cabinet lists, whose mutex excludes.
`KeepsRecording` and `StopsRecording` are checked with no notices, and
`RemovedIsStopped` with one camera. `OnePass` is checked with `Prompt`,
`PassesRecur` for a period that an int can hold, `ShutsDown` for a server that
listens when SIGINT comes, `WaitingIsServed` for clients that close their
connections at some time. `RecordsAsConfigured` is about rounds in which no other
thread put another time into `localtime`'s buffer; a round that reads a mixture
decides by a time that never was. `NothingEscapes` is about folders whose watch is
still there, and about files that were neither moved since their folder was listed
nor lost to a full queue: the mask has no `IN_MOVED_TO`, and those do escape.
`IndexAgrees` is about documents that are well-formed. `LoadedIsText` and
`LoadedAsMeant` except the very loads that went astray by the flag of UTF-16BE,
which give neither, but not those that come after one. `SavedAsLoaded` is about text
without nulls that the encoding can hold, in a file that is not empty. The way back
in `WholeCharacters` is about text that is UTF-8: from others, what decodes to a
surrogate is a unit that is not found again. The recorder runs leave out pid reuse
and recorders that an earlier server left behind.

**Seen with TLC, without a run of their own.** Change one constant, or take one
premise away, to get them:

* `Worker = {w1, w2}` in `recorder_prune`, with `Policy = {q1}`: one notice thread
  clears the table while the other validates against it, and a task of a camera
  that the other's list has is removed.
* `PidReuse = TRUE` in `recorder_safety`: `waitpid` frees a pid before `taskExit`
  has the mutex, the dispatcher's `fork` gets it, two tasks have one child,
  `ChildIsOwn` fails.
* `Updater = {w1, w2}` in `sync_crash`, also with `Locked = TRUE`: two answers
  arrive in the opposite order and `DurableBeforeUse` fails, since the mutex does
  not cover `saveCache`.
* `Prompt = FALSE` in `server_life`: the recycle thread has not set `m_bExpired`
  when the next period is over, and two passes run (`OnePass`).
* `ShutsDown` without its premise `thrift = "serving"`: SIGINT comes between
  `std::thread` and `listen`, the interrupt is lost, and `join` waits for ever.
* `RecordsAsConfigured` without its premise `kept = "yes"`: the hour is read at
  08:59:59, the rest of the buffer was filled with 09:00:00 meanwhile, and the task
  is started or stopped by the mixture.
* `createTask` copies the camera under one lock and inserts the task under
  another. A notice between them leaves a task of a removed camera.

### Fairness

* `RecorderTasks`: the main, signal and running notice threads are scheduled
  (weak). Strong fairness where a thread waits for `m_mutexTask`, which others
  take again and again for a short time, and for `StartTask`: a fork that is
  tried for ever succeeds once. `waitpid(-1)` takes the oldest zombie, so `Reap`
  of each pid is strongly fair. A process that got SIGKILL dies. Not fair: the
  clock, SIGINT, new notices, the exit of a healthy recorder.
* `Recycle`: the timer starts a pass again and again, and the pass goes on (weak).
  `DiffDay` of each file is strongly fair: the race for `localtime`'s buffer is not
  lost every time. Not fair: notices, not even to go on, recorders, the date.
* `ConfigSync`: every thread goes on, a request ends (`posts` has a three second
  timeout), and a thread that waits for the mutex gets it. A download that is
  repeated for ever succeeds once, a notice reaches a server that is up. Not
  fair: publishing, crashes. `Converges` itself assumes that from some moment the
  server is not restarted and that it is told again and again; `inital` alone and
  a single failed download are not retried by the code.
* `ServerLife`: every thread is scheduled, the clock goes on, downloads and
  passes end (a three second timeout, finitely many files), an interrupted serve
  closes its connections (weak). Strong fairness where the loop of `wait`, which
  goes round every 20 microseconds, meets a due pass. Not fair: clients, SIGINT,
  failures.
* `NoticeCalls`: callers that have a number are scheduled, and a call that
  reached the server is answered. Not fair: a break of the connection; callers
  need not begin.
* `InstanceLock`, `Timetable`, `FileMonitor`, `MarkupTree`, `MarkupText` and
  `TextFile` state only safety.

## 4. The proofs

| Theorem | Statement | Assumes |
|---|---|---|
| `RecorderTasks_proofs!InvariantHolds` | `Spec => []RecorderInv` | `~PidReuse` |
| `OneRecorder`, `NoneLost`, `ChildrenOwn` | the safety properties in it | `~PidReuse` |
| `Implements` | `Spec => ImplementsContract` | `~PidReuse` |
| `KilledForReason` | `Spec => OnlyMeantKilled` | `~PidReuse` |
| `Recycle_proofs!RecycleInvariant` | `Spec => []RecycleInv` | the constants' assumption |
| `DirectoriesStay`, `RetentionKept` | `Spec => SteadyDirectoryStays`, `SteadyRetentionKept` | the same |
| `InstanceLock_proofs!LockInvariant` | `LockSpec => []LockInv` | the constants' assumption |
| `TwoOnlyWithoutFileAlways` | `LockSpec => []TwoOnlyWithoutFile` | `~Daemon` |
| `RefusedByOther` | `LockSpec => RefusedOnlyByOther` | the constants' assumption |
| `ConfigSync_proofs!SyncInvariant`, `WholeLists` | `SyncSafeSpec => []SyncInv`, `SyncSpec => []ListIsWhole` | `Locked` |
| `ServerLife_proofs!TypeCorrect` | `Spec => []TypeOK` | the constants' assumption |
| `DownFirst` | `Spec => []ServiceDownFirst` | the same |
| `OnePassAtATime` | `Spec => []OnePass` | `Prompt`, `PeriodAssumption` |
| `NoticeCalls_proofs!CallsInvariant`, `OwnAnswers` | `CallSpec => []CallInv`, `[]OwnAnswer` | nothing |
| `CallsExclude`, `ServerTypes` | `CallSpec => []CallTypeOK`, `MCSpec => []ServerTypeOK` | `Nobody` is no caller; the constants' assumption |
| `Parts_proofs!NothingEscapesAlways` | `MonitorSpec => [](MonitorTypeOK /\ NothingEscapes)` | finitely many names |
| `RecordsAlways` | `TimetableSpec => RecordsAsConfigured` | `WeekAsMeant`; instants are times of a day |
| `Markup_proofs!UTF8RoundTrip`, `UTF16RoundTrip` | decoding what was encoded gives the code point and the place behind it, anywhere in a text | every code point for UTF-8, no surrogates for UTF-16 |
| `UTF8GoesOn` | the decoder goes on by one byte at least and not beyond the end | any bytes |
| `SavedAlways` | `SavedSpec => []SavedAgree` | nothing |
| `LoadedTextAlways` | `FileSpec => [](FileTypeOK /\ LoadedIsText)` | `TextAssumption`: what others write is characters and bytes |
| `LoadedAsMeantAlways`, `SavedAsLoadedAlways` | `FileSpec => []LoadedAsMeant`, `FileSpec => SavedAsLoaded` | the same |
| `WholeCharactersAlways` | `FileSpec => []WholeCharacters` | the same |

Each holds for every value of the constants that the named assumptions of the
module allow: any number of cameras, pids, threads, servers, entries,
versions, clients, workers, callers, names of files and of saved positions,
operations of other processes and instants, files and texts of any length, and any
width of int.

**RecorderTasks.** None of the three safety properties is inductive. That two
live processes of one camera are the same needs that a start happens only when
the task has no child; this says something about processes only because every
process that is not free is the child of its camera's task, or is being stored,
or its task is gone (`ProcSound`), and a task that is gone does not come back
(`StartupIdle`: tasks are created while nothing runs). That `taskExit` clears
the right task needs that children are distinct (`ChildSound`), that a reaped
pid is still free when the mutex is taken (`ReapSound`), which is where
`~PidReuse` enters, and that the pid between `fork` and the store belongs to
nobody else (`ForkSound`). `ScanSound` and `Exclusion` keep the notice threads
out of the dispatcher's loop. The proof has one step per action. The refinement
takes `Next` action by action to one step of the contract or a stutter, with
`RecorderInv` to know that a start finds no recorder. `OnlyMeantKilled` adds
`DoomedSound`: the children on a notice thread's kill list are no task's any more and
not on their way into one, so that the kill, however late, meets only a recorder whose
task is gone. It holds for any number of notice threads, whatever they read in the
camera table.

**Recycle.** Nothing keeps notices from a pass, so what was copied agrees with the
table only for cameras whose entry has not changed since the pass began (`held`).
`HeldSound` says that such a camera is in the table with the retention it had,
`CopySound` that the pass then copied its entry and found that retention, and
`PassSound` that orphans were not copied, that files listed are of cameras with a
limit, and that an age that nobody mixed is at most the file's. A notice that touches
an entry takes the camera out of `held` in the same step, which is why any number of
them does no harm. The two action properties follow for the two actions that delete.

**InstanceLock.** `LockSound`: a lock belongs to a process past `IsHaveInstance` that
has the inode open, and in the foreground such a process keeps the lock of its inode.
Two that serve then have two inodes, and the name leads to one of them at most. Who is
refused by `fcntl` found the lock of a process that is alive, and `MainReturns` and
`Dies` give all locks back.

**ConfigSync.** Filling is holding (`HolderSound`), and the table is of the
holder's version as far as it got (`FillSound`).

`RecycleInv`, `LockInv` and `SyncInv`, with the type invariants of their modules in
them, are proved rather than run.

**ServerLife.** Types need the wrap of the clock: a difference cut to an int stays
one, for every width. `DownInv` says of each value of `main` how far the thrift
thread is: not begun before `inital` starts it, ended once `join` returned; and
that only a serving one has connections that wait, only one that serves or drains
open ones. `PassInv` adds to `OnePass` that a
thread which has not set `m_bExpired` yet is one whose creator has not reset the
timer, or reset it in this very tick (`Prompt`), and that a running pass has the
flag set; a due pass then finds none, since the difference is 0 and the period
positive.

**NoticeCalls.** Numbers are given once (`Numbered`), a call on its way carries
its caller's command (`CallsSound`), and every reply on its way or waiting is of a
handled call of the caller with that number (`Sound`, `RepliesSound`). Only then
is the answer of a caller its own, whoever read it. The stop flag, the mutexes
and the conditions play no part in it; they matter for `CallsEnd`.

**TextCodes.** The digits of a code point in base 64 are the payloads of the
bytes; lemmas name them, say what a lead byte and a follower give, and how the
decoder puts two, three and four of them together at any place of a text.

**Who holds a mutex of a client.** `CallTypeOK` is inductive: a step of one caller
takes a mutex that is free or gives its own back (`Holds`), and `Nobody` is no
caller. It says that a mutex is held by exactly the caller in the part it guards.

**File monitor.** `NothingEscapes` is about a monitor at rest; in between files are
on their way. `MonitorInv` says for each watched folder what is listed, in the batch
that was read, in the kernel's queue, or still to be met by the `watchFolder` that is
on the stack, so that each file the kernel told of is in one of them (a step that makes
one without an event puts it into `unheard`), and that watches, descriptors and
paths belong together. `watchFolder` goes through folders in an order the model gets
from `SetToSeq`; the proof needs only that this is a sequence of all of them, which
is why names are finitely many.

**Timetable.** `RecordsAlways` compares the code's way to a decision (cut the text,
convert, compare seconds of the day) with what a reader takes an entry to mean. The
hypothesis `WeekAsMeant` says that an entry of the policies that the code takes for
a span is one that a reader takes for one, with minutes and seconds below 60; the
policies of `parts` satisfy it, and it leaves every entry in that the code drops.
Without it the statement is false: 8:75:00 is carried into 9:15:00, and what follows
a number is ignored. Beside it the proof follows a round (`TimetableInv`): as long
as no other time was put into the buffer, the buffer has the time that was asked for
and every field read so far is that time's; `ReadWhole` puts the four together.

**Saved positions.** The invariant is that the mark is at the end of the array and
nowhere else, that the used entries are in front, that no name is there twice, and
that the entries are just what is wanted. The hard step is taking out
(`CompactedSound`): that the k-th entry that stays moves to place k needs that
counting takes every value in between (`CountReached`), an induction made with the
least element of a set of numbers (`Least`), since the library's induction cannot be
used. `MarkupTree` itself is out of the prover's reach; `SavedSpec` allows each of
the three steps with any position and any set of elements, which covers what it
does.

**Files.** `LoadedIsText` must hold for bytes nobody chose, so the proof is about
what the conversions can make, not about what they were given. `FileInv` adds only
the types. `CharAt`, `IsUTF8`, `IConv` and the loops over UTF-16 are recursive
functions that go on from a place to a later one; that such a function has a value
at every place is shown from the end backward (`Backward`), with the greatest place
that would have none. `IConv` then makes its text of pieces (`IConvMade`), each of
them `?` or one whole character, so the text is `Encoded` of some characters
(`IConvText`), and what is `Encoded` in UTF-8 is UTF-8 (`EncodedIsUTF8`, by the
round trip at each place). A text in 16 bits is made of codes first: once no unit is
null, every code is a character or the mark (`UTF16Code`). The nulls go in place,
one run of characters after the other; the scan keeps the buffer `Compact`: up to
the last null met nothing is null that is kept, and behind it nothing has moved
(`ScannedSound`). Only text whose declaration names an encoding that nobody knows is
not converted; of that nothing but the nulls is taken out, which leaves the
declaration what it was (`NullsRemovedSound`).

**What a file stands for.** `LoadedAsMeant` is not inductive: what a load gives depends
on what earlier calls left in the file and in the flags. `FileTruth` says in addition
that at most one mark is remembered, or the last load went astray or was of bytes
without a meaning (`FlagSound`, `FlagSets`), that a file whose text is known is that
text in one of five kinds, with its mark (`FileSound`), and that the text in memory is
what the user set, without nulls, or the file's text without its nulls (`TextSound`).
Load keeps it because FileOpen finds the kind (`OpensAs`): no mark is the beginning of
another one, and a text without a mark begins with ASCII, so nothing in it is taken for
one. The text itself comes from the laws of the conversions: the scan in place removes
just the nulls (`NullsRemovedIs`: each character that is kept stands in the buffer where
the text without nulls has it); removing nulls commutes with every encoding and with
the byte swap (`EncodedWithoutNulls`, `SwappedWithoutNulls`), since no character other
than the null has a null in it; and decoding or iconv undoes encoding for a whole text
(`CodesOfEncoded`, `IConvEncoded`), as the loop comes to the place of each character
(`PlacesOf`, `Retraced`). Save keeps it because FileWriteText writes one of the kinds
(`WritesAs`). `SavedAsLoaded` follows from the same invariant: text without nulls is all
of `meant`, and the flags of a fresh load name the kind of the file that is there
(`WrittenBack`). What holds of all texts is shown by induction over
their length, stated once for sets of texts (`TextInduction`).

**Buffers.** `WholeCharacters` holds for any text in memory. UTF16To8 stops at the first
character that does not fit (`UTF16To8Is`), and `Fits` is exact because no character has
more than four bytes (`BeginGrows`). That nothing longer which fits is UTF-8
(`WholeBegin`) needs that UTF-8 is a prefix code: what is UTF-8 is `Encoded` of some
characters (`UTF8IsEncoded`), and if its bytes begin those of the whole text its
characters begin the whole text's (`PrefixTold`), so it would hold the next character,
which does not fit.

**Only model-checked.** All liveness: `ZombiesReaped`, `KeepsRecording`,
`StopsRecording`, `RemovedIsStopped`, `ExpiredRecycled`, `OrphansRecycled`,
`Converges`, `ShutsDown`, `WaitingIsServed`, `PassesRecur`, `CallsEnd` (liveness
under fairness and `ENABLED` are out of the prover's reach). `DurableBeforeUse` and
`CacheAgrees`, which need that notices come one at a time. `PartsTypeOK`,
`IndexAgrees`, `ReadsBack` and `OneElement`, since the parsers of `MarkupDoc` and
`MarkupText` are `RECURSIVE` operators, with which the prover cannot work.

## 5. What was noticed in the code

The five violation runs are the code's disagreements with its own comments and
messages: `recorder_prune`, `recycle_race`, `recycle_never`, `lock_daemon`,
`lock_term`. Beside them, met while modelling; the models do what the code does, or
exclude the case by a named bound or guard:

* **Server.** An answer that passes `verifyJson` and makes `processX` throw is in
  the cache already, and the server dies at every start. SIGINT before `listen` is
  lost and `stop` never returns. `listen` on a taken port ends the process from a
  thread. `demo()`'s minute + 1 and + 3 can exceed 59, which the sum of seconds
  makes good in every hour but the last of the day. A span that ends at 23:59:59
  does not record that second. An entry without seconds (`9:00-18:00:00`) is
  dropped; one with all its parts, of which one is no number, ends the server.
* **File monitor.** When a subfolder is deleted the watch of the parent is removed
  instead of the subfolder's, and later events of the parent get paths that begin
  with nothing. Files are listed twice, are removed only after the next batch of
  events, and a removal that fails is tried again for ever. The constructor
  ignores its argument and expires after 60. A file that is moved into a watched
  folder is never listed, and an overflow of the event queue is passed over.
* **CMarkup, positions.** `FindChildElem` under a parent without elements finds
  the root of the document. `SetElemContent` with a content without elements can
  shift the root's start, and `AddSubDoc` with a document without elements leaves
  the index as it was. An element added as a node `WITHNOLINES` into a pair of
  tags without content, and `SetData` with an empty text on a text node, leave
  nodes of wrong length. Children of elements that are not ended are linked to the
  wrong neighbours, so `IndexAgrees` is about well-formed documents.
* **CMarkup, text.** `SetAttrib` on an attribute without a value overwrites its
  name, `a=>` takes `>` as a value, and a comment is not searched for `-->`.
* **CMarkup, files.** Saving as UTF-16 cuts code points above 0xFFFF to 16 bits.
  `FileOpen` does not reset the big-endian flag: an object that once loaded such a
  file reads later ones as one, those in 8 bits to beyond its buffer (`LoadAstray`).
  A failed `Load` empties the text and leaves the index. An empty file leaves the
  flags of the last one.

## 6. Not modelled

* **Recorders beyond the server.** A recorder that outlives its server, and the
  second one a restart makes for the same camera, are plain from `main.cpp:434`;
  no document says what should happen. `ffmpeg` itself is a process that lives
  and ends.
* **Log, settings.** `writeLog` and `printLog` are output, but for the time they
  take; `loadConfig` sets ports, paths and periods before anything runs.
* **JMutex** as a state machine: its flag is set in the constructor or never. The
  modules use what follows, exclusion or none.
* **HTTP client.** `posts` is one step with an answer or a failure; the other
  functions have no caller.
* **Paths.** `createDirectory` makes each part of a path that is not readable, in
  turn. When `mkdir` says that a part is there all the same (`EEXIST`), it goes on
  with a path whose slash stays cut off, so that nothing deeper is made; any other
  error ends it. It works on a copy of at most 256 characters. In `Recycle` it makes
  the camera's directory or does not; `processCamera` does not look at its result.
* **Folders moved far.** A folder that is moved out of the tree of a file monitor, or
  into it from elsewhere, is left out; within the tree it keeps its watch and its files
  (`MoveDir`).
* **Data of the lists.** Payloads that make jsoncpp throw, cameras' protocols, and
  the weeks of a task in `RecorderTasks`, where the tasks inside a span are an input.
* **CMarkup.** Reading and writing a file piece by piece, which nothing in this
  version can start (`m_pFilePos` is only ever null); DOCTYPE and HTML meta
  declarations; result messages; conversions between 8-bit encodings, which are
  iconv's; the MFC and Windows branches.
* **Generated thrift code.** The plain client, which is the same exchange by one
  thread; Multiface, Null and the skeletons.
* **The copy under `thrift/src`** is an earlier state of the same program
  (`markup.cpp` and `jmutex.cpp` are identical); the build uses `src/`.
* **flask and nginx** are configuration and a stub of the web side. SIGHUP and
  SIGUSR1 change no state. Replacements of the policy list after start-up reach
  no task.
