-------------------------- MODULE RecorderContract --------------------------
(***************************************************************************)
(* What the recording side of the server promises, with no processes,      *)
(* threads or locks: the cameras that have a recording task, and the       *)
(* cameras being recorded. A recording is started only for a camera that   *)
(* has a task and is not being recorded; a task is created only for a      *)
(* camera that is not being recorded, and only before the server is up;    *)
(* once up, tasks are only removed.                                        *)
(***************************************************************************)
CONSTANT Camera

VARIABLES
  up,         \* the start-up code has created its tasks
  scheduled,  \* cameras that have a recording task
  recorded    \* cameras that some process records

cvars == <<up, scheduled, recorded>>

TypeOK ==
  /\ up \in BOOLEAN
  /\ scheduled \subseteq Camera
  /\ recorded \subseteq Camera

Init == up = FALSE /\ scheduled = {} /\ recorded = {}

Create(c) ==
  /\ ~up /\ c \notin recorded
  /\ scheduled' = scheduled \cup {c}
  /\ UNCHANGED <<up, recorded>>

GoUp == ~up /\ up' = TRUE /\ UNCHANGED <<scheduled, recorded>>

Remove(c) ==
  /\ c \in scheduled
  /\ scheduled' = scheduled \ {c}
  /\ UNCHANGED <<up, recorded>>

Start(c) ==
  /\ up /\ c \in scheduled /\ c \notin recorded
  /\ recorded' = recorded \cup {c}
  /\ UNCHANGED <<up, scheduled>>

Stop(c) ==
  /\ c \in recorded
  /\ recorded' = recorded \ {c}
  /\ UNCHANGED <<up, scheduled>>

Next ==
  \/ GoUp
  \/ \E c \in Camera : Create(c) \/ Remove(c) \/ Start(c) \/ Stop(c)

Spec == Init /\ [][Next]_cvars
=============================================================================
