-------------------------- MODULE MCRecorderTasks --------------------------
(* Symmetry of the instances of RecorderTasks that check safety only. *)
EXTENDS RecorderTasks, TLC

\* The kernel treats pids alike; cameras are alike when all or none of them
\* get a task at start-up.
PidSymmetry == Permutations(Pid)
PidCameraSymmetry == Permutations(Pid) \cup Permutations(Camera)

\* Safety runs need no fairness.
SafeSpec == Init /\ [][Next]_vars
=============================================================================
