----------------------------- MODULE MCRecycle -----------------------------
(* The instances of Recycle: safety runs need no fairness. *)
EXTENDS Recycle

SafeSpec == Init /\ [][Next]_vars
=============================================================================
