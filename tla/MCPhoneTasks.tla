---------------------------- MODULE MCPhoneTasks ----------------------------
(* Small instances of PhoneTasks for TLC. *)
EXTENDS PhoneTasks, TLC

CONSTANTS w1, w2, c1, c2, k1, k2, t1, t2

NoFaults    == {}
NoCrash     == {"lost_reply", "store_error"}
LostReplies == {"lost_reply"}
AllFaults   == FaultKinds

\* Workers, call ids and keys are interchangeable: no action or safety property tells two of
\* them apart.  The liveness run uses no symmetry.
InterchangeableWorkers == Permutations({w1, w2})
Interchangeable ==
    InterchangeableWorkers \cup Permutations({c1, c2}) \cup Permutations({k1, k2})
=============================================================================
