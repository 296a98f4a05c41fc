------------------------- MODULE MCTaskOrchestrator -------------------------
(* Instances of TaskOrchestrator: three tasks on channel c1 and, unless the *)
(* configuration makes t4 = t3, a fourth on channel c2.                     *)
EXTENDS TaskOrchestrator, TLC

CONSTANTS t1, t2, t3, t4, c1, c2

MCTasks == {t1, t2, t3, t4}
MCChannels == {c1, c2}
MCChannelOf == [t \in MCTasks |-> IF t \in {t1, t2, t3} THEN c1 ELSE c2]

\* The tasks of c1 are interchangeable.  Used without liveness properties only.
MCSymmetry == Permutations({t1, t2, t3})
=============================================================================
