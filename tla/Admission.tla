------------------------------- MODULE Admission -------------------------------
(***************************************************************************)
(* What maxConcurrent promises: an invocation is admitted, while there is  *)
(* room, before its tool can run, and holds its place until it is over,    *)
(* the time it may wait for an approval included.  It runs at most once,   *)
(* and is never admitted again.                                            *)
(***************************************************************************)
EXTENDS Naturals, FiniteSets

CONSTANTS Invs, Limit

VARIABLES
  placed,   \* invocations that hold a place
  running,  \* those of them whose tool runs
  over      \* those that have left

vars == <<placed, running, over>>

Init == placed = {} /\ running = {} /\ over = {}

\* There is room for i, which was not here before.
MayEnter(i) == i \notin placed \union over /\ Cardinality(placed) < Limit

\* The tool may start at once.
Admit(i) ==
  /\ MayEnter(i)
  /\ placed' = placed \union {i}
  /\ running' \in {running, running \union {i}}
  /\ UNCHANGED over

Start(i) ==
  /\ i \in placed \ running
  /\ running' = running \union {i}
  /\ UNCHANGED <<placed, over>>

\* An invocation may be over before it runs, and even before it is admitted.
Leave(i) ==
  /\ i \in placed \/ MayEnter(i)
  /\ placed' = placed \ {i}
  /\ running' = running \ {i}
  /\ over' = over \union {i}

Next == \E i \in Invs : Admit(i) \/ Start(i) \/ Leave(i)

Spec == Init /\ [][Next]_vars
=============================================================================
