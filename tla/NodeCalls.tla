------------------------------- MODULE NodeCalls -------------------------------
(***************************************************************************)
(* What NodeExecutor promises its callers, whatever sockets, pairings,     *)
(* timers and sweeps do: a call is about one node and makes a bounded      *)
(* number of attempts, each of which is settled once; nobody waits for a   *)
(* node that is known to be down, and when a node goes down all who wait   *)
(* for it are told at once.  A call that has ended stays so.               *)
(***************************************************************************)
EXTENDS Naturals

CONSTANTS Calls, Ids, Attempts

VARIABLES
  stage,   \* how far each call is
  target,  \* the node it is about, or 0
  left,    \* the attempts it may still make, the one under way included
  down     \* nodes known to be down

vars == <<stage, target, left, down>>

Init ==
  /\ stage = [o \in Calls |-> "idle"]
  /\ target = [o \in Calls |-> 0]
  /\ left = [o \in Calls |-> Attempts]
  /\ down = {}

\* An attempt of each call in C fails.
Fail(C, retryable) ==
  LET again == {o \in C : retryable /\ left[o] > 1} IN
  /\ stage' = [o \in Calls |-> IF o \in again THEN "resting"
                               ELSE IF o \in C THEN "failed" ELSE stage[o]]
  /\ left' = [o \in Calls |-> IF o \in again THEN left[o] - 1 ELSE left[o]]

\* A node that is down is not tried, nor tried again.
Try(o, n) ==
  /\ target' = [target EXCEPT ![o] = n]
  /\ \/ n \notin down /\ stage' = [stage EXCEPT ![o] = "waiting"] /\ UNCHANGED left
     \/ \E retryable \in {FALSE, n \notin down} : Fail({o}, retryable)
  /\ UNCHANGED down

Begin(o) == stage[o] = "idle" /\ \E n \in Ids : Try(o, n)

TryAgain(o) == stage[o] = "resting" /\ Try(o, target[o])

Answer(o) ==
  /\ stage[o] = "waiting"
  /\ stage' = [stage EXCEPT ![o] = "ok"]
  /\ UNCHANGED <<target, left, down>>

Waiting == {o \in Calls : stage[o] = "waiting"}

GiveUp(C) ==
  /\ \E retryable \in BOOLEAN : Fail(C, retryable)
  /\ UNCHANGED <<target, down>>

GoDown(n) ==
  /\ down' = down \union {n}
  /\ Fail({o \in Waiting : target[o] = n}, FALSE)
  /\ UNCHANGED target

ComeBack(N) == down' = down \ N /\ UNCHANGED <<stage, target, left>>

Next ==
  \/ \E o \in Calls : Begin(o) \/ TryAgain(o) \/ Answer(o)
  \/ \E C \in SUBSET Waiting : GiveUp(C)
  \/ \E n \in Ids : GoDown(n)
  \/ \E N \in SUBSET down : ComeBack(N)

Spec == Init /\ [][Next]_vars
=============================================================================
