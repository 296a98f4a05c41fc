----------------------------- MODULE PathReplanner -----------------------------
(***************************************************************************)
(* The plan check of PathReplanner: validateNewPlan and the depth-first    *)
(* search hasCycle, which keeps its visited set and its recursion stack    *)
(* from one root to the next.                                              *)
(*                                                                         *)
(* A call of validateNewPlan is synchronous.  Its recursion is unfolded:   *)
(* an action is one turn of one of its loops or one return, and path holds *)
(* the calls of hasCycle that are open.  A call keeps nothing for the next *)
(* one, so one call is enough.                                             *)
(*                                                                         *)
(* Definitions marked (fault) are plausible slips, as in TaskOrchestrator. *)
(***************************************************************************)
EXTENDS Naturals, Sequences

CONSTANTS
  NumSteps,       \* the steps of a plan are 1 .. NumSteps, in plan order
  PlanTools,      \* the tools its steps may name
  AvailableTools  \* the tools the check is told of

ASSUME NumStepsType == NumSteps \in Nat

VARIABLES
  plan,            \* the plan that is checked: dependsOn and the tool of each step
  tried,           \* how many steps of the plan have been roots of a search
  visited,         \* steps that hasCycle has entered
  recursionStack,  \* steps it has entered and not left
  path,            \* the steps of the open calls of hasCycle, the innermost first
  left,            \* the dependencies each of these calls has still to look at
  circular,        \* roots for which an error was added
  verdict          \* none before the call, open until it returns

checkVars == <<plan, tried, visited, recursionStack, path, left, circular, verdict>>

Steps   == 1 .. NumSteps
Missing == 0   \* an id that no step of the plan has
Unset   == ""  \* the tool of a step without one
NoPlan  == [deps |-> << >>, tool |-> << >>]

CheckInit ==
  /\ plan = NoPlan
  /\ tried = 0
  /\ visited = {} /\ recursionStack = {} /\ circular = {}
  /\ path = << >>
  /\ left = [s \in Steps |-> {}]
  /\ verdict = "none"

ValidateNewPlan ==
  /\ verdict = "none"
  /\ \E deps \in [Steps -> SUBSET (Steps \union {Missing})] :
       \E tool \in [Steps -> PlanTools] : plan' = [deps |-> deps, tool |-> tool]
  /\ verdict' = "open"
  /\ UNCHANGED <<tried, visited, recursionStack, path, left, circular>>

-----------------------------------------------------------------------------
(* hasCycle(s) for the root r, called when the open calls are p and have   *)
(* the dependencies l to look at                                           *)

\* TRUE is returned through all open calls, which leave their steps on the stack.
Closes(s, r, p, l) ==
  /\ s \in recursionStack
  /\ circular' = circular \union {r}
  /\ path' = << >>
  /\ left' = l
  /\ UNCHANGED <<visited, recursionStack>>

IsKnown(s, r, p, l) ==
  /\ s \notin recursionStack
  /\ s \in visited
  /\ path' = p
  /\ left' = l
  /\ UNCHANGED <<visited, recursionStack, circular>>

\* A dependency that is not a step of the plan is passed over.
Enters(s, r, p, l) ==
  /\ s \notin recursionStack
  /\ s \notin visited
  /\ visited' = visited \union {s}
  /\ recursionStack' = recursionStack \union {s}
  /\ path' = <<s>> \o p
  /\ left' = [l EXCEPT ![s] = plan.deps[s] \ {Missing}]
  /\ UNCHANGED circular

\* (fault) a visited step is known, also when it is still on the stack
VisitedFirst(s, r, p, l) ==
  IF s \in visited
    THEN path' = p /\ left' = l /\ UNCHANGED <<visited, recursionStack, circular>>
    ELSE Enters(s, r, p, l)

HasCycle(s, r, p, l) ==
  Closes(s, r, p, l) \/ IsKnown(s, r, p, l) \/ Enters(s, r, p, l)

NextRoot ==
  /\ verdict = "open"
  /\ path = << >>
  /\ tried < NumSteps
  /\ tried' = tried + 1
  /\ HasCycle(tried + 1, tried + 1, path, left)
  /\ UNCHANGED <<plan, verdict>>

\* The loop over dependsOn, in any order
NextDependency ==
  /\ verdict = "open"
  /\ path # << >>
  /\ \E d \in left[Head(path)] :
       HasCycle(d, tried, path, [left EXCEPT ![Head(path)] = @ \ {d}])
  /\ UNCHANGED <<plan, tried, verdict>>

\* No dependency of the innermost call is left: it returns FALSE.
Leaves ==
  /\ verdict = "open"
  /\ path # << >>
  /\ left[Head(path)] = {}
  /\ recursionStack' = recursionStack \ {Head(path)}
  /\ path' = Tail(path)
  /\ UNCHANGED <<plan, tried, visited, left, circular, verdict>>

ToolErrors       == {s \in Steps : plan.tool[s] \notin AvailableTools \union {Unset}}
DependencyErrors == {s \in Steps : Missing \in plan.deps[s]}

Verdict ==
  /\ verdict = "open"
  /\ path = << >>
  /\ tried = NumSteps
  /\ verdict' = IF circular = {} /\ ToolErrors = {} /\ DependencyErrors = {}
                  THEN "valid" ELSE "invalid"
  /\ UNCHANGED <<plan, tried, visited, recursionStack, path, left, circular>>

CheckNext == ValidateNewPlan \/ NextRoot \/ NextDependency \/ Leaves \/ Verdict

CheckSpec == CheckInit /\ [][CheckNext]_checkVars

-----------------------------------------------------------------------------
(* The property                                                            *)

\* Whatever steps are still to be run, one of them waits for none of the others.
Orderable(deps) ==
  \A todo \in (SUBSET Steps) \ {{}} : \E s \in todo : deps[s] \intersect todo = {}

\* A plan passes the check just when it can be run: no steps wait for each other
\* in a circle, and the steps and the tools it names exist.
ValidIsRunnable ==
  verdict \in {"valid", "invalid"} =>
    (verdict = "valid" <=>
       /\ Orderable(plan.deps)
       /\ \A s \in Steps : /\ plan.deps[s] \subseteq Steps
                           /\ plan.tool[s] \in AvailableTools \union {Unset})
=============================================================================
