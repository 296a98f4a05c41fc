------------------------------ MODULE ToolRuntime ------------------------------
(***************************************************************************)
(* ToolRuntime with its ToolRegistry and ToolExecutor: admission under the *)
(* concurrency limit, the approval check, execution raced against a        *)
(* timeout, approval and denial of parked invocations, cleanup, shutdown.  *)
(*                                                                         *)
(* An action is one synchronous run between awaits.  Calls that change     *)
(* nothing (unknown tool, limit reached, invalid input or state) are       *)
(* stuttering steps.  (fault) definitions are not part of the              *)
(* specification: they show that a property would notice that slip.        *)
(***************************************************************************)
EXTENDS Integers, FiniteSets

CONSTANTS
  Invs,           \* invocation ids, each used by at most one invoke
  Tools,          \* tool ids
  ToolOf,         \* the tool each invocation asks for
  Gated,          \* tools checked against the approvals file: system.run, if it
                  \* has requiresApproval and enableApprovals is set
  MaxConcurrent   \* config.maxConcurrent

ASSUME InvsFinite        == IsFiniteSet(Invs)
ASSUME ToolOfType        == ToolOf \in [Invs -> Tools]
ASSUME GatedType         == Gated \subseteq Tools
ASSUME MaxConcurrentType == MaxConcurrent \in Nat

VARIABLES
  registered,    \* ToolRegistry.tools
  record,        \* ToolRuntime.invocations: status, "none" if not in the map
  call,          \* where the invocation's execute or reExecute call is
  bodies,        \* invocations whose tool.run() promise has not settled
  policyOK,      \* can createContext read the approvals file last loaded? (a
                 \* file without allowlist or denylist makes it throw)
  runningCount

vars == <<registered, record, call, bodies, policyOK, runningCount>>

Status == {"running", "awaiting_approval", "completed", "failed"}

(***************************************************************************)
(* none         not invoked yet                                            *)
(* checking     awaiting checkApprovalIfNeeded; its verdict depends on the  *)
(*              command and the approvals file, so it is left open         *)
(* executing    awaiting the race of tool.run and the timeout              *)
(* settled      executed without having been parked                        *)
(* parked       returned awaitingApproval                                  *)
(* reexecuting  approved, awaiting the race                                *)
(* resolved     denied, or approved and executed                           *)
(* abandoned    the approval check or createContext threw out of execute() *)
(* broken       approved, but createContext threw out of approveRequest()  *)
(***************************************************************************)
Call == {"none", "checking", "executing", "settled", "parked", "reexecuting",
         "resolved", "abandoned", "broken"}

TypeOK ==
  /\ registered \in SUBSET Tools
  /\ record \in [Invs -> Status \union {"none"}]
  /\ call \in [Invs -> Call]
  /\ bodies \in SUBSET Invs
  /\ policyOK \in BOOLEAN
  /\ runningCount \in Nat

Init ==
  /\ registered = {}
  /\ record = [i \in Invs |-> "none"]
  /\ call = [i \in Invs |-> "none"]
  /\ bodies = {}
  /\ policyOK = TRUE
  /\ runningCount = 0

In(phases) == {i \in Invs : call[i] \in phases}

-----------------------------------------------------------------------------
Register(tool) ==
  /\ registered' = registered \union {tool}
  /\ UNCHANGED <<record, call, bodies, policyOK, runningCount>>

Unregister(tool) ==
  /\ registered' = registered \ {tool}
  /\ UNCHANGED <<record, call, bodies, policyOK, runningCount>>

\* (fault) the limit is compared with > instead of >=
BelowLimitOrAt == runningCount <= MaxConcurrent

BelowLimit == runningCount < MaxConcurrent

\* createContext and the start of tool.run, or the exception of the former
Begin(i, running, threw) ==
  \/ /\ policyOK
     /\ call' = [call EXCEPT ![i] = running]
     /\ bodies' = bodies \union {i}
  \/ /\ ~policyOK
     /\ call' = [call EXCEPT ![i] = threw]
     /\ UNCHANGED bodies

\* invoke and the synchronous part of execute: an ungated tool starts at once
Invoke(i) ==
  /\ call[i] = "none"
  /\ ToolOf[i] \in registered
  /\ BelowLimit
  /\ record' = [record EXCEPT ![i] = "running"]
  /\ runningCount' = runningCount + 1
  /\ \/ /\ ToolOf[i] \in Gated
        /\ call' = [call EXCEPT ![i] = "checking"]
        /\ UNCHANGED bodies
     \/ /\ ToolOf[i] \notin Gated
        /\ Begin(i, "executing", "abandoned")
  /\ UNCHANGED <<registered, policyOK>>

\* The check has loaded the file again; a command passes only a complete one.
CheckPasses(i) ==
  /\ call[i] = "checking"
  /\ policyOK' = TRUE
  /\ call' = [call EXCEPT ![i] = "executing"]
  /\ bodies' = bodies \union {i}
  /\ UNCHANGED <<registered, record, runningCount>>

\* (fault) the parked invocation gives its slot back although approval will
\* not ask for one
ParkAndRelease(i) ==
  /\ call[i] = "checking"
  /\ call' = [call EXCEPT ![i] = "parked"]
  /\ record' = [record EXCEPT ![i] = "awaiting_approval"]
  /\ policyOK' \in BOOLEAN
  /\ runningCount' = runningCount - 1
  /\ UNCHANGED <<registered, bodies>>

\* The slot taken by execute() is not given back.
CheckParks(i) ==
  /\ call[i] = "checking"
  /\ call' = [call EXCEPT ![i] = "parked"]
  /\ record' = [record EXCEPT ![i] = "awaiting_approval"]
  /\ policyOK' \in BOOLEAN
  /\ UNCHANGED <<registered, bodies, runningCount>>

\* checkApproval rejects (an approvals file without the expected fields):
\* execute() has no handler, the invocation stays "running" in the map.
CheckThrows(i) ==
  /\ call[i] = "checking"
  /\ call' = [call EXCEPT ![i] = "abandoned"]
  /\ policyOK' \in BOOLEAN
  /\ UNCHANGED <<registered, record, bodies, runningCount>>

\* finalizeExecution; Map.set also brings back an entry shutdown removed
Finalize(i, status) ==
  /\ call[i] \in {"executing", "reexecuting"}
  /\ call' = [call EXCEPT ![i] = IF @ = "executing" THEN "settled"
                                                    ELSE "resolved"]
  /\ record' = [record EXCEPT ![i] = status]
  /\ runningCount' = runningCount - 1
  /\ UNCHANGED <<registered, policyOK>>

ToolReturns(i) ==
  /\ \E status \in {"completed", "failed"} : Finalize(i, status)
  /\ bodies' = bodies \ {i}

\* (fault) the re-execution after an approval runs without a deadline
TimeoutFirstRunOnly(i) ==
  /\ call[i] = "executing"
  /\ Finalize(i, "failed")
  /\ UNCHANGED bodies

\* The timeout wins the race.  tool.run is not cancelled.
ToolTimesOut(i) ==
  /\ Finalize(i, "failed")
  /\ UNCHANGED bodies

\* (fault) the late result gives the slot back a second time
OrphanReleases(i) ==
  /\ i \in bodies
  /\ call[i] \notin {"executing", "reexecuting"}
  /\ bodies' = bodies \ {i}
  /\ runningCount' = runningCount - 1
  /\ UNCHANGED <<registered, record, call, policyOK>>

\* A tool.run whose race is over settles; nobody is listening.
OrphanReturns(i) ==
  /\ i \in bodies
  /\ call[i] \notin {"executing", "reexecuting"}
  /\ bodies' = bodies \ {i}
  /\ UNCHANGED <<registered, record, call, policyOK, runningCount>>

\* (fault) approveRequest does not insist on "awaiting_approval"
AwaitingOrDenied(i) == record[i] \in {"awaiting_approval", "failed"}

Awaiting(i) == record[i] = "awaiting_approval"

\* The limit is not consulted again.
Approve(i) ==
  /\ Awaiting(i)
  /\ ToolOf[i] \in registered
  /\ record' = [record EXCEPT ![i] = "running"]
  /\ runningCount' = runningCount + 1
  /\ Begin(i, "reexecuting", "broken")
  /\ UNCHANGED <<registered, policyOK>>

\* (fault) a denial is reported but not recorded
DenyUnrecorded(i) ==
  /\ Awaiting(i)
  /\ call' = [call EXCEPT ![i] = "resolved"]
  /\ UNCHANGED <<registered, record, bodies, policyOK, runningCount>>

Deny(i) ==
  /\ Awaiting(i)
  /\ record' = [record EXCEPT ![i] = "failed"]
  /\ call' = [call EXCEPT ![i] = "resolved"]
  /\ UNCHANGED <<registered, bodies, policyOK, runningCount>>

\* Entries with an endTime that are old enough are deleted.
Cleanup ==
  /\ \E old \in (SUBSET {i \in Invs : record[i] \in {"completed", "failed"}}) \ {{}} :
       record' = [i \in Invs |-> IF i \in old THEN "none" ELSE record[i]]
  /\ UNCHANGED <<registered, call, bodies, policyOK, runningCount>>

Shutdown ==
  /\ record' = [i \in Invs |-> "none"]
  /\ UNCHANGED <<registered, call, bodies, policyOK, runningCount>>

Next ==
  \/ \E tool \in Tools : Register(tool) \/ Unregister(tool)
  \/ \E i \in Invs :
       \/ Invoke(i)
       \/ CheckPasses(i)
       \/ CheckParks(i)
       \/ CheckThrows(i)
       \/ ToolReturns(i)
       \/ ToolTimesOut(i)
       \/ OrphanReturns(i)
       \/ Approve(i)
       \/ Deny(i)
  \/ Cleanup
  \/ Shutdown

Spec == Init /\ [][Next]_vars

(***************************************************************************)
(* Timers fire, and reading the approvals file ends.  Nothing is assumed   *)
(* of tool.run or of the people who approve.                               *)
(***************************************************************************)
Fairness ==
  \A i \in Invs :
    /\ WF_vars(CheckPasses(i) \/ CheckParks(i) \/ CheckThrows(i))
    /\ WF_vars(ToolTimesOut(i))

FairSpec == Spec /\ Fairness

-----------------------------------------------------------------------------
\* Invocations in flight, those holding a slot nobody returns, those holding two
Active == In({"checking", "executing", "reexecuting"})
Leaked == In({"parked", "reexecuting", "resolved", "abandoned", "broken"})
Broken == In({"broken"})

\* Exactly what runningCount counts: one for each invocation in flight, one more
\* for each that was ever parked, and one for each exception of the approval
\* check or of createContext.
CountLedger ==
  runningCount = Cardinality(Active) + Cardinality(Leaked) + Cardinality(Broken)

\* Invocations in flight together with those that could be approved at any
\* moment never exceed the limit, although Approve does not check it: the slot
\* a parked invocation keeps is what reserves room for its re-execution.
WithinLimit ==
  Cardinality(Active \union In({"parked"})) <= MaxConcurrent

\* The map and the calls agree: only a parked invocation can be approved or
\* denied, and one recorded as finished has no call under way.
RecordMatchesCall ==
  \A i \in Invs :
    /\ record[i] = "awaiting_approval" => call[i] = "parked"
    /\ record[i] \in {"completed", "failed"} => call[i] \in {"settled", "resolved"}
    /\ record[i] = "running" =>
         call[i] \in {"checking", "executing", "reexecuting", "abandoned", "broken"}

\* Whatever the order of approvals, denials, timeouts, cleanup and shutdown, an
\* invocation that has been answered, or has thrown, is never started again.
RunsAtMostOnce ==
  [][\A i \in Invs : call[i] \in {"settled", "resolved", "abandoned", "broken"} =>
       call'[i] = call[i] /\ (i \in bodies' => i \in bodies)]_vars

\* A tool that never returns does not keep an invocation in flight for ever.
EventuallySettles ==
  \A i \in Invs : i \in Active ~> i \notin Active

\* getRunningCount: "Get the current number of running tool invocations."
CountIsRunning == runningCount = Cardinality(Active)
=============================================================================
