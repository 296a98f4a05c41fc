-------------------------------- MODULE Recovery -------------------------------
(***************************************************************************)
(* Executor, Planner and Replanner: a message becomes a plan, its steps    *)
(* run one after the other, and a failing step is retried, given another   *)
(* tool or ends the execution.  All executions share one Replanner, whose  *)
(* attempts are kept by step id.                                           *)
(*                                                                         *)
(* An action is one synchronous run of the event loop.  (The await inside  *)
(* replan is on an async function that itself waits for nothing.)          *)
(*                                                                         *)
(* Definitions marked (fault) are plausible slips, as in TaskOrchestrator. *)
(***************************************************************************)
EXTENDS Naturals, Sequences, FiniteSets

CONSTANTS
  Executions,
  Messages,        \* keyword classes a message may hold: subsets of Keywords
  Answers,         \* what the model may answer, see Answer
  Registered,      \* tools of the toolkit
  Errors,          \* errors of tools: the sets of telling words they contain
  MaxRetries,      \* recoveryLimits.maxRetries
  MaxAlternatives  \* recoveryLimits.maxAlternatives

Keywords == {"search", "open", "file"}
NoTool   == "none"
Words    == {"network", "timeout", "timed out", "denied", "invalid", "not found", "quota"}

\* TOOL_ALIASES, for the names that differ
AliasOf  == [x \in {"open", "browser.open", "search"} |->
               IF x = "search" THEN "browser.search" ELSE "browser.goto"]
\* DEFAULT_ALTERNATIVES, in order of priority
AltsOf   == [x \in {"browser.goto", "browser.search", "browser.open", "http.request"} |->
               IF x = "http.request" THEN <<"browser.goto">> ELSE <<"http.request">>]

Tools == Registered \union DOMAIN AltsOf \union {"fs.write", NoTool} \union
         UNION {{a.steps[i].tool : i \in DOMAIN a.steps} : a \in Answers}

\* An answer of the model: a JSON plan, tool call markup, or neither of the two
Answer(a) == /\ a.form \in {"json", "markup", "unreadable"}
             /\ a.steps \in Seq([id : STRING, tool : STRING])

ASSUME MessagesType == Messages \subseteq SUBSET Keywords
ASSUME AnswersType  == \A a \in Answers : Answer(a)
ASSUME ErrorsType   == Errors \subseteq SUBSET Words
ASSUME LimitsType   == MaxRetries \in Nat /\ MaxAlternatives \in Nat

VARIABLES
  exec,      \* each execution: stage, plan, position, tool now, outcome
  attempts,  \* RecoveryLimiter.attempts: the retries and alternatives per step id
  late,      \* has the global timeout run out since the last reset?
  used,      \* (history) retries of each tool and changes of tool in the current step
  cleared,   \* (history) attempts of the current step cleared meanwhile by others
  settled    \* (history) steps whose tool has succeeded or awaits approval

vars == <<exec, attempts, late, used, cleared, settled>>

-----------------------------------------------------------------------------
(* Planner and LLMClient                                                   *)

Resolve(t) == IF t \in DOMAIN AliasOf THEN AliasOf[t] ELSE t

ParseJson(steps)   == [i \in DOMAIN steps |-> [id |-> steps[i].id, tool |-> Resolve(steps[i].tool)]]
\* The ids of markup steps are positional (bound: two tool calls); a response
\* step is added.
MarkupIds == <<"step-0", "step-1", "step-2">>
ParseMarkup(steps) ==
  IF steps = << >> THEN <<[id |-> "respond", tool |-> NoTool]>>
  ELSE [i \in 1 .. Len(steps) + 1 |->
          [id |-> MarkupIds[i],
           tool |-> IF i \in DOMAIN steps THEN Resolve(steps[i].tool) ELSE NoTool]]

StepFor(message, keyword, id, tool) ==
  IF keyword \in message THEN <<[id |-> id, tool |-> tool]>> ELSE << >>

\* generateFallbackPlan: one step per keyword, and a response step
FallbackPlan(message) ==
  StepFor(message, "search", "search", "browser.search") \o
  StepFor(message, "open", "browse", "browser.goto") \o
  StepFor(message, "file", "file", "fs.write") \o <<[id |-> "respond", tool |-> NoTool]>>

\* The plans a message may get; the keywords decide if the model is of no use.
PlansFor(message) ==
  {ParseJson(a.steps) : a \in {b \in Answers : b.form = "json"}} \union
  {ParseMarkup(a.steps) : a \in {b \in Answers : b.form = "markup"}} \union
  {FallbackPlan(message)}

Plans == UNION {PlansFor(m) : m \in Messages}
StepIds == UNION {{p[i].id : i \in DOMAIN p} : p \in Plans}

-----------------------------------------------------------------------------
(* FailureAnalyzer                                                         *)

\* classifyByError looks for the words of one class after the other.
Classes == <<[type |-> "NETWORK",    words |-> {"network", "timeout"}],
             [type |-> "PERMISSION", words |-> {"denied"}],
             [type |-> "VALIDATION", words |-> {"invalid"}],
             [type |-> "NOT_FOUND",  words |-> {"not found"}],
             [type |-> "RESOURCE",   words |-> {"quota"}],
             [type |-> "TIMEOUT",    words |-> {"timeout", "timed out"}]>>

ClassifyFailure(words) ==
  LET found == SelectSeq(Classes, LAMBDA c : c.words \cap words # {}) IN
  IF found = << >> THEN "UNKNOWN" ELSE found[1].type

IsRecoverable(type) == type \notin {"PERMISSION", "VALIDATION"}

\* getRecommendedAction, for the types that are recoverable
MayRetry(type) == type \in {"NETWORK", "TIMEOUT", "RESOURCE", "UNKNOWN"}
MayUseAlternative(type) == type \in {"NETWORK", "TIMEOUT", "RESOURCE", "UNKNOWN", "NOT_FOUND"}

-----------------------------------------------------------------------------
(* RecoveryLimiter, AlternativeSelector, Replanner                         *)

NoAttempts == [retries |-> [t \in Tools |-> 0], alts |-> {}]

\* reset: the attempts and the clock of all executions
Reset ==
  /\ attempts' = [id \in StepIds |-> NoAttempts]
  /\ late' = FALSE

CanRecover == ~late

\* (fault) the caller's count is used, which starts again with each alternative
RetryByCount(x, id, t) == CanRecover /\ exec[x].tries < MaxRetries

CanRetry(x, id, t) == CanRecover /\ attempts[id].retries[t] < MaxRetries

CanUseAlternative(id) == CanRecover /\ Cardinality(attempts[id].alts) < MaxAlternatives

\* findAlternatives: the places of those that exist and were not tried yet
Untried(id, t) ==
  IF t \in DOMAIN AltsOf
  THEN {i \in DOMAIN AltsOf[t] : AltsOf[t][i] \in Registered \ attempts[id].alts} ELSE {}

\* selectBest: the first of them
SelectBest(id, t) == AltsOf[t][CHOOSE i \in Untried(id, t) : \A j \in Untried(id, t) : i <= j]

\* (fault) the retries are recorded, the alternatives are not
RecordRetryOnly(id, action, t) ==
  attempts' = IF action = "retry" THEN [attempts EXCEPT ![id].retries[t] = @ + 1] ELSE attempts

\* recordAttempt; what only the statistics count is left out
RecordAttempt(id, action, t) ==
  attempts' = IF action = "retry" THEN [attempts EXCEPT ![id].retries[t] = @ + 1]
              ELSE [attempts EXCEPT ![id].alts = @ \union {t}]

\* replan: retry before alternative before abort
Plan(x, id, t, words) ==
  LET type == ClassifyFailure(words) IN
  IF ~CanRecover \/ ~IsRecoverable(type) THEN [action |-> "abort", tool |-> t]
  ELSE IF MayRetry(type) /\ CanRetry(x, id, t) THEN [action |-> "retry", tool |-> t]
  ELSE IF MayUseAlternative(type) /\ CanUseAlternative(id) /\ Untried(id, t) # {}
       THEN [action |-> "alternative", tool |-> SelectBest(id, t)]
  ELSE [action |-> "abort", tool |-> t]

-----------------------------------------------------------------------------
(* Executor                                                                *)

StepOf(x) == exec[x].plan[exec[x].pos]

Others(x, id) == {y \in Executions \ {x} : exec[y].stage = "calling" /\ StepOf(y).id = id}

Idle == [stage |-> "idle", plan |-> << >>, pos |-> 0, tool |-> NoTool, tries |-> 0,
         success |-> TRUE]

Unused == [again |-> [t \in Tools |-> 0], changes |-> 0]

\* What one step may use of a budget; counting stops just past it.
Budget(x, limit)    == (cleared[x] + 1) * limit
Count(x, n, limit)  == IF n > Budget(x, limit) THEN n ELSE n + 1

TypeOK ==
  /\ \A x \in Executions :
       /\ exec[x].stage \in {"idle", "planning", "calling", "responding", "done"}
       /\ exec[x].plan \in Plans \union {<< >>}
       /\ exec[x].pos \in 0 .. Len(exec[x].plan) + 1
       /\ exec[x].tool \in Tools /\ exec[x].tries \in Nat
       /\ exec[x].success \in BOOLEAN
       /\ settled[x] \subseteq DOMAIN exec[x].plan
  /\ \A id \in StepIds : /\ \A t \in Tools : attempts[id].retries[t] \in 0 .. MaxRetries
                         /\ attempts[id].alts \subseteq Registered
  /\ late \in BOOLEAN
  /\ used \in [Executions -> [again : [Tools -> Nat], changes : Nat]]
  /\ cleared \in [Executions -> 0 .. 2 * Cardinality(Executions) * Cardinality(StepIds)]

Init ==
  /\ exec = [x \in Executions |-> Idle]
  /\ attempts = [id \in StepIds |-> NoAttempts]
  /\ late = FALSE
  /\ used = [x \in Executions |-> Unused]
  /\ cleared = [x \in Executions |-> 0]
  /\ settled = [x \in Executions |-> {}]

\* A new execution resets the shared replanner.
Execute(x) ==
  /\ exec[x].stage = "idle"
  /\ exec' = [exec EXCEPT ![x].stage = "planning"]
  /\ Reset
  /\ cleared' = [y \in Executions |-> IF exec[y].stage = "calling" THEN cleared[y] + 1
                                      ELSE cleared[y]]
  /\ UNCHANGED <<used, settled>>

\* The step at pos begins; past the last one the response is generated.
Enter(x, plan, pos) ==
  /\ exec' = [exec EXCEPT ![x] =
       [@ EXCEPT !.plan = plan, !.pos = pos, !.tries = 0,
                 !.tool = IF pos \in DOMAIN plan THEN plan[pos].tool ELSE NoTool,
                 !.stage = IF pos \in DOMAIN plan THEN "calling" ELSE "responding"]]
  /\ used' = [used EXCEPT ![x] = Unused]

PlanReady(x) ==
  /\ exec[x].stage = "planning"
  /\ \E m \in Messages : \E p \in PlansFor(m) : Enter(x, p, 1)
  /\ cleared' = [cleared EXCEPT ![x] = 0]
  /\ UNCHANGED <<attempts, late, settled>>

\* A step succeeded: its attempts are cleared, whoever made them.
MarkStepSuccess(x) ==
  LET id == StepOf(x).id IN
  /\ attempts' = [attempts EXCEPT ![id] = NoAttempts]
  /\ cleared' = [y \in Executions |-> IF y = x THEN 0
                                      ELSE IF y \in Others(x, id) THEN cleared[y] + 1
                                      ELSE cleared[y]]
  /\ settled' = [settled EXCEPT ![x] = @ \union {exec[x].pos}]
  /\ Enter(x, exec[x].plan, exec[x].pos + 1)

SkipStep(x) ==
  /\ exec[x].stage = "calling" /\ exec[x].tool = NoTool
  /\ MarkStepSuccess(x)
  /\ UNCHANGED late

\* A result, or for a gated tool the message that it awaits approval
ToolSucceeds(x) ==
  /\ exec[x].stage = "calling" /\ exec[x].tool \in Registered
  /\ MarkStepSuccess(x)
  /\ UNCHANGED late

\* (fault) the remaining steps are run after one that was given up
AbortStep(x) ==
  /\ Enter(x, exec[x].plan, exec[x].pos + 1)
  /\ UNCHANGED attempts

Abort(x) ==
  /\ exec' = [exec EXCEPT ![x].stage = "done", ![x].success = FALSE]
  /\ UNCHANGED <<attempts, used>>

Retry(x) ==
  /\ RecordAttempt(StepOf(x).id, "retry", exec[x].tool)
  /\ exec' = [exec EXCEPT ![x].tries = @ + 1]
  /\ used' = [used EXCEPT ![x].again[exec[x].tool] = Count(x, @, MaxRetries)]

UseAlternative(x, t) ==
  /\ RecordAttempt(StepOf(x).id, "alternative", t)
  /\ exec' = [exec EXCEPT ![x].tool = t, ![x].tries = 0]
  /\ used' = [used EXCEPT ![x].changes = Count(x, @, MaxAlternatives)]

Recover(x, words) ==
  LET plan == Plan(x, StepOf(x).id, exec[x].tool, words) IN
  /\ \/ plan.action = "retry" /\ Retry(x)
     \/ plan.action = "alternative" /\ UseAlternative(x, plan.tool)
     \/ plan.action = "abort" /\ Abort(x)
  /\ UNCHANGED <<late, cleared, settled>>

\* A tool that is not known, an error of the runtime (its limit, the schema, the
\* policy), which a tool that waits for an approval meets too, or of the tool
ToolFails(x) ==
  /\ exec[x].stage = "calling" /\ exec[x].tool # NoTool
  /\ \/ exec[x].tool \in Registered /\ \E words \in Errors : Recover(x, words)
     \/ exec[x].tool \notin Registered /\ Recover(x, {"not found"})

\* The model's answer, or a fixed text when it fails
Respond(x) ==
  /\ exec[x].stage = "responding"
  /\ exec' = [exec EXCEPT ![x].stage = "done"]
  /\ UNCHANGED <<attempts, late, used, cleared, settled>>

GlobalTimeout ==
  /\ ~late /\ \E x \in Executions : exec[x].stage = "calling"
  /\ late' = TRUE
  /\ UNCHANGED <<exec, attempts, used, cleared, settled>>

Proceed(x) ==
  PlanReady(x) \/ SkipStep(x) \/ ToolSucceeds(x) \/ ToolFails(x) \/ Respond(x)

Next == GlobalTimeout \/ \E x \in Executions : Execute(x) \/ Proceed(x)

Spec == Init /\ [][Next]_vars

\* The model and the tools answer in the end.
FairSpec == Spec /\ \A x \in Executions : WF_vars(Proceed(x))

-----------------------------------------------------------------------------
(* Properties                                                              *)

\* For one step a tool is retried at most maxRetries times, also when it comes
\* back as the alternative of its alternative, and the tool changes at most
\* maxAlternatives times; only another execution that clears the shared
\* attempts gives the step a fresh budget.
RecoveryBounded ==
  \A x \in Executions :
    /\ \A t \in Tools : used[x].again[t] <= Budget(x, MaxRetries)
    /\ used[x].changes <= Budget(x, MaxAlternatives)

\* An execution reports success only if every step was settled.
SuccessIsComplete ==
  \A x \in Executions :
    exec[x].stage = "done" /\ exec[x].success => settled[x] = DOMAIN exec[x].plan

\* Every execution ends: retries and alternatives do not go on for ever, also
\* when two tools are each other's alternative.
EveryExecutionEnds ==
  \A x \in Executions : exec[x].stage = "planning" ~> exec[x].stage = "done"
=============================================================================
