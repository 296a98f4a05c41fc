----------------------------- MODULE RecoveryProofs -----------------------------
(***************************************************************************)
(* Proofs about the executor and its recovery, for any executions, plans,  *)
(* tools, errors and limits.                                               *)
(*                                                                         *)
(* All executions share the attempts the limiter keeps by step id, and one *)
(* may clear those of another.  So what a step has used of a budget is     *)
(* paid for twice over: by one whole budget for every time its attempts    *)
(* were cleared, and by the attempts that are on record now.  The plan     *)
(* check, which stands by itself, comes last.                              *)
(***************************************************************************)
EXTENDS Recovery, PathReplanner, FiniteSetTheorems, SequenceTheorems, TLAPS

ExecRecord == [stage : {"idle", "planning", "calling", "responding", "done"},
               plan : Plans \union {<< >>}, pos : Nat, tool : Tools, tries : Nat,
               success : BOOLEAN]

AttemptRecord == [retries : [Tools -> Nat], alts : SUBSET Registered]

UseRecord == [again : [Tools -> Nat], changes : Nat]

RTypes ==
  /\ exec \in [Executions -> ExecRecord]
  /\ attempts \in [StepIds -> AttemptRecord]
  /\ used \in [Executions -> UseRecord]
  /\ cleared \in [Executions -> Nat]
  /\ settled \in [Executions -> SUBSET Nat]
  /\ late \in BOOLEAN

\* Attempts on record stay within the limits.
Within(rec) ==
  /\ \A t \in Tools : rec.retries[t] <= MaxRetries
  /\ IsFiniteSet(rec.alts) /\ Cardinality(rec.alts) <= MaxAlternatives

\* What is used was cleared c times, or is on record.
Covered(u, c, rec) ==
  /\ \A t \in Tools : u.again[t] <= c * MaxRetries + rec.retries[t]
  /\ u.changes <= c * MaxAlternatives + Cardinality(rec.alts)

\* RecoveryBounded for what is used and was cleared c times
Bounded(u, c) ==
  /\ \A t \in Tools : u.again[t] <= (c + 1) * MaxRetries
  /\ u.changes <= (c + 1) * MaxAlternatives

\* An execution e that has used u, was cleared c times and has settled the steps
\* in S, with attempts att on record: the steps before the one at pos are settled,
\* past the last one all are, and what is used is paid for.
Fine(e, u, c, S, att) ==
  /\ Bounded(u, c)
  /\ e.stage \in {"idle", "planning"} => S = {}
  /\ e.stage = "calling" => /\ e.plan \in Plans /\ e.pos \in DOMAIN e.plan
                            /\ S = 1 .. e.pos - 1
                            /\ Covered(u, c, att[e.plan[e.pos].id])
  /\ e.stage = "responding" => S = DOMAIN e.plan
  /\ e.stage = "done" /\ e.success => S = DOMAIN e.plan

RInv ==
  /\ RTypes
  /\ \A id \in StepIds : Within(attempts[id])
  /\ \A x \in Executions : Fine(exec[x], used[x], cleared[x], settled[x], attempts)

-----------------------------------------------------------------------------
(* Plans and tools                                                         *)

LEMMA Limits == MaxRetries \in Nat /\ MaxAlternatives \in Nat
  BY LimitsType

\* A plan is a sequence of steps with an id and a tool.
LEMMA PlanShape ==
  ASSUME NEW p \in Plans
  PROVE  /\ \E n \in Nat : DOMAIN p = 1 .. n
         /\ \A i \in DOMAIN p : p[i].id \in StepIds /\ p[i].tool \in Tools
<1>1. \A i \in DOMAIN p : p[i].id \in StepIds
  BY DEF StepIds
<1>2. PICK m \in Messages : p \in PlansFor(m)
  BY DEF Plans
<1>3. {NoTool, "browser.search", "browser.goto", "fs.write"} \subseteq Tools
  BY DEF Tools, AltsOf
<1>4. ASSUME NEW a \in Answers
      PROVE  /\ \E n \in Nat : DOMAIN a.steps = 1 .. n /\ Len(a.steps) = n
             /\ \A i \in DOMAIN a.steps : Resolve(a.steps[i].tool) \in Tools
  <2>1. a.steps \in Seq([id : STRING, tool : STRING])
    BY <1>4, AnswersType DEF Answer
  <2>2. Len(a.steps) \in Nat /\ DOMAIN a.steps = 1 .. Len(a.steps)
    BY <2>1
  <2>3. \A i \in DOMAIN a.steps : a.steps[i].tool \in Tools
    BY <1>4 DEF Tools
  <2> QED
    BY <1>3, <2>2, <2>3 DEF Resolve, AliasOf
<1>5. CASE \E a \in Answers : p = ParseJson(a.steps)
  <2>1. PICK a \in Answers : p = ParseJson(a.steps)
    BY <1>5
  <2>2. /\ DOMAIN p = DOMAIN a.steps
        /\ \A i \in DOMAIN p : p[i].tool = Resolve(a.steps[i].tool)
    BY <2>1 DEF ParseJson
  <2> QED
    BY <1>1, <1>4, <2>2
<1>6. CASE \E a \in Answers : p = ParseMarkup(a.steps)
  <2>1. PICK a \in Answers : p = ParseMarkup(a.steps)
    BY <1>6
  <2>2. CASE a.steps = << >>
    <3>1. p = <<[id |-> "respond", tool |-> NoTool]>>
      BY <2>1, <2>2 DEF ParseMarkup
    <3> QED
      BY <1>1, <1>3, <3>1
  <2>3. CASE a.steps # << >>
    <3>1. /\ DOMAIN p = 1 .. Len(a.steps) + 1
          /\ \A i \in DOMAIN p : p[i].tool = IF i \in DOMAIN a.steps
                                             THEN Resolve(a.steps[i].tool) ELSE NoTool
      BY <2>1, <2>3 DEF ParseMarkup
    <3>2. Len(a.steps) + 1 \in Nat
      BY <1>4
    <3> QED
      BY <1>1, <1>3, <1>4, <3>1, <3>2
  <2> QED
    BY <2>2, <2>3
<1>7. CASE p = FallbackPlan(m)
  <2> DEFINE T == [id : {"search", "browse", "file", "respond"}, tool : Tools]
  <2>1. ASSUME NEW key, NEW id \in {"search", "browse", "file", "respond"}, NEW t \in Tools
        PROVE  StepFor(m, key, id, t) \in Seq(T)
    <3>1. [id |-> id, tool |-> t] \in T
      OBVIOUS
    <3> HIDE DEF T
    <3>2. <<[id |-> id, tool |-> t]>> \in Seq(T) /\ << >> \in Seq(T)
      BY <3>1
    <3> QED
      BY <3>2 DEF StepFor
  <2>2. p \in Seq(T)
    <3> DEFINE first  == StepFor(m, "search", "search", "browser.search")
               second == StepFor(m, "open", "browse", "browser.goto")
               third  == StepFor(m, "file", "file", "fs.write")
               last   == <<[id |-> "respond", tool |-> NoTool]>>
    <3>1. first \in Seq(T) /\ second \in Seq(T) /\ third \in Seq(T)
      BY <1>3, <2>1
    <3>2. last \in Seq(T)
      <4>1. [id |-> "respond", tool |-> NoTool] \in T
        BY <1>3
      <4> QED
        BY <4>1
    <3>3. p = first \o second \o third \o last
      BY <1>7 DEF FallbackPlan
    <3> HIDE DEF T, first, second, third, last
    <3>4. first \o second \in Seq(T)
      BY <3>1, ConcatProperties
    <3>5. first \o second \o third \in Seq(T)
      BY <3>1, <3>4, ConcatProperties
    <3> QED
      BY <3>2, <3>3, <3>5, ConcatProperties
  <2>3. DOMAIN p = 1 .. Len(p) /\ Len(p) \in Nat
    BY <2>2
  <2>4. \A i \in DOMAIN p : p[i] \in T
    <3> HIDE DEF T
    <3> QED
      BY <2>2, <2>3, ElementOfSeq
  <2>5. \A i \in DOMAIN p : p[i].tool \in Tools
    BY <2>4
  <2> QED
    BY <1>1, <2>3, <2>5
<1> QED
  BY <1>2, <1>5, <1>6, <1>7 DEF PlansFor

\* The tool that replaces another one exists and was not tried before.
LEMMA BestIsUntried ==
  ASSUME NEW id, NEW t, Untried(id, t) # {}
  PROVE  SelectBest(id, t) \in Registered \ attempts[id].alts
<1>1. t \in DOMAIN AltsOf
  BY DEF Untried
<1>2. DOMAIN AltsOf[t] = {1}
  BY <1>1 DEF AltsOf
<1>3. Untried(id, t) = {1}
  BY <1>2 DEF Untried
<1>4. (CHOOSE i \in Untried(id, t) : \A j \in Untried(id, t) : i <= j) = 1
  BY <1>3
<1>5. SelectBest(id, t) = AltsOf[t][1] /\ 1 \in Untried(id, t)
  BY <1>3, <1>4 DEF SelectBest
<1> QED
  BY <1>1, <1>5 DEF Untried

-----------------------------------------------------------------------------
(* Budgets                                                                 *)

\* One time more that the attempts were cleared is one budget more.
LEMMA OneMore ==
  ASSUME NEW c \in Nat, NEW m \in Nat
  PROVE  /\ c * m \in Nat /\ (c + 1) * m \in Nat
         /\ (c + 1) * m = c * m + m
  OBVIOUS

LEMMA NoAttemptsType ==
  /\ NoAttempts \in AttemptRecord /\ NoAttempts.alts = {}
  /\ \A t \in Tools : NoAttempts.retries[t] = 0
  BY DEF NoAttempts, AttemptRecord

LEMMA UnusedType ==
  /\ Unused \in UseRecord /\ Unused.changes = 0
  /\ \A t \in Tools : Unused.again[t] = 0
  BY DEF Unused, UseRecord

LEMMA CoveredIsBounded ==
  ASSUME NEW u \in UseRecord, NEW c \in Nat, NEW rec \in AttemptRecord, Within(rec),
         Covered(u, c, rec)
  PROVE  Bounded(u, c) /\ Bounded(u, c + 1) /\ Covered(u, c + 1, NoAttempts)
<1>1. /\ c * MaxRetries \in Nat /\ (c + 1) * MaxRetries = c * MaxRetries + MaxRetries
      /\ c + 1 \in Nat /\ (c + 1) * MaxRetries \in Nat
      /\ ((c + 1) + 1) * MaxRetries = (c + 1) * MaxRetries + MaxRetries
  BY Limits, OneMore
<1>2. /\ c * MaxAlternatives \in Nat /\ (c + 1) * MaxAlternatives = c * MaxAlternatives + MaxAlternatives
      /\ (c + 1) * MaxAlternatives \in Nat
      /\ ((c + 1) + 1) * MaxAlternatives = (c + 1) * MaxAlternatives + MaxAlternatives
  BY <1>1, Limits, OneMore
<1>3. ASSUME NEW t \in Tools
      PROVE  u.again[t] <= (c + 1) * MaxRetries /\ u.again[t] \in Nat
  <2>1. u.again[t] \in Nat /\ rec.retries[t] \in Nat /\ rec.retries[t] <= MaxRetries
    BY DEF UseRecord, AttemptRecord, Within
  <2>2. u.again[t] <= c * MaxRetries + rec.retries[t]
    BY DEF Covered
  <2> QED
    BY <1>1, <2>1, <2>2, Limits
<1>4. u.changes <= (c + 1) * MaxAlternatives /\ u.changes \in Nat
  <2>1. u.changes \in Nat /\ Cardinality(rec.alts) \in Nat /\ Cardinality(rec.alts) <= MaxAlternatives
    BY FS_CardinalityType DEF UseRecord, Within
  <2>2. u.changes <= c * MaxAlternatives + Cardinality(rec.alts)
    BY DEF Covered
  <2> QED
    BY <1>2, <2>1, <2>2, Limits
<1>5. Bounded(u, c)
  BY <1>3, <1>4 DEF Bounded
<1>6. Bounded(u, c + 1)
  <2>1. \A t \in Tools : u.again[t] <= ((c + 1) + 1) * MaxRetries
    BY <1>1, <1>3, Limits
  <2>2. u.changes <= ((c + 1) + 1) * MaxAlternatives
    BY <1>2, <1>4, Limits
  <2> QED
    BY <2>1, <2>2 DEF Bounded
<1>7. Covered(u, c + 1, NoAttempts)
  <2>1. Cardinality(NoAttempts.alts) = 0
    BY NoAttemptsType, FS_EmptySet
  <2>2. \A t \in Tools : u.again[t] <= (c + 1) * MaxRetries + NoAttempts.retries[t]
    BY <1>1, <1>3, NoAttemptsType
  <2>3. u.changes <= (c + 1) * MaxAlternatives + Cardinality(NoAttempts.alts)
    BY <1>2, <1>4, <2>1
  <2> QED
    BY <2>2, <2>3 DEF Covered
<1> QED
  BY <1>5, <1>6, <1>7

\* A step that begins has used nothing.
LEMMA UnusedIsCovered ==
  ASSUME NEW rec \in AttemptRecord, Within(rec)
  PROVE  Covered(Unused, 0, rec) /\ Bounded(Unused, 0)
<1>1. 0 * MaxRetries = 0 /\ 0 * MaxAlternatives = 0 /\ (0 + 1) * MaxRetries = MaxRetries
      /\ (0 + 1) * MaxAlternatives = MaxAlternatives
  BY Limits
<1>2. Cardinality(rec.alts) \in Nat
  BY FS_CardinalityType DEF Within
<1>3. \A t \in Tools : rec.retries[t] \in Nat
  BY DEF AttemptRecord
<1> QED
  BY <1>1, <1>2, <1>3, UnusedType, Limits DEF Covered, Bounded

LEMMA NoAttemptsWithin == Within(NoAttempts)
  BY NoAttemptsType, Limits, FS_EmptySet DEF Within

\* Where a step under way is
LEMMA StepType ==
  ASSUME RInv, NEW x \in Executions, exec[x].stage = "calling"
  PROVE  /\ exec[x].plan \in Plans /\ exec[x].pos \in DOMAIN exec[x].plan /\ exec[x].tool \in Tools
         /\ settled[x] = 1 .. exec[x].pos - 1
         /\ StepOf(x).id \in StepIds
         /\ attempts[StepOf(x).id] \in AttemptRecord /\ Within(attempts[StepOf(x).id])
         /\ Covered(used[x], cleared[x], attempts[StepOf(x).id])
         /\ used[x] \in UseRecord /\ cleared[x] \in Nat
<1>1. /\ exec[x].plan \in Plans /\ exec[x].pos \in DOMAIN exec[x].plan
      /\ settled[x] = 1 .. exec[x].pos - 1
      /\ Covered(used[x], cleared[x], attempts[StepOf(x).id])
  BY DEF RInv, Fine, StepOf
<1>2. used[x] \in UseRecord /\ cleared[x] \in Nat /\ exec[x].tool \in Tools
  BY DEF RInv, RTypes, ExecRecord
<1>3. StepOf(x).id \in StepIds
  BY <1>1, PlanShape DEF StepOf
<1> QED
  BY <1>1, <1>2, <1>3 DEF RInv, RTypes

\* One execution is fine as long as nobody else's step takes back what it is covered by.
LEMMA Untouched ==
  ASSUME RInv, NEW x \in Executions, NEW att, NEW c,
         \/ exec[x].stage # "calling" /\ c = cleared[x]
         \/ exec[x].stage = "calling" /\ Covered(used[x], c, att[StepOf(x).id]) /\ Bounded(used[x], c)
  PROVE  Fine(exec[x], used[x], c, settled[x], att)
<1>1. Fine(exec[x], used[x], cleared[x], settled[x], attempts)
  BY DEF RInv
<1> QED
  BY <1>1 DEF Fine, StepOf

\* The first step of a plan, or the one after the steps that are settled
LEMMA EnterIsFine ==
  ASSUME NEW e \in ExecRecord, NEW steps \in Plans, NEW pos \in Nat \ {0},
         1 .. pos - 1 \subseteq DOMAIN steps, NEW att,
         \A id \in StepIds : att[id] \in AttemptRecord /\ Within(att[id])
  PROVE  LET f == [e EXCEPT !.plan = steps, !.pos = pos, !.tries = 0,
                            !.tool = IF pos \in DOMAIN steps THEN steps[pos].tool ELSE NoTool,
                            !.stage = IF pos \in DOMAIN steps THEN "calling" ELSE "responding"]
         IN  f \in ExecRecord /\ Fine(f, Unused, 0, 1 .. pos - 1, att)
<1> DEFINE t == IF pos \in DOMAIN steps THEN steps[pos].tool ELSE NoTool
           g == IF pos \in DOMAIN steps THEN "calling" ELSE "responding"
           f == [e EXCEPT !.plan = steps, !.pos = pos, !.tries = 0, !.tool = t, !.stage = g]
<1>1. PICK n \in Nat : DOMAIN steps = 1 .. n
  BY PlanShape
<1>2. t \in Tools /\ g \in {"calling", "responding"}
  BY PlanShape DEF Tools
<1>3. g = "responding" => 1 .. pos - 1 = DOMAIN steps
  BY <1>1
<1>4. g = "calling" => pos \in DOMAIN steps
  OBVIOUS
<1> HIDE DEF t, g
<1>5. /\ f \in ExecRecord /\ f.plan = steps /\ f.pos = pos /\ f.stage = g
  BY <1>2 DEF ExecRecord
<1> HIDE DEF f
<1>6. g = "calling" => /\ steps[pos].id \in StepIds
                       /\ Covered(Unused, 0, att[steps[pos].id])
  BY <1>4, PlanShape, UnusedIsCovered
<1>7. Bounded(Unused, 0)
  BY NoAttemptsType, NoAttemptsWithin, UnusedIsCovered
<1>8. Fine(f, Unused, 0, 1 .. pos - 1, att)
  BY <1>2, <1>3, <1>4, <1>5, <1>6, <1>7 DEF Fine
<1> QED
  BY <1>5, <1>8 DEF f, t, g

-----------------------------------------------------------------------------
(* The executor, one operation after the other                             *)

\* A new execution resets the attempts: every step under way is given one more budget.
LEMMA ExecuteKeeps ==
  ASSUME RInv, NEW x \in Executions, Execute(x)
  PROVE  RInv'
<1> DEFINE e == [exec[x] EXCEPT !.stage = "planning"]
<1>1. /\ exec[x].stage = "idle" /\ RTypes /\ exec[x] \in ExecRecord
      /\ UNCHANGED <<used, settled>> /\ late' = FALSE
      /\ attempts' = [id \in StepIds |-> NoAttempts]
      /\ cleared' = [y \in Executions |-> IF exec[y].stage = "calling" THEN cleared[y] + 1
                                          ELSE cleared[y]]
  BY DEF Execute, Reset, RInv, RTypes
<1>2. e \in ExecRecord /\ e.stage = "planning" /\ exec' = [exec EXCEPT ![x] = e]
  BY <1>1 DEF Execute, ExecRecord
<1> HIDE DEF e
<1>3. RTypes'
  <2>1. cleared' \in [Executions -> Nat]
    BY <1>1 DEF RTypes
  <2> QED
    BY <1>1, <1>2, <2>1, NoAttemptsType DEF RTypes
<1>4. \A id \in StepIds : Within(attempts'[id])
  BY <1>1, NoAttemptsWithin
<1>5. ASSUME NEW y \in Executions
      PROVE  Fine(exec'[y], used'[y], cleared'[y], settled'[y], attempts')
  <2>1. CASE y = x
    <3>1. cleared'[x] = cleared[x] /\ exec'[x] = e
      BY <1>1, <1>2 DEF RTypes
    <3>2. Bounded(used[x], cleared[x]) /\ settled[x] = {}
      BY <1>1 DEF RInv, Fine
    <3> QED
      BY <1>1, <1>2, <2>1, <3>1, <3>2 DEF Fine
  <2>2. CASE y # x /\ exec[y].stage # "calling"
    <3>1. cleared'[y] = cleared[y] /\ exec'[y] = exec[y]
      BY <1>1, <1>2, <2>2 DEF RTypes
    <3> QED
      BY <1>1, <2>2, <3>1, Untouched
  <2>3. CASE y # x /\ exec[y].stage = "calling"
    <3>1. /\ StepOf(y).id \in StepIds /\ attempts[StepOf(y).id] \in AttemptRecord
          /\ Within(attempts[StepOf(y).id])
          /\ Covered(used[y], cleared[y], attempts[StepOf(y).id])
          /\ used[y] \in UseRecord /\ cleared[y] \in Nat
      BY <2>3, StepType
    <3>2. cleared'[y] = cleared[y] + 1 /\ exec'[y] = exec[y]
          /\ attempts'[StepOf(y).id] = NoAttempts
      BY <1>1, <1>2, <2>3, <3>1 DEF RTypes
    <3>3. Covered(used[y], cleared[y] + 1, NoAttempts) /\ Bounded(used[y], cleared[y] + 1)
      BY <3>1, CoveredIsBounded
    <3> QED
      BY <1>1, <2>3, <3>2, <3>3, Untouched
  <2> QED
    BY <2>1, <2>2, <2>3
<1> QED
  BY <1>3, <1>4, <1>5 DEF RInv

\* Enter, seen from the execution that does it and from the others
LEMMA EnterType ==
  ASSUME RTypes, NEW x \in Executions, NEW steps \in Plans, NEW pos \in Nat \ {0},
         1 .. pos - 1 \subseteq DOMAIN steps, Enter(x, steps, pos),
         \A id \in StepIds : attempts'[id] \in AttemptRecord /\ Within(attempts'[id])
  PROVE  /\ exec' \in [Executions -> ExecRecord] /\ used' \in [Executions -> UseRecord]
         /\ Fine(exec'[x], used'[x], 0, 1 .. pos - 1, attempts')
         /\ \A y \in Executions \ {x} : exec'[y] = exec[y] /\ used'[y] = used[y]
<1> DEFINE f == [exec[x] EXCEPT !.plan = steps, !.pos = pos, !.tries = 0,
                   !.tool = IF pos \in DOMAIN steps THEN steps[pos].tool ELSE NoTool,
                   !.stage = IF pos \in DOMAIN steps THEN "calling" ELSE "responding"]
<1>1. exec[x] \in ExecRecord
  BY DEF RTypes
<1>2. f \in ExecRecord /\ Fine(f, Unused, 0, 1 .. pos - 1, attempts')
  BY <1>1, EnterIsFine
<1>3. exec' = [exec EXCEPT ![x] = f] /\ used' = [used EXCEPT ![x] = Unused]
  BY DEF Enter
<1> HIDE DEF f
<1> QED
  BY <1>2, <1>3, UnusedType DEF RTypes

LEMMA PlanReadyKeeps ==
  ASSUME RInv, NEW x \in Executions, PlanReady(x)
  PROVE  RInv'
<1>1. /\ exec[x].stage = "planning" /\ RTypes /\ settled[x] = {}
      /\ cleared' = [cleared EXCEPT ![x] = 0] /\ UNCHANGED <<attempts, late, settled>>
  BY DEF PlanReady, RInv, Fine
<1>2. PICK p \in Plans : Enter(x, p, 1)
  BY DEF PlanReady, Plans
<1>3. \A id \in StepIds : attempts'[id] \in AttemptRecord /\ Within(attempts'[id])
  BY <1>1 DEF RInv, RTypes
<1>4. 1 \in Nat \ {0} /\ 1 .. 1 - 1 \subseteq DOMAIN p /\ 1 .. 1 - 1 = {}
  OBVIOUS
<1>5. /\ exec' \in [Executions -> ExecRecord] /\ used' \in [Executions -> UseRecord]
      /\ Fine(exec'[x], used'[x], 0, 1 .. 1 - 1, attempts')
      /\ \A y \in Executions \ {x} : exec'[y] = exec[y] /\ used'[y] = used[y]
  BY <1>1, <1>2, <1>3, <1>4, EnterType
<1>6. RTypes'
  BY <1>1, <1>5 DEF RTypes
<1>7. ASSUME NEW y \in Executions
      PROVE  Fine(exec'[y], used'[y], cleared'[y], settled'[y], attempts')
  <2>1. CASE y = x
    BY <1>1, <1>4, <1>5, <2>1 DEF RTypes
  <2>2. CASE y # x
    BY <1>1, <1>5, <2>2 DEF RInv, RTypes
  <2> QED
    BY <2>1, <2>2
<1> QED
  BY <1>3, <1>6, <1>7 DEF RInv

\* A step that succeeded clears the attempts of its id, and so gives whoever
\* else is at a step of that id one more budget.
LEMMA SuccessKeeps ==
  ASSUME RInv, NEW x \in Executions, exec[x].stage = "calling", MarkStepSuccess(x),
         UNCHANGED late
  PROVE  RInv'
<1> DEFINE id == StepOf(x).id
           steps == exec[x].plan
           pos == exec[x].pos
<1>1. /\ steps \in Plans /\ pos \in DOMAIN steps /\ settled[x] = 1 .. pos - 1 /\ id \in StepIds
      /\ RTypes
  BY StepType DEF RInv
<1>2. PICK n \in Nat : DOMAIN steps = 1 .. n
  BY <1>1, PlanShape
<1>3. pos + 1 \in Nat \ {0} /\ 1 .. (pos + 1) - 1 \subseteq DOMAIN steps
      /\ settled[x] \union {pos} = 1 .. (pos + 1) - 1
  BY <1>1, <1>2
<1>4. /\ attempts' = [attempts EXCEPT ![id] = NoAttempts]
      /\ cleared' = [y \in Executions |-> IF y = x THEN 0
                                          ELSE IF y \in Others(x, id) THEN cleared[y] + 1
                                          ELSE cleared[y]]
      /\ settled' = [settled EXCEPT ![x] = @ \union {pos}]
      /\ Enter(x, steps, pos + 1)
  BY DEF MarkStepSuccess
<1>5. \A i \in StepIds : attempts'[i] \in AttemptRecord /\ Within(attempts'[i])
  BY <1>1, <1>4, NoAttemptsType, NoAttemptsWithin DEF RInv, RTypes
<1>6. /\ exec' \in [Executions -> ExecRecord] /\ used' \in [Executions -> UseRecord]
      /\ Fine(exec'[x], used'[x], 0, 1 .. (pos + 1) - 1, attempts')
      /\ \A y \in Executions \ {x} : exec'[y] = exec[y] /\ used'[y] = used[y]
  BY <1>1, <1>3, <1>4, <1>5, EnterType
<1> HIDE DEF id, steps, pos
<1>7. /\ settled'[x] = 1 .. (pos + 1) - 1 /\ cleared'[x] = 0
      /\ \A y \in Executions \ {x} : settled'[y] = settled[y]
      /\ settled' \in [Executions -> SUBSET Nat] /\ cleared' \in [Executions -> Nat]
  <2>1. settled[x] \union {pos} \in SUBSET Nat
    BY <1>3
  <2> QED
    BY <1>1, <1>3, <1>4, <2>1 DEF RTypes
<1>8. RTypes'
  <2>1. attempts' \in [StepIds -> AttemptRecord]
    BY <1>1, <1>4, NoAttemptsType DEF RTypes
  <2> QED
    BY <1>1, <1>6, <1>7, <2>1 DEF RTypes
<1>9. ASSUME NEW y \in Executions
      PROVE  Fine(exec'[y], used'[y], cleared'[y], settled'[y], attempts')
  <2>1. CASE y = x
    BY <1>6, <1>7, <2>1
  <2>2. CASE y # x /\ exec[y].stage # "calling"
    <3>1. cleared'[y] = cleared[y] /\ exec'[y] = exec[y] /\ used'[y] = used[y] /\ settled'[y] = settled[y]
      BY <1>4, <1>6, <1>7, <2>2 DEF Others
    <3> QED
      BY <2>2, <3>1, Untouched
  <2>3. CASE y # x /\ exec[y].stage = "calling"
    <3>1. /\ StepOf(y).id \in StepIds /\ attempts[StepOf(y).id] \in AttemptRecord
          /\ Within(attempts[StepOf(y).id])
          /\ Covered(used[y], cleared[y], attempts[StepOf(y).id])
          /\ used[y] \in UseRecord /\ cleared[y] \in Nat
      BY <2>3, StepType
    <3>2. exec'[y] = exec[y] /\ used'[y] = used[y] /\ settled'[y] = settled[y]
      BY <1>6, <1>7, <2>3
    <3>3. CASE StepOf(y).id = id
      <4>1. cleared'[y] = cleared[y] + 1 /\ attempts'[StepOf(y).id] = NoAttempts
        BY <1>1, <1>4, <2>3, <3>3 DEF Others, RTypes
      <4>2. Covered(used[y], cleared[y] + 1, NoAttempts) /\ Bounded(used[y], cleared[y] + 1)
        BY <3>1, CoveredIsBounded
      <4> QED
        BY <2>3, <3>2, <4>1, <4>2, Untouched
    <3>4. CASE StepOf(y).id # id
      <4>1. cleared'[y] = cleared[y] /\ attempts'[StepOf(y).id] = attempts[StepOf(y).id]
        BY <1>1, <1>4, <2>3, <3>1, <3>4 DEF Others, RTypes
      <4>2. Bounded(used[y], cleared[y])
        BY <3>1, CoveredIsBounded
      <4> QED
        BY <2>3, <3>1, <3>2, <4>1, <4>2, Untouched
    <3> QED
      BY <3>3, <3>4
  <2> QED
    BY <2>1, <2>2, <2>3
<1> QED
  BY <1>5, <1>8, <1>9 DEF RInv

\* A retry is on record before it counts as used.
LEMMA RetryIsCovered ==
  ASSUME NEW u \in UseRecord, NEW c \in Nat, NEW rec \in AttemptRecord, Within(rec),
         Covered(u, c, rec), NEW t \in Tools, rec.retries[t] < MaxRetries,
         NEW n \in {u.again[t], u.again[t] + 1}
  PROVE  LET more == [rec EXCEPT !.retries[t] = @ + 1]
             v    == [u EXCEPT !.again[t] = n]
         IN  /\ more \in AttemptRecord /\ Within(more) /\ v \in UseRecord
             /\ Covered(v, c, more)
             /\ \A w \in UseRecord, d \in Nat : Covered(w, d, rec) => Covered(w, d, more)
<1> DEFINE r == [rec.retries EXCEPT ![t] = @ + 1]
           more == [rec EXCEPT !.retries[t] = @ + 1]
           a == [u.again EXCEPT ![t] = n]
           v == [u EXCEPT !.again[t] = n]
<1>1. rec.retries \in [Tools -> Nat] /\ u.again \in [Tools -> Nat] /\ u.changes \in Nat
  BY DEF AttemptRecord, UseRecord
<1>2. /\ r \in [Tools -> Nat] /\ r[t] = rec.retries[t] + 1
      /\ \A s \in Tools \ {t} : r[s] = rec.retries[s]
      /\ a \in [Tools -> Nat] /\ a[t] = n /\ \A s \in Tools \ {t} : a[s] = u.again[s]
  BY <1>1
<1>3. more = [rec EXCEPT !.retries = r] /\ v = [u EXCEPT !.again = a]
  OBVIOUS
<1> HIDE DEF r, more, a, v
<1>4. more \in AttemptRecord /\ more.retries = r /\ more.alts = rec.alts
  BY <1>2, <1>3 DEF AttemptRecord
<1>5. v \in UseRecord /\ v.again = a /\ v.changes = u.changes
  BY <1>2, <1>3 DEF UseRecord
<1>6. Within(more)
  <2>1. \A s \in Tools : r[s] <= MaxRetries
    BY <1>1, <1>2, Limits DEF Within
  <2> QED
    BY <1>4, <2>1 DEF Within
<1>7. Covered(v, c, more)
  <2>1. c * MaxRetries \in Nat
    BY Limits, OneMore
  <2>2. ASSUME NEW s \in Tools
        PROVE  a[s] <= c * MaxRetries + r[s]
    <3>1. u.again[s] <= c * MaxRetries + rec.retries[s]
      BY DEF Covered
    <3>2. CASE s = t
      BY <1>1, <1>2, <2>1, <3>1, <3>2
    <3>3. CASE s # t
      BY <1>2, <3>1, <3>3
    <3> QED
      BY <3>2, <3>3
  <2> QED
    BY <1>4, <1>5, <2>2 DEF Covered
<1>8. ASSUME NEW w \in UseRecord, NEW d \in Nat, Covered(w, d, rec)
      PROVE  Covered(w, d, more)
  <2>1. d * MaxRetries \in Nat /\ w.again \in [Tools -> Nat]
    BY Limits, OneMore DEF UseRecord
  <2>2. ASSUME NEW s \in Tools
        PROVE  w.again[s] <= d * MaxRetries + r[s]
    <3>1. w.again[s] <= d * MaxRetries + rec.retries[s]
      BY <1>8 DEF Covered
    <3>2. r[s] \in Nat /\ rec.retries[s] \in Nat /\ rec.retries[s] <= r[s]
      BY <1>1, <1>2
    <3> QED
      BY <2>1, <3>1, <3>2
  <2> QED
    BY <1>4, <1>8, <2>2 DEF Covered
<1> QED
  BY <1>4, <1>5, <1>6, <1>7, <1>8 DEF more, v

\* So is a change of tool.
LEMMA ChangeIsCovered ==
  ASSUME NEW u \in UseRecord, NEW c \in Nat, NEW rec \in AttemptRecord, Within(rec),
         Covered(u, c, rec), Cardinality(rec.alts) < MaxAlternatives,
         NEW t \in Registered \ rec.alts, NEW n \in {u.changes, u.changes + 1}
  PROVE  LET more == [rec EXCEPT !.alts = @ \union {t}]
             v    == [u EXCEPT !.changes = n]
         IN  /\ more \in AttemptRecord /\ Within(more) /\ v \in UseRecord
             /\ Covered(v, c, more)
             /\ \A w \in UseRecord, d \in Nat : Covered(w, d, rec) => Covered(w, d, more)
<1> DEFINE more == [rec EXCEPT !.alts = @ \union {t}]
           v == [u EXCEPT !.changes = n]
<1>1. /\ more \in AttemptRecord /\ more.retries = rec.retries /\ more.alts = rec.alts \union {t}
      /\ v \in UseRecord /\ v.again = u.again /\ v.changes = n /\ u.changes \in Nat
  BY DEF AttemptRecord, UseRecord
<1> HIDE DEF more, v
<1>2. /\ IsFiniteSet(rec.alts) /\ Cardinality(rec.alts) \in Nat
      /\ IsFiniteSet(more.alts) /\ Cardinality(more.alts) = Cardinality(rec.alts) + 1
  BY <1>1, FS_CardinalityType, FS_AddElement DEF Within
<1>3. Within(more)
  BY <1>1, <1>2, Limits DEF Within
<1>4. Covered(v, c, more)
  <2>1. c * MaxAlternatives \in Nat /\ u.changes <= c * MaxAlternatives + Cardinality(rec.alts)
    BY Limits, OneMore DEF Covered
  <2>2. n <= c * MaxAlternatives + Cardinality(more.alts)
    BY <1>1, <1>2, <2>1
  <2> QED
    BY <1>1, <2>2 DEF Covered
<1>5. ASSUME NEW w \in UseRecord, NEW d \in Nat, Covered(w, d, rec)
      PROVE  Covered(w, d, more)
  <2>1. /\ d * MaxAlternatives \in Nat /\ w.changes \in Nat
        /\ w.changes <= d * MaxAlternatives + Cardinality(rec.alts)
    BY <1>5, Limits, OneMore DEF Covered, UseRecord
  <2>2. w.changes <= d * MaxAlternatives + Cardinality(more.alts)
    BY <1>2, <2>1
  <2> QED
    BY <1>1, <1>5, <2>2 DEF Covered
<1> QED
  BY <1>1, <1>3, <1>4, <1>5 DEF more, v

\* More is on record for one step id, and one execution has used it.
LEMMA RecordKeeps ==
  ASSUME RInv, NEW x \in Executions, exec[x].stage = "calling", NEW e \in ExecRecord,
         e.stage = "calling", e.plan = exec[x].plan, e.pos = exec[x].pos,
         NEW more \in AttemptRecord, Within(more), NEW v \in UseRecord,
         Covered(v, cleared[x], more),
         \A w \in UseRecord, d \in Nat :
           Covered(w, d, attempts[StepOf(x).id]) => Covered(w, d, more),
         exec' = [exec EXCEPT ![x] = e], attempts' = [attempts EXCEPT ![StepOf(x).id] = more],
         used' = [used EXCEPT ![x] = v], UNCHANGED <<late, cleared, settled>>
  PROVE  RInv'
<1> DEFINE id == StepOf(x).id
<1>1. RTypes /\ id \in StepIds /\ settled[x] = 1 .. exec[x].pos - 1 /\ cleared[x] \in Nat
      /\ exec[x].plan \in Plans /\ exec[x].pos \in DOMAIN exec[x].plan
      /\ id = e.plan[e.pos].id
  BY StepType DEF RInv, StepOf
<1> HIDE DEF id
<1>2. attempts' = [attempts EXCEPT ![id] = more]
  BY DEF id
<1>3. RTypes'
  BY <1>1, <1>2 DEF RTypes
<1>4. \A i \in StepIds : Within(attempts'[i])
  BY <1>1, <1>2 DEF RInv, RTypes
<1>5. ASSUME NEW y \in Executions
      PROVE  Fine(exec'[y], used'[y], cleared'[y], settled'[y], attempts')
  <2>1. CASE y = x
    <3>1. /\ exec'[x] = e /\ used'[x] = v /\ cleared'[x] = cleared[x] /\ settled'[x] = settled[x]
          /\ attempts'[id] = more
      BY <1>1, <1>2 DEF RTypes
    <3>2. Bounded(v, cleared[x])
      BY <1>1, CoveredIsBounded
    <3> QED
      BY <1>1, <2>1, <3>1, <3>2 DEF Fine
  <2>2. CASE y # x /\ exec[y].stage # "calling"
    <3>1. exec'[y] = exec[y] /\ used'[y] = used[y]
      BY <2>2 DEF RInv, RTypes
    <3> QED
      BY <2>2, <3>1, Untouched
  <2>3. CASE y # x /\ exec[y].stage = "calling"
    <3>1. /\ StepOf(y).id \in StepIds /\ attempts[StepOf(y).id] \in AttemptRecord
          /\ Within(attempts[StepOf(y).id])
          /\ Covered(used[y], cleared[y], attempts[StepOf(y).id])
          /\ used[y] \in UseRecord /\ cleared[y] \in Nat
      BY <2>3, StepType
    <3>2. exec'[y] = exec[y] /\ used'[y] = used[y]
      BY <2>3 DEF RInv, RTypes
    <3>3. Covered(used[y], cleared[y], attempts'[StepOf(y).id])
      <4>1. CASE StepOf(y).id = id
        BY <1>1, <1>2, <3>1, <4>1 DEF RTypes, id
      <4>2. CASE StepOf(y).id # id
        BY <1>1, <1>2, <3>1, <4>2 DEF RTypes
      <4> QED
        BY <4>1, <4>2
    <3>4. Bounded(used[y], cleared[y])
      BY <3>1, CoveredIsBounded
    <3> QED
      BY <2>3, <3>2, <3>3, <3>4, Untouched
  <2> QED
    BY <2>1, <2>2, <2>3
<1> QED
  BY <1>3, <1>4, <1>5 DEF RInv

LEMMA RetryKeeps ==
  ASSUME RInv, NEW x \in Executions, exec[x].stage = "calling",
         attempts[StepOf(x).id].retries[exec[x].tool] < MaxRetries,
         Retry(x), UNCHANGED <<late, cleared, settled>>
  PROVE  RInv'
<1> DEFINE id == StepOf(x).id
           t == exec[x].tool
           n == Count(x, used[x].again[t], MaxRetries)
           more == [attempts[id] EXCEPT !.retries[t] = @ + 1]
           v == [used[x] EXCEPT !.again[t] = n]
           e == [exec[x] EXCEPT !.tries = @ + 1]
<1>1. /\ id \in StepIds /\ t \in Tools /\ attempts[id] \in AttemptRecord /\ Within(attempts[id])
      /\ Covered(used[x], cleared[x], attempts[id])
      /\ used[x] \in UseRecord /\ cleared[x] \in Nat
  BY StepType
<1>2. n \in {used[x].again[t], used[x].again[t] + 1}
  BY DEF Count
<1> HIDE DEF n
<1>3. /\ more \in AttemptRecord /\ Within(more) /\ v \in UseRecord
      /\ Covered(v, cleared[x], more)
      /\ \A w \in UseRecord, d \in Nat : Covered(w, d, attempts[id]) => Covered(w, d, more)
  BY <1>1, <1>2, RetryIsCovered
<1>4. exec[x] \in ExecRecord
  BY DEF RInv, RTypes
<1>5. e \in ExecRecord /\ e.stage = "calling" /\ e.plan = exec[x].plan /\ e.pos = exec[x].pos
  BY <1>4 DEF ExecRecord
<1>6. exec' = [exec EXCEPT ![x] = e] /\ attempts' = [attempts EXCEPT ![id] = more]
      /\ used' = [used EXCEPT ![x] = v]
  <2>1. exec' = [exec EXCEPT ![x] = e]
    BY DEF Retry
  <2>2. attempts' = [attempts EXCEPT ![id] = more]
    BY DEF Retry, RecordAttempt
  <2>3. used' = [used EXCEPT ![x] = v]
    BY DEF Retry, n
  <2> QED
    BY <2>1, <2>2, <2>3
<1> HIDE DEF more, v, e
<1> QED
  BY <1>3, <1>5, <1>6, RecordKeeps

LEMMA UseAlternativeKeeps ==
  ASSUME RInv, NEW x \in Executions, exec[x].stage = "calling",
         Cardinality(attempts[StepOf(x).id].alts) < MaxAlternatives,
         NEW t \in Registered \ attempts[StepOf(x).id].alts,
         UseAlternative(x, t), UNCHANGED <<late, cleared, settled>>
  PROVE  RInv'
<1> DEFINE id == StepOf(x).id
           n == Count(x, used[x].changes, MaxAlternatives)
           more == [attempts[id] EXCEPT !.alts = @ \union {t}]
           v == [used[x] EXCEPT !.changes = n]
           e == [exec[x] EXCEPT !.tool = t, !.tries = 0]
<1>1. /\ id \in StepIds /\ attempts[id] \in AttemptRecord /\ Within(attempts[id])
      /\ Covered(used[x], cleared[x], attempts[id])
      /\ used[x] \in UseRecord /\ cleared[x] \in Nat
  BY StepType
<1>2. n \in {used[x].changes, used[x].changes + 1}
  BY DEF Count
<1> HIDE DEF n
<1>3. /\ more \in AttemptRecord /\ Within(more) /\ v \in UseRecord
      /\ Covered(v, cleared[x], more)
      /\ \A w \in UseRecord, d \in Nat : Covered(w, d, attempts[id]) => Covered(w, d, more)
  BY <1>1, <1>2, ChangeIsCovered
<1>4. exec[x] \in ExecRecord /\ t \in Tools
  BY DEF RInv, RTypes, Tools
<1>5. e \in ExecRecord /\ e.stage = "calling" /\ e.plan = exec[x].plan /\ e.pos = exec[x].pos
  BY <1>4 DEF ExecRecord
<1>6. exec' = [exec EXCEPT ![x] = e] /\ attempts' = [attempts EXCEPT ![id] = more]
      /\ used' = [used EXCEPT ![x] = v]
  <2>1. exec' = [exec EXCEPT ![x] = e]
    BY <1>4 DEF UseAlternative, ExecRecord, RInv, RTypes
  <2>2. attempts' = [attempts EXCEPT ![id] = more]
    BY DEF UseAlternative, RecordAttempt
  <2>3. used' = [used EXCEPT ![x] = v]
    BY DEF UseAlternative, n
  <2> QED
    BY <2>1, <2>2, <2>3
<1> HIDE DEF more, v, e
<1> QED
  BY <1>3, <1>5, <1>6, RecordKeeps

\* An execution leaves its step, and nothing else changes.
LEMMA EndKeeps ==
  ASSUME RInv, NEW x \in Executions, NEW e \in ExecRecord, e.stage = "done",
         e.success => settled[x] = DOMAIN e.plan,
         exec' = [exec EXCEPT ![x] = e], UNCHANGED <<attempts, late, used, cleared, settled>>
  PROVE  RInv'
<1>1. RTypes'
  BY DEF RInv, RTypes
<1>2. ASSUME NEW y \in Executions
      PROVE  Fine(exec'[y], used'[y], cleared'[y], settled'[y], attempts')
  <2>1. CASE y = x
    BY <2>1 DEF RInv, RTypes, Fine
  <2>2. CASE y # x
    BY <2>2 DEF RInv, RTypes
  <2> QED
    BY <2>1, <2>2
<1> QED
  BY <1>1, <1>2 DEF RInv

LEMMA RecoverKeeps ==
  ASSUME RInv, NEW x \in Executions, NEW words, exec[x].stage = "calling", Recover(x, words)
  PROVE  RInv'
<1> DEFINE id == StepOf(x).id
           t == exec[x].tool
           advice == Plan(x, id, t, words)
<1>1. UNCHANGED <<late, cleared, settled>>
  BY DEF Recover
<1>2. CASE advice.action = "retry" /\ Retry(x)
  <2>1. CanRetry(x, id, t)
    BY <1>2 DEF Plan
  <2> QED
    BY <1>1, <1>2, <2>1, RetryKeeps DEF CanRetry
<1>3. CASE advice.action = "alternative" /\ UseAlternative(x, advice.tool)
  <2>1. /\ CanUseAlternative(id) /\ Untried(id, t) # {} /\ advice.tool = SelectBest(id, t)
    BY <1>3 DEF Plan
  <2>2. advice.tool \in Registered \ attempts[id].alts
    BY <2>1, BestIsUntried
  <2> QED
    BY <1>1, <1>3, <2>1, <2>2, UseAlternativeKeeps DEF CanUseAlternative
<1>4. CASE Abort(x)
  <2> DEFINE e == [exec[x] EXCEPT !.stage = "done", !.success = FALSE]
  <2>1. exec[x] \in ExecRecord
    BY DEF RInv, RTypes
  <2>2. e \in ExecRecord /\ e.stage = "done" /\ e.success = FALSE
    BY <2>1 DEF ExecRecord
  <2>3. exec' = [exec EXCEPT ![x] = e] /\ UNCHANGED <<attempts, used>>
    BY <1>4, <2>1 DEF Abort, ExecRecord, RInv, RTypes
  <2> HIDE DEF e
  <2> QED
    BY <1>1, <2>2, <2>3, EndKeeps
<1> QED
  BY <1>2, <1>3, <1>4 DEF Recover

LEMMA RespondKeeps ==
  ASSUME RInv, NEW x \in Executions, Respond(x)
  PROVE  RInv'
<1> DEFINE e == [exec[x] EXCEPT !.stage = "done"]
<1>1. /\ exec[x] \in ExecRecord /\ settled[x] = DOMAIN exec[x].plan
      /\ UNCHANGED <<attempts, late, used, cleared, settled>>
  BY DEF Respond, RInv, RTypes, Fine
<1>2. e \in ExecRecord /\ e.stage = "done" /\ e.plan = exec[x].plan
  BY <1>1 DEF ExecRecord
<1>3. exec' = [exec EXCEPT ![x] = e]
  BY DEF Respond
<1> HIDE DEF e
<1> QED
  BY <1>1, <1>2, <1>3, EndKeeps

\* Only what recovery may do changes when the global timeout runs out.
LEMMA SteadyKeeps ==
  ASSUME RInv, UNCHANGED <<exec, attempts, used, cleared, settled>>, late' \in BOOLEAN
  PROVE  RInv'
  BY DEF RInv, RTypes

-----------------------------------------------------------------------------
(* The invariant, and what follows from it                                 *)

LEMMA InitHolds ==
  ASSUME Init
  PROVE  RInv
<1>1. Idle \in ExecRecord /\ Idle.stage = "idle"
  <2>1. NoTool \in Tools
    BY DEF Tools
  <2> QED
    BY <2>1 DEF Idle, ExecRecord
<1>2. RTypes
  BY <1>1, NoAttemptsType, UnusedType DEF Init, RTypes
<1>3. \A id \in StepIds : Within(attempts[id])
  BY NoAttemptsWithin DEF Init
<1>4. Bounded(Unused, 0)
  BY NoAttemptsType, NoAttemptsWithin, UnusedIsCovered
<1>5. \A x \in Executions : Fine(exec[x], used[x], cleared[x], settled[x], attempts)
  BY <1>1, <1>4 DEF Init, Fine
<1> QED
  BY <1>2, <1>3, <1>5 DEF RInv

LEMMA NextKeeps ==
  ASSUME RInv, [Next]_vars
  PROVE  RInv'
<1>1. CASE GlobalTimeout
  BY <1>1, SteadyKeeps DEF GlobalTimeout
<1>2. ASSUME NEW x \in Executions, Execute(x) \/ Proceed(x)
      PROVE  RInv'
  <2>1. CASE Execute(x)
    BY <2>1, ExecuteKeeps
  <2>2. CASE PlanReady(x)
    BY <2>2, PlanReadyKeeps
  <2>3. CASE SkipStep(x) \/ ToolSucceeds(x)
    BY <2>3, SuccessKeeps DEF SkipStep, ToolSucceeds
  <2>4. CASE ToolFails(x)
    BY <2>4, RecoverKeeps DEF ToolFails
  <2>5. CASE Respond(x)
    BY <2>5, RespondKeeps
  <2> QED
    BY <1>2, <2>1, <2>2, <2>3, <2>4, <2>5 DEF Proceed
<1>3. CASE UNCHANGED vars
  <2>1. UNCHANGED <<exec, attempts, used, cleared, settled>> /\ late' \in BOOLEAN
    BY <1>3 DEF vars, RInv, RTypes
  <2> QED
    BY <2>1, SteadyKeeps
<1> QED
  BY <1>1, <1>2, <1>3 DEF Next

LEMMA AlwaysFine == Spec => []RInv
  BY InitHolds, NextKeeps, PTL DEF Spec

\* However a step fails, executeStepWithRetry retries each of its tools at most
\* maxRetries times and changes the tool at most maxAlternatives times, but for one
\* more such budget each time another execution cleared the shared attempts.
THEOREM RecoveryIsBounded == Spec => []RecoveryBounded
<1>1. RInv => RecoveryBounded
  BY DEF RInv, Fine, Bounded, RecoveryBounded, Budget
<1> QED
  BY <1>1, AlwaysFine, PTL

\* execute reports success only when every step of the plan has been settled.
THEOREM SuccessMeansComplete == Spec => []SuccessIsComplete
<1>1. RInv => SuccessIsComplete
  BY DEF RInv, Fine, SuccessIsComplete
<1> QED
  BY <1>1, AlwaysFine, PTL

-----------------------------------------------------------------------------
(***************************************************************************)
(* The plan check.  While no error was found, the open calls of hasCycle   *)
(* are a chain of steps each waiting for the next, and the steps it has    *)
(* left can be run, with nothing missing that they wait for.  Each return  *)
(* adds a step that waits for those only; a call for a step on the stack   *)
(* closes the chain to a circle.                                           *)
(***************************************************************************)

\* Steps that hasCycle has left
Done(vis, stack) == vis \ stack

\* The open calls p are those of the steps on the stack, the outer one waiting
\* for the inner one.
Chain(stack, p, deps) ==
  /\ stack = {p[i] : i \in 1 .. Len(p)}
  /\ \A i \in 1 .. Len(p) : \A j \in 1 .. Len(p) : p[i] = p[j] => i = j
  /\ \A i \in 1 .. Len(p) - 1 : p[i] \in deps[p[i + 1]]

\* What a step waits for has been left before the step is left; until then it may
\* also be what the step is looking at, or has still to look at.
Explored(vis, stack, p, l, deps) ==
  /\ \A s \in Done(vis, stack) : deps[s] \ {Missing} \subseteq Done(vis, stack)
  /\ \A i \in 1 .. Len(p) : \A d \in deps[p[i]] \ {Missing} :
       d \in Done(vis, stack) \union l[p[i]] \/ (i > 1 /\ d = p[i - 1])

\* Orderable for the steps in T
OrderableIn(T, deps) ==
  \A todo \in (SUBSET T) \ {{}} : \E s \in todo : deps[s] \intersect todo = {}

Search(vis, stack, p, l, deps) ==
  /\ Chain(stack, p, deps)
  /\ Explored(vis, stack, p, l, deps)
  /\ OrderableIn(Done(vis, stack), deps)

CheckTypes ==
  /\ verdict \in {"none", "open", "valid", "invalid"}
  /\ tried \in 0 .. NumSteps
  /\ visited \subseteq Steps
  /\ recursionStack \subseteq visited
  /\ path \in Seq(Steps)
  /\ left \in [Steps -> SUBSET Steps]
  /\ circular \subseteq Steps
  /\ verdict # "none" => plan.deps \in [Steps -> SUBSET (Steps \union {Missing})]

CheckInv ==
  /\ CheckTypes
  /\ verdict = "none" =>
       visited = {} /\ path = << >> /\ circular = {} /\ left = [s \in Steps |-> {}]
         /\ tried = 0
  /\ verdict # "none" =>
       /\ \A s \in Steps : left[s] \subseteq plan.deps[s] \ {Missing}
       /\ 1 .. tried \subseteq visited
       /\ path # << >> => tried \in Steps
       /\ circular # {} => ~Orderable(plan.deps)
       /\ circular = {} => Search(visited, recursionStack, path, left, plan.deps)
  /\ ValidIsRunnable

\* A call of hasCycle opens, or returns.
LEMMA Pushed ==
  ASSUME NEW p \in Seq(Steps), NEW s \in Steps, NEW q, q = <<s>> \o p
  PROVE  /\ q \in Seq(Steps)
         /\ q # << >>
         /\ Head(q) = s
         /\ Len(p) \in Nat
         /\ Len(q) = Len(p) + 1
         /\ q[1] = s
         /\ \A i \in 1 .. Len(p) : q[i + 1] = p[i]
         /\ \A i \in 2 .. Len(q) : q[i] = p[i - 1]
<1>1. <<s>> \in Seq(Steps) /\ Len(<<s>>) = 1 /\ <<s>>[1] = s
  OBVIOUS
<1>2. /\ q \in Seq(Steps)
      /\ Len(q) = Len(p) + 1
      /\ Len(p) \in Nat
      /\ \A i \in 1 .. 1 + Len(p) : q[i] = IF i <= 1 THEN <<s>>[i] ELSE p[i - 1]
  BY <1>1, ConcatProperties, LenProperties
<1>3. q[1] = s
  BY <1>1, <1>2
<1>4. \A i \in 1 .. Len(p) : q[i + 1] = p[i]
  BY <1>2
<1>5. \A i \in 2 .. Len(q) : q[i] = p[i - 1]
  BY <1>2
<1>6. q # << >> /\ Head(q) = s
  BY <1>2, <1>3
<1> QED
  BY <1>2, <1>3, <1>4, <1>5, <1>6

LEMMA Popped ==
  ASSUME NEW p \in Seq(Steps), p # << >>
  PROVE  /\ Head(p) \in Steps
         /\ Head(p) = p[1]
         /\ Tail(p) \in Seq(Steps)
         /\ Len(p) \in Nat
         /\ Len(p) >= 1
         /\ Len(Tail(p)) = Len(p) - 1
         /\ \A i \in 1 .. Len(Tail(p)) : Tail(p)[i] = p[i + 1]
BY HeadTailProperties, LenProperties

LEMMA CheckInvInit == CheckInit => CheckInv
  BY NumStepsType DEF CheckInit, CheckInv, CheckTypes, ValidIsRunnable, Steps

LEMMA StartsInv ==
  ASSUME CheckInv, ValidateNewPlan
  PROVE  CheckInv'
<1>1. /\ verdict = "none" /\ verdict' = "open"
      /\ UNCHANGED <<tried, visited, recursionStack, path, left, circular>>
      /\ plan'.deps \in [Steps -> SUBSET (Steps \union {Missing})]
  BY DEF ValidateNewPlan
<1>2. /\ visited = {} /\ recursionStack = {} /\ path = << >> /\ circular = {}
      /\ left = [s \in Steps |-> {}] /\ tried = 0
  BY <1>1 DEF CheckInv, CheckTypes
<1>3. CheckTypes'
  BY <1>1 DEF CheckInv, CheckTypes
<1>4. Search({}, {}, << >>, left, plan'.deps)
  <2>1. Chain({}, << >>, plan'.deps)
    BY DEF Chain
  <2>2. Explored({}, {}, << >>, left, plan'.deps)
    BY DEF Explored, Done
  <2>3. OrderableIn(Done({}, {}), plan'.deps)
    BY DEF OrderableIn, Done
  <2> QED
    BY <2>1, <2>2, <2>3 DEF Search
<1>5. \A s \in Steps : left[s] = {}
  BY <1>2
<1> QED
  BY <1>1, <1>2, <1>3, <1>4, <1>5 DEF CheckInv, ValidIsRunnable

\* hasCycle comes upon a step of the stack: from there to the innermost call every
\* step waits for another one, so the plan has a circle.
LEMMA ClosesCircle ==
  ASSUME NEW deps \in [Steps -> SUBSET (Steps \union {Missing})],
         NEW p \in Seq(Steps), NEW stack, Chain(stack, p, deps),
         p # << >>, NEW d \in stack, d \in deps[Head(p)]
  PROVE  ~Orderable(deps)
<1>1. PICK j \in 1 .. Len(p) : d = p[j]
  BY DEF Chain
<1> DEFINE circle == {p[i] : i \in 1 .. j}
<1>2. Head(p) = p[1] /\ Len(p) \in Nat
  BY Popped
<1>3. \A i \in 1 .. j : p[i] \in Steps /\ i \in 1 .. Len(p)
  BY <1>1, <1>2, ElementOfSeq
<1>4. circle \in SUBSET Steps /\ circle # {}
  BY <1>1, <1>3
<1>5. ASSUME NEW i \in 1 .. j
      PROVE  deps[p[i]] \intersect circle # {}
  <2>1. CASE i = 1
    BY <1>1, <1>2, <2>1
  <2>2. CASE i # 1
    <3>1. i - 1 \in 1 .. j /\ i - 1 \in 1 .. Len(p) - 1
      BY <1>2, <2>2
    <3>2. p[i - 1] \in deps[p[i - 1 + 1]]
      BY <3>1 DEF Chain
    <3>3. p[i - 1] \in circle /\ i - 1 + 1 = i
      BY <3>1
    <3> QED
      BY <3>2, <3>3
  <2> QED
    BY <2>1, <2>2
<1>6. \A s \in circle : deps[s] \intersect circle # {}
  BY <1>5
<1> HIDE DEF circle
<1> QED
  BY <1>4, <1>6 DEF Orderable

\* hasCycle(s) is called, by the loop over the roots or by the innermost open call,
\* which has dropped s from what it has still to look at, as l says.
Calls(s, l) ==
  /\ verdict = "open"
  /\ s \in Steps
  /\ path # << >> => s \in plan.deps[Head(path)]
  /\ l \in [Steps -> SUBSET Steps]
  /\ \A u \in Steps : l[u] \subseteq left[u]
  /\ \A u \in Steps : left[u] \ l[u] \subseteq
       IF path # << >> /\ u = Head(path) THEN {s} ELSE {}
  /\ tried' \in Steps
  /\ 1 .. tried' \subseteq visited \union {s}
  /\ UNCHANGED <<plan, verdict>>

\* An error, once found, stands: the plan is the same until the verdict.
LEMMA ClosesInv ==
  ASSUME CheckInv, NEW s, NEW l, Calls(s, l), Closes(s, tried', path, l)
  PROVE  CheckInv'
<1>1. /\ s \in recursionStack
      /\ circular' = circular \union {tried'}
      /\ path' = << >>
      /\ left' = l
      /\ UNCHANGED <<visited, recursionStack>>
  BY DEF Closes
<1>2. CheckTypes /\ plan.deps \in [Steps -> SUBSET (Steps \union {Missing})]
  BY DEF CheckInv, CheckTypes, Calls
<1>3. CheckTypes'
  <2>1. /\ visited' \subseteq Steps /\ recursionStack' \subseteq visited'
        /\ circular' \subseteq Steps /\ path' \in Seq(Steps)
        /\ left' \in [Steps -> SUBSET Steps]
    BY <1>1, <1>2 DEF CheckTypes, Calls
  <2>2. tried' \in 0 .. NumSteps
    BY NumStepsType DEF Calls, Steps
  <2>3. UNCHANGED <<plan, verdict>>
    BY DEF Calls
  <2> QED
    BY <1>2, <2>1, <2>2, <2>3 DEF CheckTypes
<1>4. ~Orderable(plan.deps)
  <2>1. CASE circular # {}
    BY <2>1 DEF CheckInv, Calls
  <2>2. CASE circular = {}
    <3>1. Chain(recursionStack, path, plan.deps)
      BY <2>2 DEF CheckInv, Search, Calls
    <3>2. path # << >>
      BY <1>1, <3>1 DEF Chain
    <3> QED
      BY <1>1, <1>2, <3>1, <3>2, ClosesCircle DEF CheckTypes, Calls
  <2> QED
    BY <2>1, <2>2
<1>5. \A u \in Steps : left'[u] \subseteq plan.deps[u] \ {Missing}
  BY <1>1 DEF CheckInv, Calls
<1>6. 1 .. tried' \subseteq visited'
  BY <1>1, <1>2 DEF CheckTypes, Calls
<1> QED
  BY <1>1, <1>3, <1>4, <1>5, <1>6 DEF CheckInv, ValidIsRunnable, Calls

\* A step that has been left needs no second visit.
LEMMA IsKnownInv ==
  ASSUME CheckInv, NEW s, NEW l, Calls(s, l), IsKnown(s, tried', path, l)
  PROVE  CheckInv'
<1>1. /\ s \in Done(visited, recursionStack)
      /\ left' = l
      /\ UNCHANGED <<visited, recursionStack, circular, path>>
  BY DEF IsKnown, Done
<1>2. CheckTypes
  BY DEF CheckInv
<1>3. CheckTypes'
  <2>1. /\ visited' \subseteq Steps /\ recursionStack' \subseteq visited'
        /\ circular' \subseteq Steps /\ path' \in Seq(Steps)
        /\ left' \in [Steps -> SUBSET Steps]
    BY <1>1, <1>2 DEF CheckTypes, Calls
  <2>2. tried' \in 0 .. NumSteps
    BY NumStepsType DEF Calls, Steps
  <2>3. UNCHANGED <<plan, verdict>>
    BY DEF Calls
  <2> QED
    BY <1>2, <2>1, <2>2, <2>3 DEF CheckTypes
<1>4. \A u \in Steps : left'[u] \subseteq plan.deps[u] \ {Missing}
  BY <1>1 DEF CheckInv, Calls
<1>5. 1 .. tried' \subseteq visited'
  BY <1>1 DEF Calls, Done
<1>6. ASSUME circular = {}
      PROVE  Search(visited, recursionStack, path, l, plan.deps)
  <2>1. Search(visited, recursionStack, path, left, plan.deps)
    BY <1>6 DEF CheckInv, Calls
  <2>2. \A i \in 1 .. Len(path) : path[i] \in Steps
    BY <1>2, ElementOfSeq DEF CheckTypes
  <2>3. ASSUME NEW u \in Steps
        PROVE  left[u] \subseteq l[u] \union Done(visited, recursionStack)
    BY <1>1 DEF Calls
  <2>4. Explored(visited, recursionStack, path, l, plan.deps)
    BY <2>1, <2>2, <2>3 DEF Search, Explored
  <2> QED
    BY <2>1, <2>4 DEF Search
<1> QED
  BY <1>1, <1>3, <1>4, <1>5, <1>6 DEF CheckInv, ValidIsRunnable, Calls

\* A step that is entered becomes the innermost of the open calls.
LEMMA EntersInv ==
  ASSUME CheckInv, NEW s, NEW l, Calls(s, l), Enters(s, tried', path, l)
  PROVE  CheckInv'
<1>1. /\ s \in Steps
      /\ s \notin recursionStack
      /\ s \notin visited
      /\ visited' = visited \union {s}
      /\ recursionStack' = recursionStack \union {s}
      /\ path' = <<s>> \o path
      /\ left' = [l EXCEPT ![s] = plan.deps[s] \ {Missing}]
      /\ UNCHANGED circular
      /\ l \in [Steps -> SUBSET Steps]
  BY DEF Enters, Calls
<1>2. CheckTypes /\ plan.deps \in [Steps -> SUBSET (Steps \union {Missing})]
  BY DEF CheckInv, CheckTypes, Calls
<1>3. /\ path' \in Seq(Steps)
      /\ Len(path) \in Nat
      /\ Len(path') = Len(path) + 1
      /\ path'[1] = s
      /\ \A i \in 1 .. Len(path) : path'[i + 1] = path[i]
      /\ \A i \in 2 .. Len(path') : path'[i] = path[i - 1]
  BY <1>1, <1>2, Pushed DEF CheckTypes
<1>4. /\ left' \in [Steps -> SUBSET Steps]
      /\ left'[s] = plan.deps[s] \ {Missing}
      /\ \A u \in Steps \ {s} : left'[u] = l[u]
  BY <1>1, <1>2
<1>5. CheckTypes'
  <2>1. visited' \subseteq Steps /\ recursionStack' \subseteq visited' /\ circular' \subseteq Steps
    BY <1>1, <1>2 DEF CheckTypes
  <2>2. tried' \in 0 .. NumSteps
    BY NumStepsType DEF Calls, Steps
  <2>3. UNCHANGED <<plan, verdict>>
    BY DEF Calls
  <2> QED
    BY <1>2, <1>3, <1>4, <2>1, <2>2, <2>3 DEF CheckTypes
<1>6. \A u \in Steps : left'[u] \subseteq plan.deps[u] \ {Missing}
  BY <1>4 DEF CheckInv, Calls
<1>7. 1 .. tried' \subseteq visited'
  BY <1>1 DEF Calls
<1>8. ASSUME circular = {}
      PROVE  Search(visited', recursionStack', path', left', plan.deps)
  <2> DEFINE done == Done(visited, recursionStack)
  <2>1. Search(visited, recursionStack, path, left, plan.deps)
    BY <1>8 DEF CheckInv, Calls
  <2>2. Done(visited', recursionStack') = done
    BY <1>1 DEF Done
  <2>3. \A i \in 1 .. Len(path) : path[i] \in Steps /\ path[i] # s
    BY <1>1, <1>2, <2>1, ElementOfSeq DEF CheckTypes, Search, Chain
  <2>4. Chain(recursionStack', path', plan.deps)
    <3>1. recursionStack' = {path'[i] : i \in 1 .. Len(path')}
      <4>1. recursionStack = {path[i] : i \in 1 .. Len(path)}
        BY <2>1 DEF Search, Chain
      <4>2. \A i \in 1 .. Len(path) : i + 1 \in 1 .. Len(path')
        BY <1>3
      <4>3. \A i \in 1 .. Len(path') : 
              i # 1 => i - 1 \in 1 .. Len(path) /\ i \in 2 .. Len(path')
        BY <1>3
      <4>4. 1 \in 1 .. Len(path')
        BY <1>3
      <4>5. \A x \in recursionStack' : \E i \in 1 .. Len(path') : x = path'[i]
        BY <1>1, <1>3, <4>1, <4>2, <4>4
      <4>6. \A i \in 1 .. Len(path') : path'[i] \in recursionStack'
        BY <1>1, <1>3, <4>1, <4>3
      <4> QED
        BY <4>5, <4>6
    <3>2. ASSUME NEW i \in 1 .. Len(path'), NEW j \in 1 .. Len(path'), path'[i] = path'[j]
          PROVE  i = j
      <4>1. CASE i = 1 /\ j = 1
        BY <4>1
      <4>2. CASE i = 1 /\ j # 1
        BY <1>3, <2>3, <3>2, <4>2
      <4>3. CASE i # 1 /\ j = 1
        BY <1>3, <2>3, <3>2, <4>3
      <4>4. CASE i # 1 /\ j # 1
        <5>1. i - 1 \in 1 .. Len(path) /\ j - 1 \in 1 .. Len(path)
          BY <1>3, <4>4
        <5>2. path[i - 1] = path[j - 1]
          BY <1>3, <3>2, <4>4
        <5>3. i - 1 = j - 1
          BY <2>1, <5>1, <5>2 DEF Search, Chain
        <5> QED
          BY <5>3
      <4> QED
        BY <4>1, <4>2, <4>3, <4>4
    <3>3. ASSUME NEW i \in 1 .. Len(path') - 1
          PROVE  path'[i] \in plan.deps[path'[i + 1]]
      <4>1. i \in 1 .. Len(path) /\ path'[i + 1] = path[i]
        BY <1>3
      <4>2. CASE i = 1
        <5>1. path # << >>
          BY <4>1
        <5>2. Head(path) = path[1]
          BY <1>2, <5>1, Popped DEF CheckTypes
        <5> QED
          BY <1>3, <4>1, <4>2, <5>1, <5>2 DEF Calls
      <4>3. CASE i # 1
        <5>1. i - 1 \in 1 .. Len(path) - 1 /\ i - 1 + 1 = i
          BY <4>1, <4>3
        <5>2. path[i - 1] \in plan.deps[path[i - 1 + 1]]
          BY <2>1, <5>1 DEF Search, Chain
        <5>3. path'[i] = path[i - 1]
          BY <1>3, <4>1, <4>3
        <5> QED
          BY <4>1, <5>1, <5>2, <5>3
      <4> QED
        BY <4>2, <4>3
    <3> QED
      BY <3>1, <3>2, <3>3 DEF Chain
  <2>5. Explored(visited', recursionStack', path', left', plan.deps)
    <3>1. \A u \in done : plan.deps[u] \ {Missing} \subseteq done
      BY <2>1 DEF Search, Explored
    <3>2. ASSUME NEW i \in 1 .. Len(path'), NEW d \in plan.deps[path'[i]] \ {Missing}
          PROVE  d \in done \union left'[path'[i]] \/ (i > 1 /\ d = path'[i - 1])
      <4>1. CASE i = 1
        BY <1>3, <1>4, <3>2, <4>1
      <4>2. CASE i # 1
        <5> DEFINE k == i - 1
        <5>1. k \in 1 .. Len(path) /\ path'[i] = path[k]
          BY <1>3, <4>2
        <5>2. d \in done \union left[path[k]] \/ (k > 1 /\ d = path[k - 1])
          BY <2>1, <3>2, <5>1 DEF Search, Explored
        <5>3. CASE k > 1 /\ d = path[k - 1]
          BY <1>3, <5>1, <5>3
        <5>4. CASE d \in done
          BY <5>4
        <5>5. CASE d \in left[path[k]]
          <6>1. left'[path'[i]] = l[path[k]]
            BY <1>4, <2>3, <5>1
          <6>2. CASE d \in l[path[k]]
            BY <6>1, <6>2
          <6>3. CASE d \notin l[path[k]]
            <7>1. path # << >> /\ path[k] = Head(path) /\ d = s
              BY <2>3, <5>1, <5>5, <6>3 DEF Calls
            <7>2. Head(path) = path[1] /\ 1 \in 1 .. Len(path)
              BY <1>2, <7>1, Popped DEF CheckTypes
            <7>3. k = 1
              BY <2>1, <5>1, <7>1, <7>2 DEF Search, Chain
            <7> QED
              BY <1>3, <5>1, <7>1, <7>3
          <6> QED
            BY <6>2, <6>3
        <5> QED
          BY <5>2, <5>3, <5>4, <5>5
      <4> QED
        BY <4>1, <4>2
    <3> QED
      BY <2>2, <3>1, <3>2 DEF Explored
  <2>6. OrderableIn(Done(visited', recursionStack'), plan.deps)
    BY <2>1, <2>2 DEF Search
  <2> QED
    BY <2>4, <2>5, <2>6 DEF Search
<1>9. circular # {} => ~Orderable(plan.deps)
  BY DEF CheckInv, Calls
<1> QED
  BY <1>1, <1>5, <1>6, <1>7, <1>8, <1>9 DEF CheckInv, ValidIsRunnable, Calls

\* Once hasCycle has gone through what a step waits for, the step can be run after
\* all that has been left before.
LEMMA LeavesInv ==
  ASSUME CheckInv, Leaves
  PROVE  CheckInv'
<1> DEFINE h == Head(path)
<1>1. /\ verdict = "open"
      /\ path # << >>
      /\ left[h] = {}
      /\ recursionStack' = recursionStack \ {h}
      /\ path' = Tail(path)
      /\ UNCHANGED <<plan, tried, visited, left, circular, verdict>>
  BY DEF Leaves
<1>2. CheckTypes /\ plan.deps \in [Steps -> SUBSET (Steps \union {Missing})]
  BY <1>1 DEF CheckInv, CheckTypes
<1>3. /\ h \in Steps
      /\ h = path[1]
      /\ path' \in Seq(Steps)
      /\ Len(path) \in Nat
      /\ Len(path) >= 1
      /\ Len(path') = Len(path) - 1
      /\ \A i \in 1 .. Len(path') : path'[i] = path[i + 1]
  BY <1>1, <1>2, Popped DEF CheckTypes
<1> HIDE DEF h
<1>4. CheckTypes'
  BY <1>1, <1>2, <1>3 DEF CheckTypes
<1>5. ASSUME circular = {}
      PROVE  Search(visited, recursionStack', path', left, plan.deps)
  <2> DEFINE done == Done(visited, recursionStack)
             done2 == Done(visited, recursionStack')
  <2>1. Search(visited, recursionStack, path, left, plan.deps)
    BY <1>1, <1>5 DEF CheckInv
  <2>2. recursionStack = {path[i] : i \in 1 .. Len(path)}
    BY <2>1 DEF Search, Chain
  <2>3. h \in recursionStack /\ h \in visited
    BY <1>2, <1>3, <2>2 DEF CheckTypes
  <2>4. done2 = done \union {h} /\ h \notin done /\ done \subseteq Steps
    BY <1>1, <1>2, <2>3 DEF Done, CheckTypes
  <2>5. plan.deps[h] \ {Missing} \subseteq done
    <3>1. 1 \in 1 .. Len(path) /\ ~(1 > 1)
      BY <1>3
    <3> QED
      BY <1>1, <1>3, <2>1, <3>1 DEF Search, Explored
  <2>6. Chain(recursionStack', path', plan.deps)
    <3>1. recursionStack' = {path'[i] : i \in 1 .. Len(path')}
      <4>1. \A i \in 1 .. Len(path) : i # 1 => i - 1 \in 1 .. Len(path') /\ i - 1 + 1 = i
        BY <1>3
      <4>2. \A i \in 1 .. Len(path') : i + 1 \in 1 .. Len(path) /\ i + 1 # 1 /\ 1 \in 1 .. Len(path)
        BY <1>3
      <4>3. ASSUME NEW i \in 1 .. Len(path')
            PROVE  path'[i] \in recursionStack'
        <5>1. path[i + 1] # path[1]
          BY <2>1, <4>2 DEF Search, Chain
        <5> QED
          BY <1>1, <1>3, <2>2, <4>2, <5>1
      <4>4. ASSUME NEW x \in recursionStack'
            PROVE  \E i \in 1 .. Len(path') : x = path'[i]
        <5>1. PICK i \in 1 .. Len(path) : x = path[i]
          BY <1>1, <2>2
        <5>2. i # 1
          BY <1>1, <1>3, <5>1
        <5>3. x = path'[i - 1]
          BY <1>3, <4>1, <5>1, <5>2
        <5> QED
          BY <4>1, <5>2, <5>3
      <4> QED
        BY <4>3, <4>4
    <3>2. ASSUME NEW i \in 1 .. Len(path'), NEW j \in 1 .. Len(path'), path'[i] = path'[j]
          PROVE  i = j
      <4>1. i + 1 \in 1 .. Len(path) /\ j + 1 \in 1 .. Len(path)
        BY <1>3
      <4>2. path[i + 1] = path[j + 1]
        BY <1>3, <3>2
      <4>3. i + 1 = j + 1
        BY <2>1, <4>1, <4>2 DEF Search, Chain
      <4> QED
        BY <4>3
    <3>3. ASSUME NEW i \in 1 .. Len(path') - 1
          PROVE  path'[i] \in plan.deps[path'[i + 1]]
      <4>1. /\ i + 1 \in 1 .. Len(path) - 1
            /\ path'[i] = path[i + 1]
            /\ path'[i + 1] = path[i + 1 + 1]
        BY <1>3
      <4> QED
        BY <2>1, <4>1 DEF Search, Chain
    <3> QED
      BY <3>1, <3>2, <3>3 DEF Chain
  <2>7. Explored(visited, recursionStack', path', left, plan.deps)
    <3>1. \A u \in done2 : plan.deps[u] \ {Missing} \subseteq done2
      BY <2>1, <2>4, <2>5 DEF Search, Explored
    <3>2. ASSUME NEW i \in 1 .. Len(path'), NEW d \in plan.deps[path'[i]] \ {Missing}
          PROVE  d \in done2 \union left[path'[i]] \/ (i > 1 /\ d = path'[i - 1])
      <4>1. i + 1 \in 1 .. Len(path) /\ path'[i] = path[i + 1] /\ i + 1 - 1 = i
        BY <1>3
      <4>2. d \in done \union left[path[i + 1]] \/ d = path[i]
        BY <2>1, <3>2, <4>1 DEF Search, Explored
      <4>3. CASE d = path[i]
        <5>1. CASE i = 1
          BY <1>3, <2>4, <4>3, <5>1
        <5>2. CASE i # 1
          <6>1. i - 1 \in 1 .. Len(path') /\ i - 1 + 1 = i /\ i > 1
            BY <1>3, <5>2
          <6> QED
            BY <1>3, <4>3, <6>1
        <5> QED
          BY <5>1, <5>2
      <4>4. CASE d \in done \union left[path[i + 1]]
        BY <2>4, <4>1, <4>4
      <4> QED
        BY <4>2, <4>3, <4>4
    <3> QED
      BY <3>1, <3>2 DEF Explored
  <2>8. OrderableIn(done2, plan.deps)
    <3>1. h # Missing
      BY <1>3 DEF Steps, Missing
    <3>2. ASSUME NEW todo \in (SUBSET done2) \ {{}}
          PROVE  \E s \in todo : plan.deps[s] \intersect todo = {}
      <4>1. CASE todo = {h}
        BY <2>4, <2>5, <3>1, <4>1
      <4>2. CASE todo # {h}
        <5>1. todo \ {h} \in (SUBSET done) \ {{}}
          BY <2>4, <3>2, <4>2
        <5>2. PICK s \in todo \ {h} : plan.deps[s] \intersect (todo \ {h}) = {}
          BY <2>1, <5>1 DEF Search, OrderableIn
        <5>3. plan.deps[s] \ {Missing} \subseteq done
          BY <2>1, <5>1, <5>2 DEF Search, Explored
        <5>4. h \notin plan.deps[s]
          BY <2>4, <3>1, <5>3
        <5> QED
          BY <5>2, <5>4
      <4> QED
        BY <4>1, <4>2
    <3> QED
      BY <3>2 DEF OrderableIn
  <2> QED
    BY <2>6, <2>7, <2>8 DEF Search
<1> QED
  BY <1>1, <1>4, <1>5 DEF CheckInv, ValidIsRunnable

\* When every step has been a root and no circle was found, all steps have been
\* left, in an order in which they can be run.
LEMMA VerdictInv ==
  ASSUME CheckInv, Verdict
  PROVE  CheckInv'
<1>1. /\ verdict = "open" /\ path = << >> /\ tried = NumSteps
      /\ verdict' = IF circular = {} /\ ToolErrors = {} /\ DependencyErrors = {}
                      THEN "valid" ELSE "invalid"
      /\ UNCHANGED <<plan, tried, visited, recursionStack, path, left, circular>>
  BY DEF Verdict
<1>2. CheckTypes /\ plan.deps \in [Steps -> SUBSET (Steps \union {Missing})]
  BY <1>1 DEF CheckInv, CheckTypes
<1>3. circular = {} <=> Orderable(plan.deps)
  <2>1. ASSUME circular = {}
        PROVE  Orderable(plan.deps)
    <3>1. Search(visited, recursionStack, path, left, plan.deps)
      BY <1>1, <2>1 DEF CheckInv
    <3>2. recursionStack = {}
      BY <1>1, <3>1 DEF Search, Chain
    <3>3. visited = Steps
      BY <1>1, <1>2 DEF CheckInv, CheckTypes, Steps
    <3> QED
      BY <3>1, <3>2, <3>3 DEF Search, OrderableIn, Orderable, Done
  <2> QED
    BY <1>1, <2>1 DEF CheckInv
<1>4. ToolErrors = {} <=> \A s \in Steps : plan.tool[s] \in AvailableTools \union {Unset}
  BY DEF ToolErrors
<1>5. DependencyErrors = {} <=> \A s \in Steps : plan.deps[s] \subseteq Steps
  <2>1. Missing \notin Steps
    BY DEF Missing, Steps
  <2>2. \A s \in Steps : Missing \notin plan.deps[s] <=> plan.deps[s] \subseteq Steps
    BY <1>2, <2>1
  <2> QED
    BY <2>2 DEF DependencyErrors
<1>6. ValidIsRunnable'
  BY <1>1, <1>3, <1>4, <1>5 DEF ValidIsRunnable
<1>7. verdict' \in {"valid", "invalid"}
  BY <1>1
<1> QED
  BY <1>1, <1>2, <1>6, <1>7 DEF CheckInv, CheckTypes

LEMMA HasCycleInv ==
  ASSUME CheckInv, NEW s, NEW l, Calls(s, l), HasCycle(s, tried', path, l)
  PROVE  CheckInv'
BY ClosesInv, IsKnownInv, EntersInv DEF HasCycle

LEMMA CheckInvStep == CheckInv /\ [CheckNext]_checkVars => CheckInv'
<1> SUFFICES ASSUME CheckInv, [CheckNext]_checkVars
             PROVE  CheckInv'
  OBVIOUS
<1>1. CheckTypes
  BY DEF CheckInv
<1>2. CASE NextRoot
  <2>1. /\ tried' = tried + 1 /\ path = << >> /\ verdict = "open"
        /\ HasCycle(tried', tried', path, left)
        /\ UNCHANGED <<plan, verdict>>
    BY <1>2 DEF NextRoot
  <2>2. tried' \in Steps /\ 1 .. tried' \subseteq visited \union {tried'}
    <3>1. tried \in 0 .. NumSteps /\ tried < NumSteps
      BY <1>1, <1>2 DEF NextRoot, CheckTypes
    <3>2. 1 .. tried \subseteq visited
      BY <2>1 DEF CheckInv
    <3>3. \A i \in 1 .. tried + 1 : i = tried + 1 \/ i \in 1 .. tried
      BY <3>1
    <3> QED
      BY <2>1, <3>1, <3>2, <3>3, NumStepsType DEF Steps
  <2>3. Calls(tried', left)
    BY <1>1, <2>1, <2>2 DEF Calls, CheckTypes
  <2> QED
    BY <2>1, <2>3, HasCycleInv
<1>3. CASE NextDependency
  <2> DEFINE h == Head(path)
  <2>1. /\ verdict = "open" /\ path # << >>
        /\ UNCHANGED <<plan, tried, verdict>>
    BY <1>3 DEF NextDependency
  <2>2. PICK d \in left[h] : HasCycle(d, tried, path, [left EXCEPT ![h] = @ \ {d}])
    BY <1>3 DEF NextDependency
  <2> DEFINE l == [left EXCEPT ![h] = @ \ {d}]
  <2>3. h \in Steps
    BY <1>1, <2>1, Popped DEF CheckTypes
  <2> HIDE DEF h
  <2>4. left \in [Steps -> SUBSET Steps] /\ left[h] \subseteq plan.deps[h] \ {Missing}
    BY <1>1, <2>1, <2>3 DEF CheckInv, CheckTypes
  <2>5. /\ l \in [Steps -> SUBSET Steps]
        /\ l[h] = left[h] \ {d}
        /\ \A u \in Steps \ {h} : l[u] = left[u]
    BY <2>3, <2>4
  <2>6. d \in Steps /\ d \in plan.deps[h]
    BY <2>3, <2>4
  <2>7. tried' \in Steps /\ 1 .. tried' \subseteq visited \union {d}
    <3>1. 1 .. tried \subseteq visited
      BY <2>1 DEF CheckInv
    <3>2. tried \in Steps
      BY <2>1 DEF CheckInv
    <3> QED
      BY <2>1, <3>1, <3>2
  <2> HIDE DEF l
  <2>8. Calls(d, l)
    BY <2>1, <2>5, <2>6, <2>7 DEF Calls, h
  <2> QED
    BY <2>1, <2>2, <2>8, HasCycleInv DEF l
<1>4. CASE UNCHANGED checkVars
  BY <1>4 DEF checkVars, CheckInv, CheckTypes, ValidIsRunnable
<1> QED
  BY <1>2, <1>3, <1>4, StartsInv, LeavesInv, VerdictInv DEF CheckNext

\* validateNewPlan reports no error just for the plans that can be run: those in
\* which no steps wait for each other in a circle, and which name only steps and
\* tools that exist, for plans of any size and whatever order dependsOn has.
THEOREM ValidMeansRunnable == CheckSpec => []ValidIsRunnable
<1>1. CheckInv => ValidIsRunnable
  BY DEF CheckInv
<1> QED
  BY <1>1, CheckInvInit, CheckInvStep, PTL DEF CheckSpec
=============================================================================
