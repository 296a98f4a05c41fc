--------------------------- MODULE TaskOrchestrator ---------------------------
(***************************************************************************)
(* The orchestration layer: TaskRegistry (task states), PerChannelQueue    *)
(* (one FIFO and one busy flag per channel), the execution and timeout     *)
(* logic of TaskOrchestrator, SessionTaskMapper and                        *)
(* ApprovalFlowCoordinator.                                                *)
(*                                                                         *)
(* The program is one JavaScript event loop: an action is one synchronous  *)
(* run, from a call, a timer or the settling of executor.execute() to the  *)
(* next await.  A session is created for every execution, so a session id  *)
(* stands for its task.                                                    *)
(*                                                                         *)
(* A definition marked (fault) is not part of the specification: it is     *)
(* what a plausible slip would make of the definition that follows it, and *)
(* shows that a property would notice.                                     *)
(***************************************************************************)
EXTENDS Naturals, Sequences, FiniteSets

CONSTANTS
  Tasks,         \* task identifiers, each used by at most one createTask
  Channels,      \* channel session identifiers
  ChannelOf,     \* the channel each task is sent on
  MaxQueue,      \* maxQueueSizePerChannel
  Wired,         \* is a toolRuntime that emits approval events passed in deps?
  MaxApprovals   \* bound: simultaneous pending approvals of one task

ASSUME ChannelOfType    == ChannelOf \in [Tasks -> Channels]
ASSUME MaxQueueType     == MaxQueue \in Nat \ {0}
ASSUME WiredType        == Wired \in BOOLEAN
ASSUME MaxApprovalsType == MaxApprovals \in Nat

VARIABLES
  state,       \* registry state; ABSENT before create, PURGED after cleanup
  queue,       \* PerChannelQueue.queues
  processing,  \* PerChannelQueue.processing
  phase,       \* the executeTask call of each task: idle until it is called,
               \* executing until its promise settles, then ended;
               \* skipped if the registry no longer knew the task
  timers,      \* tasks whose timeout is armed
  mapped,      \* tasks whose session SessionTaskMapper maps to them
  approvals,   \* number of pendingApprovals entries of each task
  answers,     \* final responses sent for each task
  intervals    \* are the cleanup intervals of mapper and coordinator running?

vars == <<state, queue, processing, phase, timers, mapped, approvals, answers,
          intervals>>

TaskState == {"PENDING", "RUNNING", "PAUSED", "DONE", "FAILED", "ABORTED"}
Terminal  == {"DONE", "FAILED", "ABORTED"}
Phase     == {"idle", "executing", "ended", "skipped"}

TypeOK ==
  /\ state \in [Tasks -> TaskState \union {"ABSENT", "PURGED"}]
  /\ queue \in [Channels -> Seq(Tasks)]
  /\ processing \in [Channels -> BOOLEAN]
  /\ phase \in [Tasks -> Phase]
  /\ timers \in SUBSET Tasks
  /\ mapped \in SUBSET Tasks
  /\ approvals \in [Tasks -> 0 .. MaxApprovals]
  /\ answers \in [Tasks -> SUBSET {"completed", "failed"}]
  /\ intervals \in BOOLEAN

Init ==
  /\ state = [t \in Tasks |-> "ABSENT"]
  /\ queue = [c \in Channels |-> <<>>]
  /\ processing = [c \in Channels |-> FALSE]
  /\ phase = [t \in Tasks |-> "idle"]
  /\ timers = {}
  /\ mapped = {}
  /\ approvals = [t \in Tasks |-> 0]
  /\ answers = [t \in Tasks |-> {}]
  /\ intervals = TRUE

-----------------------------------------------------------------------------
(* Helpers of the registry and the queue                                   *)

\* (fault) a late result may still overwrite a failure
LenientTransition ==
       {"PENDING"} \X {"RUNNING", "FAILED", "ABORTED"}
  \cup {"RUNNING"} \X {"DONE", "FAILED", "PAUSED", "ABORTED"}
  \cup {"PAUSED"}  \X {"RUNNING", "ABORTED"}
  \cup {"FAILED"}  \X {"DONE"}

ValidTransition ==
       {"PENDING"} \X {"RUNNING", "FAILED", "ABORTED"}
  \cup {"RUNNING"} \X {"DONE", "FAILED", "PAUSED", "ABORTED"}
  \cup {"PAUSED"}  \X {"RUNNING", "ABORTED"}

\* registry.get(t) in the registry contents st
Known(st, t) == st[t] \in TaskState

\* updateState: a transition that is not valid is ignored
UpdateState(st, t, to) ==
  IF <<st[t], to>> \in ValidTransition THEN [st EXCEPT ![t] = to] ELSE st

\* (fault) the item is returned but left in the queue
PeekInstead(q) == q

Dequeue(q) == IF q = <<>> THEN q ELSE Tail(q)

Answer(t, status) == [answers EXCEPT ![t] = @ \union {status}]

(***************************************************************************)
(* processChannel and the synchronous part of executeTask, run on the      *)
(* values the caller has already given to channel c's queue and busy flag  *)
(* and to the registry, the executions, the timers and the mapper.         *)
(***************************************************************************)
Leave(c, q, busy, st, ph, tm, mp) ==
  /\ busy \/ q = <<>>
  /\ queue' = [queue EXCEPT ![c] = q]
  /\ processing' = [processing EXCEPT ![c] = busy]
  /\ state' = st
  /\ phase' = ph
  /\ timers' = tm
  /\ mapped' = mp

\* executeTaskLogic as far as the executor: the session of t is mapped to it.
ExecuteTaskLogic(t, ph, mp) ==
  /\ phase' = [ph EXCEPT ![t] = "executing"]
  /\ mapped' = mp \union {t}

\* (fault) startProcessing is forgotten
StartUnmarked(c, q, busy, st, ph, tm, mp) ==
  /\ ~busy
  /\ q # <<>>
  /\ Known(st, Head(q))
  /\ queue' = [queue EXCEPT ![c] = q]
  /\ processing' = [processing EXCEPT ![c] = FALSE]
  /\ state' = UpdateState(st, Head(q), "RUNNING")
  /\ timers' = tm \union {Head(q)}
  /\ ExecuteTaskLogic(Head(q), ph, mp)

Start(c, q, busy, st, ph, tm, mp) ==
  /\ ~busy
  /\ q # <<>>
  /\ Known(st, Head(q))
  /\ queue' = [queue EXCEPT ![c] = q]
  /\ processing' = [processing EXCEPT ![c] = TRUE]
  /\ state' = UpdateState(st, Head(q), "RUNNING")
  /\ timers' = tm \union {Head(q)}
  /\ ExecuteTaskLogic(Head(q), ph, mp)

\* The head is no longer registered: it is dropped and nothing is restarted.
Skip(c, q, busy, st, ph, tm, mp) ==
  /\ ~busy
  /\ q # <<>>
  /\ ~Known(st, Head(q))
  /\ queue' = [queue EXCEPT ![c] = Tail(q)]
  /\ processing' = [processing EXCEPT ![c] = FALSE]
  /\ state' = st
  /\ phase' = [ph EXCEPT ![Head(q)] = "skipped"]
  /\ timers' = tm
  /\ mapped' = mp

ProcessChannel(c, q, busy, st, ph, tm, mp) ==
  \/ Leave(c, q, busy, st, ph, tm, mp)
  \/ Start(c, q, busy, st, ph, tm, mp)
  \/ Skip(c, q, busy, st, ph, tm, mp)

-----------------------------------------------------------------------------
(* Operations                                                              *)

\* (fault) a new task jumps the queue
AcceptInFront(t) ==
  LET c == ChannelOf[t] IN
  /\ Len(queue[c]) < MaxQueue
  /\ ProcessChannel(c, <<t>> \o queue[c], processing[c],
                    [state EXCEPT ![t] = "PENDING"], phase, timers, mapped)

Accept(t) ==
  LET c == ChannelOf[t] IN
  /\ Len(queue[c]) < MaxQueue
  /\ ProcessChannel(c, Append(queue[c], t), processing[c],
                    [state EXCEPT ![t] = "PENDING"], phase, timers, mapped)

\* (fault) the refused task is left PENDING
RefuseSilently(t) ==
  /\ Len(queue[ChannelOf[t]]) >= MaxQueue
  /\ state' = [state EXCEPT ![t] = "PENDING"]
  /\ UNCHANGED <<queue, processing, phase, timers, mapped>>

\* The queue is full: the task is FAILED and createTask throws.
Refuse(t) ==
  /\ Len(queue[ChannelOf[t]]) >= MaxQueue
  /\ state' = [state EXCEPT ![t] = "FAILED"]
  /\ UNCHANGED <<queue, processing, phase, timers, mapped>>

CreateTask(t) ==
  /\ state[t] = "ABSENT"
  /\ Accept(t) \/ Refuse(t)
  /\ UNCHANGED <<approvals, answers, intervals>>

\* (fault) the timeout is not cleared
SettleKeepsTimer(t, st) ==
  LET c == ChannelOf[t] IN
  /\ phase[t] = "executing"
  /\ ProcessChannel(c, Dequeue(queue[c]), FALSE, st,
                    [phase EXCEPT ![t] = "ended"], timers, mapped \ {t})
  /\ UNCHANGED <<approvals, intervals>>

\* (fault) stopProcessing is forgotten
SettleKeepsBusy(t, st) ==
  LET c == ChannelOf[t] IN
  /\ phase[t] = "executing"
  /\ ProcessChannel(c, Dequeue(queue[c]), TRUE, st,
                    [phase EXCEPT ![t] = "ended"],
                    timers \ {t}, mapped \ {t})
  /\ UNCHANGED <<approvals, intervals>>

\* (fault) finally does not go on to the next task
SettleAndRest(t, st) ==
  LET c == ChannelOf[t] IN
  /\ phase[t] = "executing"
  /\ queue' = [queue EXCEPT ![c] = Dequeue(@)]
  /\ processing' = [processing EXCEPT ![c] = FALSE]
  /\ state' = st
  /\ phase' = [phase EXCEPT ![t] = "ended"]
  /\ timers' = timers \ {t}
  /\ mapped' = mapped \ {t}
  /\ UNCHANGED <<approvals, intervals>>

\* The execution of t settles: response, cleanup, next task of the channel.
Settle(t, st) ==
  LET c == ChannelOf[t] IN
  /\ phase[t] = "executing"
  /\ ProcessChannel(c, Dequeue(queue[c]), FALSE, st,
                    [phase EXCEPT ![t] = "ended"],
                    timers \ {t}, mapped \ {t})
  /\ UNCHANGED <<approvals, intervals>>

ExecutionReturns(t) ==
  /\ Settle(t, UpdateState(state, t, "DONE"))
  /\ answers' = Answer(t, "completed")

\* (fault) the error is reported only if the registry accepts FAILED
ThrowsIfValid(t) ==
  /\ Settle(t, UpdateState(state, t, "FAILED"))
  /\ answers' = IF <<state[t], "FAILED">> \in ValidTransition
                  THEN Answer(t, "failed") ELSE answers

\* handleTaskError is silent about a task the registry no longer knows.
ExecutionThrows(t) ==
  /\ Settle(t, UpdateState(state, t, "FAILED"))
  /\ answers' = IF Known(state, t) THEN Answer(t, "failed") ELSE answers

\* (fault) the timer reports but does not touch the registry
TimeoutKeepsState(t) ==
  /\ t \in timers
  /\ timers' = timers \ {t}
  /\ answers' = IF Known(state, t) THEN Answer(t, "failed") ELSE answers
  /\ UNCHANGED <<state, queue, processing, phase, mapped, approvals, intervals>>

\* The timer only reports: the executor keeps running, the channel stays busy.
Timeout(t) ==
  /\ t \in timers
  /\ timers' = timers \ {t}
  /\ state' = UpdateState(state, t, "FAILED")
  /\ answers' = IF Known(state, t) THEN Answer(t, "failed") ELSE answers
  /\ UNCHANGED <<queue, processing, phase, mapped, approvals, intervals>>

(***************************************************************************)
(* abortTask tests task.state for PENDING and for RUNNING or PAUSED after  *)
(* updateState has set it to ABORTED on the same object, so neither branch *)
(* (queue.remove; dequeue, stopProcessing, cancelTaskApprovals,            *)
(* processChannel) is ever taken.                                          *)
(***************************************************************************)
AbortTask(t) ==
  /\ state[t] \in {"PENDING", "RUNNING", "PAUSED"}
  /\ state' = [state EXCEPT ![t] = "ABORTED"]
  /\ timers' = timers \ {t}
  /\ mapped' = mapped \ {t}
  /\ answers' = Answer(t, "failed")
  /\ UNCHANGED <<queue, processing, phase, approvals, intervals>>

\* registry.cleanup: forget a set of terminal tasks that are old enough.
Cleanup ==
  /\ \E old \in (SUBSET {t \in Tasks : state[t] \in Terminal}) \ {{}} :
       state' = [t \in Tasks |-> IF t \in old THEN "PURGED" ELSE state[t]]
  /\ UNCHANGED <<queue, processing, phase, timers, mapped, approvals, answers,
                 intervals>>

\* SessionTaskMapper.autoCleanup: forget mappings older than the TTL.
ExpireMappings ==
  /\ intervals
  /\ \E old \in (SUBSET mapped) \ {{}} : mapped' = mapped \ old
  /\ UNCHANGED <<state, queue, processing, phase, timers, approvals, answers,
                 intervals>>

Shutdown ==
  /\ intervals
  /\ intervals' = FALSE
  /\ timers' = {}
  /\ mapped' = {}
  /\ approvals' = [t \in Tasks |-> 0]
  /\ UNCHANGED <<state, queue, processing, phase, answers>>

-----------------------------------------------------------------------------
(* Approval flow                                                           *)

\* "approvalRequested" for the session of t, emitted while t's execution runs
\* a tool; ignored unless the session is mapped and the task registered.
ApprovalRequested(t) ==
  /\ Wired
  /\ phase[t] = "executing"
  /\ t \in mapped
  /\ Known(state, t)
  /\ approvals[t] < MaxApprovals
  /\ approvals' = [approvals EXCEPT ![t] = @ + 1]
  /\ state' = UpdateState(state, t, "PAUSED")
  /\ UNCHANGED <<queue, processing, phase, timers, mapped, answers, intervals>>

\* (fault) the pending entry is not looked up first
ForgetUnchecked(t) == approvals' = [approvals EXCEPT ![t] = @ - 1]

ForgetApproval(t) ==
  /\ approvals[t] > 0
  /\ approvals' = [approvals EXCEPT ![t] = @ - 1]

\* handleApprovalResolved for a task that is gone: only the entry is dropped.
ResolveUnknown(t) ==
  /\ ForgetApproval(t)
  /\ ~Known(state, t)
  /\ UNCHANGED <<state, queue, processing, phase, timers, mapped, answers,
                 intervals>>

\* resumeApprovedTask, with resumeCallback = processChannel
Approve(t) ==
  LET c == ChannelOf[t] IN
  /\ ForgetApproval(t)
  /\ Known(state, t)
  /\ ProcessChannel(c, queue[c], processing[c],
                    UpdateState(state, t, "RUNNING"), phase, timers, mapped)
  /\ UNCHANGED <<answers, intervals>>

\* (fault) the denied task stays at the head of the freed channel
DenyKeepsHead(t) ==
  LET c == ChannelOf[t] IN
  /\ ForgetApproval(t)
  /\ Known(state, t)
  /\ state' = UpdateState(state, t, "ABORTED")
  /\ answers' = Answer(t, "failed")
  /\ mapped' = mapped \ {t}
  /\ processing' = [processing EXCEPT ![c] = FALSE]
  /\ UNCHANGED <<queue, phase, timers, intervals>>

\* abortDeniedTask: cleanupCallback dequeues whatever is at the head and
\* marks the channel free; it does not start the next task.
Deny(t) ==
  LET c == ChannelOf[t] IN
  /\ ForgetApproval(t)
  /\ Known(state, t)
  /\ state' = UpdateState(state, t, "ABORTED")
  /\ answers' = Answer(t, "failed")
  /\ mapped' = mapped \ {t}
  /\ queue' = [queue EXCEPT ![c] = Dequeue(@)]
  /\ processing' = [processing EXCEPT ![c] = FALSE]
  /\ UNCHANGED <<phase, timers, intervals>>

HandleApprovalResolved(t) == ResolveUnknown(t) \/ Approve(t) \/ Deny(t)

\* "approvalResolved" emitted by the tool runtime
ApprovalResolved(t) == Wired /\ HandleApprovalResolved(t)

\* grantApproval re-emits the event, only for a PAUSED task
GrantApproval(t) ==
  /\ Wired
  /\ state[t] = "PAUSED"
  /\ HandleApprovalResolved(t)

\* cleanupStaleApprovals: the task itself is left as it is
ExpireApprovals ==
  /\ intervals
  /\ \E left \in [Tasks -> 0 .. MaxApprovals] :
       /\ left # approvals
       /\ \A t \in Tasks : left[t] <= approvals[t]
       /\ approvals' = left
  /\ UNCHANGED <<state, queue, processing, phase, timers, mapped, answers,
                 intervals>>

-----------------------------------------------------------------------------
Next ==
  \/ \E t \in Tasks :
       \/ CreateTask(t)
       \/ ExecutionReturns(t)
       \/ ExecutionThrows(t)
       \/ Timeout(t)
       \/ AbortTask(t)
       \/ ApprovalRequested(t)
       \/ ApprovalResolved(t)
       \/ GrantApproval(t)
  \/ Cleanup
  \/ ExpireMappings
  \/ ExpireApprovals
  \/ Shutdown

Spec == Init /\ [][Next]_vars

(***************************************************************************)
(* executor.execute() is awaited without a deadline; every step of it ends *)
(* (tools have timeouts, recovery is bounded), so its promise settles.     *)
(* Nothing is assumed of users, of timers or of the housekeeping.          *)
(***************************************************************************)
Fairness ==
  \A t \in Tasks : WF_vars(ExecutionReturns(t) \/ ExecutionThrows(t))

FairSpec == Spec /\ Fairness
-----------------------------------------------------------------------------
(* Properties that hold however approvals are wired                        *)

\* Tasks of c whose executeTask call has not settled
InService(c) == {t \in Tasks : ChannelOf[t] = c /\ phase[t] = "executing"}

\* A queued task has not been started yet, except the head of a busy channel;
\* it is queued once, on its own channel.  So finally's blind dequeue() and the
\* unlocked processChannel() of createTask cannot start one task twice.
QueuedUnstarted ==
  \A c \in Channels : \A i \in 1 .. Len(queue[c]) :
    LET t == queue[c][i] IN
    /\ ChannelOf[t] = c
    /\ state[t] # "ABSENT"
    /\ \A j \in 1 .. Len(queue[c]) : queue[c][j] = t => i = j
    /\ \/ phase[t] = "idle"
       \/ phase[t] = "executing" /\ i = 1 /\ processing[c]

\* An armed timeout and a session mapping never outlive the execution they
\* belong to: no "timeout" after the last answer, no approval request of a
\* finished execution attributed to a task.
ScopedToExecution ==
  \A t \in timers \union mapped : phase[t] = "executing"

\* An execution never settles without some final response having been sent,
\* even for a task aborted, timed out or cleaned up meanwhile.
AnsweredWhenEnded ==
  \A t \in Tasks : phase[t] = "ended" => answers[t] # {}

\* An execution that settles stays settled: it is not run again by the very
\* step that settles it and looks for the channel's next task, nor later,
\* whatever approval, denial, abort or cleanup happens in between.
ExecutedAtMostOnce ==
  [][\A t \in Tasks :
       /\ phase[t] \in {"ended", "skipped"} => phase'[t] = phase[t]
       /\ (ExecutionReturns(t) \/ ExecutionThrows(t)) => phase'[t] = "ended"]_vars

-----------------------------------------------------------------------------
(* Properties of the gateway's wiring: no approval events (~Wired)         *)

\* One execution per channel at a time, of the queue's head, and the busy flag
\* is set exactly while it runs (processChannel's and finally's bookkeeping).
SerialExecution ==
  \A c \in Channels :
    /\ processing[c] <=> InService(c) # {}
    /\ \A t \in InService(c) : queue[c] # <<>> /\ t = Head(queue[c])

\* A task that is still PENDING is still in its channel's queue.
NoTaskLost ==
  \A t \in Tasks : state[t] = "PENDING" =>
    \E i \in 1 .. Len(queue[ChannelOf[t]]) : queue[ChannelOf[t]][i] = t

\* A RUNNING task is being executed under an armed timeout until shutdown.
RunningIsGuarded ==
  \A t \in Tasks : state[t] = "RUNNING" =>
    phase[t] = "executing" /\ (intervals => t \in timers)

\* A task recorded as DONE was reported as completed, and as nothing else.
DoneReportedOnce ==
  \A t \in Tasks : state[t] = "DONE" =>
    phase[t] = "ended" /\ answers[t] = {"completed"}

\* A free channel has an empty queue, unless a task that was aborted while it
\* waited was cleaned up before its turn: executeTask then returns early.
Stalled(c) == \E t \in Tasks : ChannelOf[t] = c /\ phase[t] = "skipped"
IdleOnlyWhenDrained ==
  \A c \in Channels : processing[c] \/ queue[c] = <<>> \/ Stalled(c)

\* Every accepted task is answered, unless its channel stalled that way.
EventuallyAnswered ==
  \A t \in Tasks : state[t] = "PENDING" ~>
    (answers[t] # {} \/ Stalled(ChannelOf[t]))

\* Seen from outside, each channel is a FIFO server (PerChannelQueue's header).
FIFO == INSTANCE ChannelServer WITH
  line     <- queue,
  serving  <- {t \in Tasks : phase[t] = "executing"},
  seen     <- {t \in Tasks : state[t] # "ABSENT"},
  Capacity <- MaxQueue

ServesInOrder == FIFO!Spec

-----------------------------------------------------------------------------
(* What comments and documents say and the code does not do                *)

\* abortTask: "Remove from queue if pending".  An aborted task is not started.
AbortedNotStarted ==
  [][\A t \in Tasks : state[t] = "ABORTED" /\ phase[t] = "idle" =>
       phase'[t] # "executing"]_vars
=============================================================================
