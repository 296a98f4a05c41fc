# Moonbot in TLA+

A verification development for the Moonbot agent gateway (TypeScript under
`src/src`). It models the parts of the program where the difficulty is in the
order of events: a single JavaScript event loop in which every `await` lets
other handlers, timers and callbacks run. Paths below are relative to the
repository root.

## 1. Inventory

| Part | Source | State it keeps | Operations | Talks to |
|---|---|---|---|---|
| Task orchestration | `src/orchestrator/TaskOrchestrator.ts`, `PerChannelQueue.ts`, `TaskRegistry.ts`, `SessionTaskMapper.ts` | tasks and their states, a queue and a busy flag per channel, timeout timers, session-to-task map | `createTask`, `executeTask`, timeout, `abortTask`, `cleanup`, `shutdown`, mapping expiry | executor (awaited promise), response callbacks, gateway and cron (callers) |
| Approval coordination | `src/orchestrator/ApprovalFlowCoordinator.ts` | pending approvals | requested, resolved, `grantApproval`, expiry | tool runtime events, registry, `processChannel` |
| Tool runtime | `src/tools/runtime/ToolRuntime.ts`, `ToolExecutor.ts`, `ApprovalManager.ts`, `ToolRegistry.ts` | registered tools, invocations, running count, approvals file | `register`, `invoke`, execution against a timeout, `approveRequest`, `cleanup`, `shutdown` | executor (caller), tools (promises) |
| Approval store | `src/tools/approval/ApprovalStore.ts`, `ApprovalFlowManager.ts` | requests in memory and in a file | request, response, expiry, each reloading the file | surface handlers |
| Gateway | `src/gateway/server.ts`, `json-rpc.ts`, `handlers/*` | sockets and their authentication | connect, RPC dispatch, broadcast, stop | everything above |
| Node communicator | `src/gateway/NodeCommunicator.ts` | pending requests by correlation id | send and wait, response, timeout, disconnect, stale sweep | node sockets |
| Nodes | `src/tools/nodes/*` | pairing codes, nodes, consent, remote sessions | pairing, reconnection, consent, expiry, commands | communicator |
| Agents | `src/agents/*` | recovery attempts per step, global start time | plan, execute steps, retry, alternative, replan | tool runtime |
| Tool sessions | `src/tools/process/*`, `claude-code/*`, `browser/*` | sessions, per-user counts, locks | create, write, poll, kill, remove, expire | PTY, browser, nodes |
| Chat sessions | `src/sessions/manager.ts` | messages in memory and in a JSONL file | create, append, compact, load | orchestrator |
| Cron | `src/cron/manager.ts` | jobs, one timer per job | add, start, stop, remove, fire | orchestrator |
| Channel client | `src/channels/GatewayClient.ts`, `discord.ts`, `slack.ts` | socket, pending calls, reconnection counter | connect, call, close, reconnect | gateway |
| Rate limit, pairing | `src/gateway/ConnectionRateLimiter.ts`, `src/auth/pairing.ts` | attempt timestamps, codes, used codes | check, approve, cleanup | gateway |
| Language models, file, HTTP and shell tools, configuration, command line, logging | `src/llm`, `src/tools/{filesystem,http,desktop,policy,schemas}`, `src/config`, `src/cli`, `src/utils` | none shared between calls | | |

What is hard in each, and what makes it correct:

- **Orchestration.** `createTask`, the end of an execution, timers, aborts,
  approvals and clean-up interleave at every await, and most of them act on "the
  head of the queue" without naming a task. Correct means: one execution per
  channel, in arrival order, at most one per message, none lost, every one
  answered, and nothing left armed after its end.
- **Tool runtime.** A slot count changed in four places, a race with a timer that
  does not cancel the loser, approval that starts a tool outside the limit
  check, clean-up and shutdown with calls in flight. Correct means: the limit
  bounds what runs, each invocation runs once and settles, status and call agree.
- **Approval store.** Every operation reloads the shared map while others are
  between a change and its write. Correct means: a request is answered once and
  an answer is not forgotten.
- **Nodes and communicator.** Pending requests against timeouts, disconnects and
  sweeps; codes against limits and expiry. Each request settles once; the limit of
  nodes is stretched by open codes only.
- **Agents.** One replanner shared by concurrent executions. Recovery is bounded
  for each execution.
- **Tool sessions.** Counts read before an await and written after it; exit
  events against kill; locks on sessions that disappear.
- **Chat sessions.** The file must load to the messages in memory.
- **Cron, channel client, rate limit.** Timers of replaced jobs; events of stale
  sockets; a window that never admits more than its maximum.

`PROJECT.json` lists the individual hazards with their lines.

## 2. Plan

The modules, in the order in which they were planned and written:

1. `TaskOrchestrator` (orchestrator, queue, registry, mapper and approval
   coordinator composed), with `ChannelServer` as its abstract specification.
2. `ToolRuntime`, with `Admission` as its abstract specification.
3. `ApprovalStore`: file, map and manager split at their awaits, with the two
   surfaces that show a request.
4. `Nodes`: session manager, communicator and executor composed, with `NodeCalls`
   as the abstract specification of what their callers see.
5. `Recovery`: executions over one shared limiter; `PathReplanner`: the plan
   check against a reference definition.
6. `ProcessSessions` (terminal and Claude sessions composed) and
   `BrowserSessions`.
7. `ConnectionRateLimiter`, and `ChannelLink`, which composes it with the two
   ends of an adapter's connection.
8. Proofs in modules of their own.

Every safety property the passing runs check, invariants, action properties and
refinements, is proved by now (section 5). What is left: an abstract specification
of the approval store, and the composition of `ChannelLink` with
`TaskOrchestrator`, which have one variable (the task of a message) in common.

There is one passing run for each question, and a violation run only where the
code contradicts one of its own comments or documents.

## 3. Modules

| Module | Models |
|---|---|
| `ChannelServer` | abstract specification: a bounded line per channel, at most one task in service, the front one |
| `TaskOrchestrator` | orchestrator, queue, registry, mapper, approval coordinator; its properties |
| `MCTaskOrchestrator` | instances: three tasks on one channel and possibly one on another |
| `Admission` | abstract specification: places under a limit, taken before a tool runs and kept until the invocation is over |
| `ToolRuntime` | tool runtime, executor, registry, approval check; its properties |
| `MCToolRuntime` | instances: two checked and two unchecked invocations |
| `TaskOrchestratorProofs` | what holds for either wiring |
| `GatewayProofs` | what holds without approval events; `TaskOrchestrator` implements `ChannelServer` |
| `ToolRuntimeProofs` | invariants of the tool runtime, which implements `Admission` |
| `ApprovalStore`, `MCApprovalStore` | approval requests on file, in memory and on two surfaces |
| `ApprovalStoreProofs` | what holds of a request that no stale read or failed write has disturbed |
| `NodeCalls` | abstract specification: calls with a bounded number of attempts to nodes that go down and come back |
| `Nodes`, `MCNodes` | pairing, nodes, consent, requests to nodes and their retries |
| `NodesProofs` | invariants and the action property of `Nodes`, which implements `NodeCalls`; how far a call is from its end, and a user from the limit of nodes |
| `Recovery`, `PathReplanner`, `MCRecovery` | planning, execution and recovery; the plan check |
| `RecoveryProofs` | the budgets of recovery, what success means, and that the plan check is right |
| `ProcessSessions`, `BrowserSessions`, `MCToolSessions` | terminal, Claude and browser sessions |
| `ToolSessionsProofs` | nothing runs without the managers' knowledge before they have tried to end it, their counts, the lock on a page, and what it takes to spoil these |
| `ConnectionRateLimiter` | the sliding window |
| `ChannelLink`, `MCChannelLink` | client and gateway over connections that break |
| `ChannelLinkProofs` | one link at a time, and the limit of every window of one rate limiter |

Definitions marked `(fault)` are not part of any specification. Each is a
plausible slip in the definition that follows it, kept to show that some
property would notice.

### TaskOrchestrator

One action is one synchronous run of the event loop. `state` is the registry
(`ABSENT` before `create`, `PURGED` after `cleanup`); `queue` and `processing`
are the two maps of `PerChannelQueue`; `phase` is where the `executeTask` call of
a task is; `timers`, `mapped`, `approvals` are `processingTimers`, the mapper's
entries and the pending approvals; `answers` collects the *final* responses
(`completed` or `failed`); `intervals` says whether the housekeeping intervals
still run.

`ProcessChannel` is `processChannel` together with the synchronous part of
`executeTask`. It takes the values its caller has already computed, because
`createTask`, `finally` and a granted approval all call it at the end of a
longer synchronous run: it leaves the channel alone, starts the head, or skips a
head the registry no longer knows. `ExecutionReturns` and `ExecutionThrows` are
the continuation of the awaited executor with the `catch` and the `finally`.
`AbortTask` has no effect on the queue: the code tests `task.state` after
`updateState` has changed it, so both branches are dead.

Abstractions: a session is created for every execution (the lookup by channel
session id never finds one), so a session stands for its task; time is left
out, so timers and expiry may happen at any moment; a task id is used once;
`pending` notices, texts, events and logs are left out. `clear` and `remove` of
the queue and `cancelTaskApprovals` are never reached.

`Wired` says whether approval events reach the coordinator. In the gateway they
do not: `src/gateway/server.ts` constructs the orchestrator without a tool
runtime, and the runtime emits `approval.requested` and `approval.resolved`
where the coordinator listens to `approvalRequested` and `approvalResolved`. So
`Wired = FALSE` is the program as it is deployed, and `Wired = TRUE` is what its
tests construct with a stub runtime. Requests are then those an execution under
way can cause; the executor does not wait for the answer, so answers arrive
during or after the execution.

### ToolRuntime

`record` is the status in the invocations map, `call` where the invocation's
call is, `bodies` the `tool.run()` promises that have not settled, `policyOK`
whether the approvals file last loaded has the fields `createContext` reads.
Patterns and allowlists are left open: a check passes, parks or throws. Calls
that change nothing (unknown tool, limit reached, wrong status) are stuttering
steps. Only `system.run` is ever checked, so `Gated` is `{system.run}` or empty.

### ApprovalStore

An operation of `ApprovalFlowManager` is an element of `Operations` with a stage:
it has begun to *read* the file, has *changed* the map, is *writing*, or is
*updating* the surfaces. `Load` is `load()`: the shared map becomes what this
operation read, however long ago. `Save` is `save()` up to the truncation by
`writeFile` (the file is `Torn`, and a reader who comes then gets an empty map);
`EndWrite` is its end, and writes that overlap may leave garbage. `message` is the
Discord embed or the Slack blocks of a request with the reference under which it
can be edited, stored only after sending. `Crash` forgets the memory and keeps
the file as it is. `SaveFails` is a `save()` that rejects: the map keeps the change,
the file is the old one or torn, and the caller gets the error.

The embed of a Discord message changes by `sendUpdate` only; its text is rewritten
by the button's own handler as well. `HandleInteraction` is that handler up to
`approval.respond`, whose result, taken or refused, it waits for
(`Returned`); `UpdateInteraction` then says that the answer of the button has been
recorded, whatever the result was, and removes the buttons; `InteractionFails` is an
error on the way. `claim` is what the text says and whether the answer was taken.

`disturbed` records the requests whose state a stale read or write, or a failed
one, has replaced. The properties say what holds of all others, which shows that
nothing but this harms a request. `ShownHolds` speaks of what `sendUpdate` makes of a
message, and of the text where the answer was taken. Where it was refused the text is
wrong (section 4). The manager is constructed only in tests, its adapters are
connected only there, and `expirePending` has no caller: the model is of the
component as its tests put it together.

### Nodes

`codes`, `node` and `counts` are the maps of `NodeSessionManager`; `pending` and
`stamped` are `pendingRequests` and `pendingRequestTimestamps` of
`NodeCommunicator`; `call` is a `NodeExecutor` operation: idle, waiting for its
request, resting before a retry, ended. A call has at most one request, so it
stands for the correlation id. `find()` on a map returns the oldest entry, hence
`Oldest`: a socket that several nodes named marks only one of them offline.
`counts` is `userNodeCount`, which nothing in the code reads: `RequestCode`
(`generatePairingCode`) compares the user's nodes themselves with the limit, and
pairing does not compare again.

Two constants say how the parts are wired. `Shared`: the toolkit has the session
manager of the gateway (it constructs its own, so as deployed no call finds a
node). `Routed`: messages of nodes reach `handleNodeResponse` (which has no
caller, so as deployed each request ends by its timer or with the socket). The
run has both TRUE, which gives all the behaviours of the other values and more;
the theorems hold for all values. Consent is read when a capture begins and not
before a retry, as in the code. What a node does with a request is outside.

To its callers all this is `NodeCalls`: `Service` maps the stage, the node and the
remaining attempts of each call, and the nodes marked offline. An action of
`Nodes` is then an attempt, an answer, a failure of one call (its timer, a socket
that is gone) or of several (the sweep, shutdown), a node that goes down with
everybody who waits for it, nodes that come back or expire, or nothing.

### Recovery and PathReplanner

`exec` is where each execution is; `attempts` the shared `RecoveryLimiter`, by
step id; `late` says that the global timeout has run out since the last `reset`.
The plan of an execution is any that the answer of the model (JSON, tool call
markup, neither) or the keywords of the message give. An error is the set of
telling words in its text, which `ClassifyFailure` looks up in the order of the
code: a text with "timed out" but without "timeout" is TIMEOUT, one with
"timeout" is NETWORK. A step that waits for an approval counts as a success, as in the code.
`cleared` counts how often another execution has cleared the attempts of the
current step; `RecoveryBounded` gives a fresh budget for that and for
nothing else.

`PathReplanner` follows the depth-first search `hasCycle`, with a visited set
and a stack that survive from root to root. The recursion is unfolded: `path`
holds the calls that have not returned, innermost last, and a turn of the loop
over `dependsOn` or a return is an action. The verdict of `validateNewPlan` is
compared with what it means to be able to run a plan: every tool is known, and in
every set of steps there is one that waits for none of the others. Dependencies on
steps that are not in the plan are included. The production path calls neither;
they are exported and tested.

### ProcessSessions and BrowserSessions

A creation reads both per-user counts, awaits (the search for the command line
tool, the import of node-pty, the node) and writes what it read plus one:
`Register`. `raced` collects the users for whom that was stale because a session
came or went meanwhile, or one of whose node sessions was stopped twice at once;
the counts and limits are right for all others.

`Killed` is the set of what `killSession` may make of a session: the signal is sent,
or the kill fails with an error event (which the manager takes for the exit of a
process that still runs), or it just fails and the entry stays as it was. `ending`
says which attempts there have been: none (`untried`), only failed ones (`failed`), or
one after which no further kill is tried (`final`). `Removed` is `removeSession`: a
session that still runs in the eyes of its entry is sent SIGKILL, and the entry goes
whatever comes of that. `exited` and `killed` are one status. Output matters as
activity alone (`appendOutput` sets `lastActivityAt`), and a process prints as
often as it likes.

The Claude manager keeps a process session of its own for each of its sessions,
and a placeholder for those on nodes. `StopSession` drops the Claude session in the
step that tries to kill the local process, whether that succeeds or not; then the
process session keeps it until it expires. A stop of a remote session is awaited
and may fail; the record is dropped either way, and the session is then `lost`, as one
is that did not get its placeholder.

In `BrowserSessions` a start stands for the id of its session. `PollLock` sees
the flag of the session found at first, `Unlocked` clears that of the session
the key means now, and `Closed` drops whatever the key means. `spoilt` collects
the keys for which these differed. The gateway does not enable the browser;
`cleanupExpired` has no caller.

### ConnectionRateLimiter and ChannelLink

An attempt is kept as its age. `recent` is the ghost of the map: the checks that
passed within the window, whatever clean-up did to the entries. An entry is in
the order of time, so the code's filter drops a prefix: `Expired` chooses its
length, and TLC would report a state where there is none. `Window` and `Limit`
are given for each key, so that a run may have keys of limiters configured
differently; in the gateway there is one limiter and both are constant. A limiter,
its maps and its history are as old as the process of the gateway: `StartGateway`
begins with new ones, `StopGateway` leaves them alone. A window in which the gateway
is started again is therefore nobody's, in the code as in the model.

`ChannelLink` has the client (`ws`, `_isConnected`, the reconnection counter and
timer, `intentionalClose`) and the gateway (down, listening, ready) with its end
of each socket. The close event does not ask which socket it came from, and a
socket that is not the current one may still open; `overlapped` says that
`connect()` was called while an earlier socket or timer was there, which is when
this matters. A token is absent, wrong or right; the adapters of the repository
send none, so with tokens configured they are *stranded*: the handshake fails, the
socket stays open and nobody tries again. The same happens when the handshake
arrives before the handlers are registered (`MethodNotFound`). `clients` is left
out: nobody reads what it holds.

## 4. Runs

| Run | Shows | Bounds and why they are enough |
|---|---|---|
| `orch_gateway` | as deployed: channels are served one task at a time and in order (also as refinement of `ChannelServer`), nothing pending is lost, RUNNING tasks are guarded by a timeout, DONE means reported as completed once | 3 tasks on one channel and 1 on another, queue of 2: full queue, refusal, a waiting task behind a running one, independence of channels |
| `orch_liveness` | every accepted task is answered; a free channel is empty; both with one exception (below) | 3 tasks on one channel, queue of 3: the exception needs a runner, a purged task behind it and a third |
| `orch_approvals` | with approval events: types, queued tasks are unstarted, nothing outlives its execution, ended means answered, one execution per message | 3 tasks, queue of 2, 2 pending approvals for each task: denial of one request while another of the same task, or a task behind it, is open |
| `tool_runtime` | the ledger of `runningCount`, the limit, agreement of status and call, one run per invocation, settling | limit 2, 2 checked and 2 unchecked invocations: both slots leaked, refusal, late results, approval at the limit |
| `nodes` | a caller waits just as long as both maps hold its request, callers get what `NodeCalls` promises (refinement), node counts and names agree with the nodes, a code pays for each pairing, every call ends | 2 users, 2 sockets, 2 codes, 2 nodes, a name that returns, 2 calls, of which one has a command that is refused, 1 retry, consent asked of the first node only: two nodes on one socket, pairing again while a call waits, sweep against timer, shutdown with a call resting |
| `approvals` | one verdict for each request, what was announced is on file, surfaces show what is on file | 2 requests (on both surfaces, on none), 3 operations, all of which may be under way at once, 2 faults (a crash or a save that fails): a request and two answers, or an answer and an expiry, with a torn file or a stale map between any two of them |
| `recovery` | retries and changes of tool within the budgets, success means that every step was settled, executions end; the plan check accepts exactly the plans that can be run | 2 executions with the same or with different step ids, 1 retry, 2 alternatives among tools that are each other's alternative, 3 kinds of errors; every graph of 3 steps, dangling dependencies included, where the first step has no tool, a known or an unknown one |
| `tool_sessions` | counts and limits of both managers, nothing out of sight that nobody has tried to end, one use of a page at a time, slots come back except those of sessions that are active for ever | 1 terminal, 1 local and 1 node session of one user, limits 2 and 1, 2 stops at once; 3 starts, 2 uses and 2 closes on 2 keys: two starts of one key, a close under a use and a waiter |
| `channel_link` | one link at a time and a true picture of it, no limiter lets more than the limit pass in a window, the link comes back | 2 sockets, 1 message, 1 reconnection attempt, 2 `connect()` calls, 1 fault (a break, a stop of the gateway or a connection of somebody else), 1 attempt in 1 tick for its keys; a key with 2 in 3 ticks alone |
| `orch_abort` | violation: an aborted task is started | |
| `orch_denial` | violation: a denial lets two executions of one channel overlap | |
| `tool_count` | violation: the running count is not the number of running invocations | |

Bounds in guards: `MaxApprovals` caps the pending approvals of a task,
`MaxNodes` the nodes ever created, `MaxBegun` and `MaxFaults` the operations and
the restarts and failed saves of `ApprovalStore`,
`MaxStops` the stops of one session at a time, `OneConsents` the nodes asked for
consent and `OneToolVaries` the steps of a checked plan that name a tool, `MaxConnects` and the `MaxFaults` of `ChannelLink` what
happens to a link. `MaxQueue`, `MaxConcurrent`, `MaxPerUser`, `MaxRetries`,
`MaxAlternatives`, `MaxSessions`, `MaxClaude`, `MaxReconnects`,
`Window` and `Limit` are configuration values of the code.

Symmetry: tasks of one channel are interchangeable in `orch_gateway` and
`orch_approvals`, operations in `approvals`; runs with liveness properties use
none. Two runs combine components that share no state (`tool_sessions`, the plan
check in `recovery`, the key with the larger window in `channel_link`): each behaviour is then
of one of them, since interleaving them would show nothing more. Deadlock is
checked for `tool_runtime` only: everywhere else the identifiers or
bounds are used up in the end and the instance stops.

Fairness. `TaskOrchestrator` assumes only that `executor.execute()` settles: its
tools have timeouts and its recovery is bounded (`EveryExecutionEnds`, which
assumes that the model and the tools answer). `ToolRuntime` assumes that
timers fire and that reading the approvals file ends. `Nodes` assumes that the
timers of requests and of `sleep()` fire; `ProcessSessions` that time passes, the
clean-up interval fires and calls of nodes end (`EveryCallEnds`); `ChannelLink`
that time passes, the reconnection timer fires and connections do not hang.
Nothing is assumed of users, tools, nodes, approvals or housekeeping other than
that, and nothing of processes: they need not end, and may print for ever, which is
the exception of `SlotsComeBack`. In particular the answer to a task comes from the execution, never from
the timeout, which only reports.

### What the violations say

- **Abort** (`TaskOrchestrator.ts:222`). "Remove from queue if pending" never
  happens; an aborted task stays queued and runs. For a running task the
  channel stays busy until the executor returns, and the user then gets a
  "completed" answer after the "failed" one.
- **Denial** (`TaskOrchestrator.ts:95`). The clean-up callback frees the channel
  of an execution that is still running. The next message runs beside it, and
  the two `finally` blocks dequeue twice.
- **Count** (`ToolExecutor.ts:132`). A parked invocation keeps its slot for ever,
  an approved one too. After `maxConcurrent` of them the runtime refuses
  everything. The same leak is what keeps `WithinLimit` true: approval does not
  consult the limit, and the slot kept while parked is its reservation.
  Repairing one without the other would break the limit (the `ParkAndRelease`
  fault shows it).

Met on the way and documented in the properties rather than in runs of their
own: a task aborted while it waits and cleaned up before its turn makes
`executeTask` return early without starting the next task (the `Stalled`
exception of `IdleOnlyWhenDrained` and `EventuallyAnswered`); an expired approval
leaves its task PAUSED; a tool that lost against its timeout keeps running, so
`maxConcurrent` bounds invocations in flight, not tool bodies; a malformed
approvals file makes `execute` and `approveRequest` throw after taking a slot; the
handler of a Discord button says "has been recorded" also when the answer was
refused, because the request was resolved or had expired (`discord.ts:219`), for which
no race is needed: let `UpdateInteraction` follow a click on a request that is already
decided, and the message says what the file does not. `ShownHolds` excepts refused
answers for this reason (`claim[r].taken`).

Likewise the exceptions named in the newer properties are the places to look at:
`disturbed` (an operation of the approval store writes back what another has
changed, or its write fails), `final` and `lost` (a process or remote session that the
managers let go of although it may still run), sessions that are active for ever
(their slots do not come back), `raced` (a count read before an await), `spoilt` (a page replaced or
closed under its user), `Budget` (an execution resets another's recovery),
`Stranded` and `overlapped` (a failed handshake, a second `connect()`). Without
its exception each of these properties is violated.

## 5. Proofs

All theorems hold for every value of the constants under the named assumptions
of their modules (types of the constants, queue limit positive, finitely many
invocations). Further assumptions are stated in the theorems themselves: those of
`GatewayProofs` assume `~Wired`, the program as it is deployed; `OneLinkEach`
assumes that a client has finitely many sockets, and `OneLinkForGood` also that
`connect()` is called once; `CodesStretchLimit` that a user never has more than
`k` codes open; `OnlyRacesDisturb` that operations of the
approval store do not overlap, that no save fails and that no crash leaves a torn
file;
`OnlyAbortsStall` speaks of behaviours without `abortTask`; `OnlyOverlapsMiscount`
of those in which no session of a user comes or goes while another is created for
that user (`InTurn`) and none is stopped again while it is being stopped; and
`OnlyOverlapsSpoil` of those in which a start or close of a page overlaps with
nothing else on its key (`NothingOverlaps`). Those of `OneLinkForGood` and of the
four theorems whose names begin with `Only` say how small the exception
of a checked property is; the property itself is proved without them.

**Either wiring** (`TaskOrchestratorProofs`). `QueuedUnstarted` is not
inductive: `ProcessChannel` acts on a queue and busy flag halfway through a
larger step. The invariant `IInv` is therefore built from operators that take
these values as parameters (`Line` on the current state, and on what a caller
passes), and one lemma, `ProcessChannelKeeps`, shows that `processChannel` keeps
it whatever the caller; each action then only has to show that the values it
passes are good. The strengthening says that a channel that is not busy has only
unstarted tasks queued, that a task not yet created has not been started, and
that every queued or executed task the registry is done with has been answered.
From it follow `TypeOK`, `QueuedUnstarted`, `ScopedToExecution`,
`AnsweredWhenEnded` and, as an action property, `ExecutedAtMostOnce`.

**The gateway** (`GatewayProofs`). The invariant adds that the busy flag is set
exactly while the head executes (`ServiceOK`), pending tasks are queued (`Kept`),
running tasks are guarded, terminal states match the answers (`Reports`), and
nothing is ever paused (`NoPause`, which is where `~Wired` enters).
`IdleOnlyWhenDrained` is inductive next to it: the two places that clear the busy
flag are `processChannel` on an empty queue and the end of an execution, which
calls it; the exception (`Stalled`) is its early return on a purged head.
`OnlyAbortsStall` shows what that takes: in behaviours without `abortTask` every
unstarted task in a queue is PENDING (`Awaited`), so `processChannel` always starts
the head and no channel stalls.

**Refinement** (`GatewayProofs`). Under the mapping queue, executing tasks,
tasks ever created, every step is a step of `ChannelServer` or stutters:
`createTask` arrives or is turned away, an execution that ends lets the line
proceed, and everything else is invisible. A bound on the queue lengths turns
the code's `>=` into the abstract `=`.

**Tool runtime** (`ToolRuntimeProofs`). The conjunction of the four checked
invariants is inductive. The ledger is an equation between the count and three
cardinalities; each action changes the three sets by at most one element. The
limit follows because the reserved invocations never outnumber the count, which
needs the agreement of status and call: only a parked invocation is approved.
`ImplementsAdmission` maps the invocations in flight or parked to the places of
`Admission`, those whose tool may run to the running ones, and those that have
settled, were denied or threw to the ones that are over. What makes `invoke` an
`Admit` is that the count it compares is never below the places taken
(`RoomBelowLimit`); everything else follows from where an invocation goes
(`MovesTo`), and clean-up, shutdown and late results are invisible.

**Nodes** (`NodesProofs`, for either value of `Shared` and `Routed`). `WaitInv`
speaks of calls and requests, `NodeInv` of codes, nodes and counts; most actions
touch one half, and lemmas say which. `WaitersTracked` needs that a call names a
node as soon as it has begun (`Aimed`). `CountsAgree` is kept because a re-pairing
changes neither user nor name of a node, a new pairing adds one node to one
user, and an expiry takes from each count as many as it takes nodes.
`NoneWaitsOffline` joins the halves: a node is marked offline in the step that
rejects its requests, and a request starts only for a paired node.
`PairingSpendsCode` is proved action by action.
`CodesStretchLimit` says what the limit of nodes comes to: it is compared with the
nodes when a code is asked for and not when the code is spent, so a user whose open codes
are never more than `k` has at most `k - 1` nodes too many. The invariant
(`LimitInv`) is that nodes and open codes together are at most `MaxPerUser + k - 1`.

`ImplementsCalls` shows the refinement action by action. What it needs from the
invariant is that a request that fails belongs to a waiting call, that the node
of a waiting call is not offline, and that a step which rejects requests marks
exactly the nodes they wait for. `CallsGoForward` gives each call a rank (its
attempts and its stage) that no step raises and every step of the call lowers.
It is the safety half of `EveryCallEnds`: a call is at most `2 * MaxRetries + 3`
steps from its end, and fairness only has to make it take them.

**Sessions** (`ToolSessionsProofs`). `NothingEscapes` is not inductive: removal
signals a process only if its entry says it is running. The invariant adds that
a live process that a kill is still to be tried on is in the map *as running*
(`Sound`), and that only node sessions have stops pending and remote sessions. Of
what was given up, with `ending` final or `remote` lost, it says nothing. What each operation
does to one session is shown `Tame` by itself, and the steps follow from that.
`CountsAgree` needs an invariant on the creations under way (`UnderWay`): what one
has read is below the limits and, unless its user raced, still the count when it
is written back plus one; and it has entered nothing yet. Only finitely many
sessions are ever kept (`FewKept`), however many calls there are, so cardinalities
can be counted up and down. `OnlyOverlapsMiscount` shows the exception to be
minimal: if the sessions of a user are the same while a creation waits, so are
their numbers, which are the counts, so that what was read is still true when it is
written back (`Raceless`).

**Browser** (`ToolSessionsProofs`). The invariant of a key that is not spoilt
(`Lent`): users and waiters have the session of the key, which is listed; one
uses it; the flag is set just then. Calls act on sessions of their own key
(`Holds`), so other keys, and spoilt ones, cannot disturb it (`OthersKeep`).
`OnlyOverlapsSpoil` shows that waiting, timing out and releasing never spoil a
key: if starts and closes take their turns, a key has no session while a page is
opened for it, and means the one being closed or none (`Orderly`).

**Approval store** (`ApprovalStoreProofs`). No property is inductive, and most
of the state is in flight: each operation carries a copy of the file it read or is
about to write. The invariant (`AInv`) follows one request that is not
`disturbed`. *Consistent*: what any operation has read of it is an earlier status
of what the map and the file hold, so a decided status is never decided again.
*Engaged*: at most one operation enters a request and at most one answers it, and
what an operation has decided is in the map. *Told*: what was announced or shown is so in the map and, while the file
is whole, in the file. `OneVerdict`, `AnnouncedIsOnFile` and `ShownHolds` are what
the invariant says of requests nobody is about to disturb. `OnlyRacesDisturb`
shows that this exception is as small as it should be: without overlapping
operations, failing saves and torn writes no request is disturbed, across any number
of crashes.

**Recovery** (`RecoveryProofs`). Attempts are shared by step id, and another
execution may clear them in the middle. The invariant (`Fine`) pays for what a
step has used: one whole budget for each time it was cleared, plus what is on
record now (`Covered`), which the limiter keeps within the limits (`Within`). That
a step has no alternative twice is what bounds the changes of tool. The same
invariant says that the steps before the current one are settled, from which
`SuccessIsComplete` follows.

**Plan check** (`RecoveryProofs`). `ValidMeansRunnable` is about a recursive
search, for plans of any size. Because the model has the open calls as state, an
invariant takes the place of induction over the recursion: the open calls are a
chain of dependencies and are what the stack holds; the steps that have been left
can be put in an order in which each depends on earlier ones only, and a return
adds the step to that order; a dependency on a step that is on the stack closes a
circle; and an error, once found, stands. So no circle is missed because an earlier
root has marked a step, and none is reported that is not there, although a circle
that was found leaves its path on the stack.

**Link** (`ChannelLinkProofs`). Most operations only end calls, close sockets and
clear the flag, which cannot break `OneLink`; one lemma (`Quieter` calls) serves
them all. The strengthening says that a client told to leave has no live socket,
that a message not yet queued by the gateway was not posted, and that a request
still travelling was not served, which is why no reply is posted twice.
`OneLinkForGood` discharges the property's exception for a client that is connected
once, whatever reconnections follow.

**Rate limiter** (`ChannelLinkProofs`). `WindowHeld` speaks of the ghost, the
history of one limiter, and so of windows within one life of the gateway's process. The
invariant is that the ghost is what the filter leaves of the entry
(`recent[k] = Recent(k, limiter[k])`), in the order of time; the lemmas say that
filtering twice is filtering once and that filtering before time passes makes no
difference, so neither clean-up nor the moment of a check matters.

**Model-checked only.** The liveness properties (`EventuallyAnswered`,
`EventuallySettles`, `EveryCallEnds`, `EveryExecutionEnds`, `SlotsComeBack`,
`LinkComesBack`), which are beyond the prover: they rest on fairness and ENABLED.
And what the violation runs refute.

## 6. Not modelled

The parts marked `not_modelled` in `PROJECT.json`, with reasons there:

- **Chat sessions, cron, pairing of channel users** (`src/sessions`, `src/cron`,
  `src/auth/pairing.ts`): their stateful operations have no caller outside the
  tests, or write what nothing reads.
- **File, HTTP and desktop tools, schemas, command validation**: functions of
  their arguments without state between calls; what they accept or refuse is
  left open where another module depends on it.
- **Prompts, HTTP calls of the language model clients, command line,
  configuration editing (`channel.*` handlers), logging, the stand-alone Discord
  bot**: text and I/O.
- Within the modelled parts: texts and output, times (anything that depends on a
  clock may happen at any moment, except in the rate limiter), and operations
  without a caller, each named in the notes of `PROJECT.json` or above.
