--------------------------- MODULE ProcessSessions ---------------------------
(***************************************************************************)
(* Terminal sessions: ProcessSessionManager with PtyWrapper, and           *)
(* ClaudeCodeSessionManager, which keeps a process session of its own user *)
(* for every Claude session, with the process.* and claude_code.* tools.   *)
(*                                                                         *)
(* A call creates at most one session, so it stands for the session's id.  *)
(* A step is one run of the event loop: awaits that wait for nothing but   *)
(* settled promises do not end it.                                         *)
(*                                                                         *)
(* Definitions marked (fault) are plausible slips, as in TaskOrchestrator. *)
(***************************************************************************)
EXTENDS Naturals, FiniteSets

CONSTANTS
  Users, Anonymous,
  Calls,        \* creations, each made at most once
  UserOf, KindOf,
  MaxSessions,  \* maxSessionsPerUser of ProcessSessionManager
  MaxClaude,    \* maxSessionsPerUser of ClaudeCodeSessionManager
  MaxStops      \* bound: stops of one session at a time

Kinds == {"exec", "exec_pty", "claude", "claude_node"}

ASSUME AnonymousIsUser == Anonymous \in Users
ASSUME UserOfType      == UserOf \in [Calls -> Users]
ASSUME KindOfType      == KindOf \in [Calls -> Kinds]
ASSUME BoundsType      == {MaxSessions, MaxClaude, MaxStops} \subseteq Nat

VARIABLES
  stage,        \* how far each creation is
  seen,         \* the counts a creation under way read when it began
  proc,         \* ProcessSession of each call, and its process
  procCount,    \* ProcessSessionManager.userSessionCount
  claude,       \* ClaudeCodeSession of each call
  claudeCount,  \* ClaudeCodeSessionManager.userSessionCount
  remote,       \* the session on the node, for screen capture
  pty,          \* the import of node-pty
  cli,          \* claudeCliAvailable
  raced         \* (history) users whose counts a stale or double update has spoilt

sessions == <<proc, procCount, claude, claudeCount, remote>>
creation == <<stage, seen, pty, cli>>
vars == <<creation, sessions, raced>>

\* "ended" is exited or killed; alive is the process itself, kept the entry in
\* the map, overdue an inactivity that cleanupExpired does not forgive.  The
\* handle is dropped by the exit event, so it is there while alive.  ending is what
\* came of the attempts to end a live process: "failed" if no kill had any effect,
\* "final" if no further kill will be tried, since a signal was sent or the manager
\* has given the process up.
ProcRecord == [status : {"none", "running", "ended"}, alive : BOOLEAN, kept : BOOLEAN,
               ending : {"untried", "failed", "final"}, overdue : BOOLEAN]
NoProc == [status |-> "none", alive |-> FALSE, kept |-> FALSE,
           ending |-> "untried", overdue |-> FALSE]
Spawned == [NoProc EXCEPT !.status = "running", !.alive = TRUE, !.kept = TRUE]

ClaudeRecord == [kept : BOOLEAN, stale : BOOLEAN, stops : 0 .. MaxStops]
Unread == [procs |-> 0, claudes |-> 0]
NoClaude == [kept |-> FALSE, stale |-> FALSE, stops |-> 0]

TypeOK ==
  /\ stage \in [Calls -> {"idle", "cli", "remote", "loading", "done"}]
  /\ seen \in [Calls -> [procs : Nat, claudes : Nat]]
  /\ proc \in [Calls -> ProcRecord]
  /\ procCount \in [Users -> Nat]
  /\ claude \in [Calls -> ClaudeRecord]
  /\ claudeCount \in [Users -> Nat]
  /\ remote \in [Calls -> {"none", "live", "stopped", "lost"}]
  /\ pty \in {"unloaded", "loading", "settled"}
  /\ cli \in {"unknown", "found", "missing"}
  /\ raced \subseteq Users

Init ==
  /\ stage = [o \in Calls |-> "idle"]
  /\ seen = [o \in Calls |-> Unread]
  /\ proc = [o \in Calls |-> NoProc]
  /\ procCount = [u \in Users |-> 0]
  /\ claude = [o \in Calls |-> NoClaude]
  /\ claudeCount = [u \in Users |-> 0]
  /\ remote = [o \in Calls |-> "none"]
  /\ pty = "unloaded"
  /\ cli = "unknown"
  /\ raced = {}

IsClaude(o) == KindOf[o] \in {"claude", "claude_node"}
UsesPty(o)  == KindOf[o] \in {"exec_pty", "claude"}
User(o)     == UserOf[o]
Kept(u)     == {o \in Calls : proc[o].kept /\ User(o) = u}
KeptClaude(u) == {o \in Calls : claude[o].kept /\ User(o) = u}

\* (fault) the count is always lowered
Minus(n, k) == n - k

\* A count of one or less is deleted, which reads as zero.
Less(n, k) == IF n > k THEN n - k ELSE 0

-----------------------------------------------------------------------------
(* Creation                                                                *)

Refuse(o) ==
  /\ stage' = [stage EXCEPT ![o] = "done"]
  /\ seen' = [seen EXCEPT ![o] = Unread]
  /\ UNCHANGED <<proc, procCount, claude, claudeCount, raced>>

\* Both counts become what was read before the awaits, plus one.
Register(o, read) ==
  /\ stage' = [stage EXCEPT ![o] = "done"]
  /\ seen' = [seen EXCEPT ![o] = Unread]
  /\ proc' = [proc EXCEPT ![o] = Spawned]
  /\ procCount' = [procCount EXCEPT ![User(o)] = read.procs + 1]
  /\ IF IsClaude(o)
     THEN /\ claude' = [claude EXCEPT ![o].kept = TRUE]
          /\ claudeCount' = [claudeCount EXCEPT ![User(o)] = read.claudes + 1]
     ELSE UNCHANGED <<claude, claudeCount>>
  /\ raced' = IF \/ read.procs # procCount[User(o)]
                 \/ IsClaude(o) /\ read.claudes # claudeCount[User(o)]
              THEN raced \union {User(o)} ELSE raced

Reads(o, claudes) == [procs |-> procCount[User(o)], claudes |-> claudes]

\* ProcessSessionManager.createSession up to its await.  The first caller that
\* wants a PTY waits for the import; callers in the meantime do without it.
Spawn(o, claudes) ==
  \/ /\ procCount[User(o)] >= MaxSessions
     /\ Refuse(o)
     /\ UNCHANGED pty
  \/ /\ procCount[User(o)] < MaxSessions
     /\ UsesPty(o) => pty # "unloaded"
     /\ Register(o, Reads(o, claudes)) \/ Refuse(o)  \* spawn may throw
     /\ UNCHANGED pty
  \/ /\ procCount[User(o)] < MaxSessions
     /\ UsesPty(o) /\ pty = "unloaded"
     /\ pty' = "loading"
     /\ stage' = [stage EXCEPT ![o] = "loading"]
     /\ seen' = [seen EXCEPT ![o] = Reads(o, claudes)]
     /\ UNCHANGED <<proc, procCount, claude, claudeCount, raced>>

\* process.exec of a command that was approved
Exec(o) ==
  /\ stage[o] = "idle" /\ ~IsClaude(o)
  /\ Spawn(o, 0)
  /\ UNCHANGED <<remote, cli>>

PtyLoaded(o) ==
  /\ stage[o] = "loading"
  /\ pty' = "settled"  \* node-pty is there or not
  /\ Register(o, seen[o]) \/ Refuse(o)
  /\ UNCHANGED <<remote, cli>>

\* createSession of Claude once the command line tool is known to be there
Proceed(o, claudes) ==
  \/ Refuse(o) /\ UNCHANGED pty  \* no directory, capable node or consent
  \/ KindOf[o] = "claude" /\ Spawn(o, claudes)
  \/ /\ KindOf[o] = "claude_node"
     /\ stage' = [stage EXCEPT ![o] = "remote"]
     /\ seen' = [seen EXCEPT ![o].claudes = claudes]
     /\ UNCHANGED <<proc, procCount, claude, claudeCount, raced, pty>>

StartClaude(o) ==
  /\ stage[o] = "idle" /\ IsClaude(o)
  /\ \/ /\ claudeCount[User(o)] >= MaxClaude \/ cli = "missing"
        /\ Refuse(o)
        /\ UNCHANGED pty
     \/ /\ claudeCount[User(o)] < MaxClaude /\ cli = "unknown"
        /\ stage' = [stage EXCEPT ![o] = "cli"]
        /\ seen' = [seen EXCEPT ![o].claudes = claudeCount[User(o)]]
        /\ UNCHANGED <<proc, procCount, claude, claudeCount, raced, pty>>
     \/ /\ claudeCount[User(o)] < MaxClaude /\ cli = "found"
        /\ Proceed(o, claudeCount[User(o)])
  /\ UNCHANGED <<remote, cli>>

\* validateClaudeCli: the program answered, or is nowhere
CliChecked(o) ==
  /\ stage[o] = "cli"
  /\ \/ cli' = "found" /\ Proceed(o, seen[o].claudes)
     \/ cli' = "missing" /\ Refuse(o) /\ UNCHANGED pty
  /\ UNCHANGED <<remote>>

\* createNodeSession after startRemoteSession: a placeholder process session
\* is needed too.  If it is refused the remote session is lost, and so it may be
\* if the node failed to answer.
RemoteStarted(o) ==
  /\ stage[o] = "remote"
  /\ \/ /\ procCount[User(o)] < MaxSessions
        /\ remote' = [remote EXCEPT ![o] = "live"]
        /\ Register(o, Reads(o, seen[o].claudes))
     \/ remote' = [remote EXCEPT ![o] = "lost"] /\ Refuse(o)
  /\ UNCHANGED <<pty, cli>>

-----------------------------------------------------------------------------
(* Processes                                                               *)

Change(o, p) ==
  /\ proc' = [proc EXCEPT ![o] = p]
  /\ UNCHANGED <<creation, procCount, claude, claudeCount, remote, raced>>

Running(p) == p.status = "running" /\ p.alive

\* The exit event, or the error event of a spawn that failed.  It sets the
\* status and counts as activity, also after a kill.
Exit(o) ==
  /\ proc[o].alive
  /\ Change(o, IF proc[o].kept
               THEN [proc[o] EXCEPT !.status = "ended", !.alive = FALSE, !.ending = "untried",
                                    !.overdue = FALSE]
               ELSE NoProc)

\* lastActivityAt becomes the present.
Active(p) == [p EXCEPT !.overdue = FALSE]

\* onData: appendOutput.  A process may print for ever, and whatever it prints
\* counts as activity.
Output(o) ==
  /\ proc[o].alive /\ proc[o].kept
  /\ Change(o, Active(proc[o]))

\* Sessions of the anonymous user are everybody's.
MayUse(u, o) == proc[o].kept /\ User(o) \in {u, Anonymous}

WriteToSession(u, o) == MayUse(u, o) /\ Running(proc[o]) /\ Change(o, Active(proc[o]))

PollOutput(u, o) == MayUse(u, o) /\ Change(o, Active(proc[o]))

GetFullLog(u, o) == MayUse(u, o) /\ Change(o, Active(proc[o]))

\* What killSession may make of a session.  handle.kill sends the signal; or it fails
\* with an error event, which is taken for the exit of a process that still runs;
\* or it just fails, and the entry is as it was.
Killed(p) ==
  IF p.kept /\ Running(p)
  THEN {[p EXCEPT !.status = "ended", !.ending = "final", !.overdue = FALSE],
        [p EXCEPT !.ending = "failed"]}
  ELSE {p}

KillSession(u, o) ==
  /\ MayUse(u, o) /\ Running(proc[o])
  /\ \E p \in Killed(proc[o]) : Change(o, p)

\* (fault) sessions that run are never given up
EndedIdles(o) ==
  /\ proc[o].kept /\ ~proc[o].overdue /\ proc[o].status = "ended"
  /\ Change(o, [proc[o] EXCEPT !.overdue = TRUE])

\* The idle timeout of a session that has ended, twice that of one that runs;
\* every change of the status starts it anew.
Idles(o) ==
  /\ proc[o].kept /\ ~proc[o].overdue
  /\ Change(o, [proc[o] EXCEPT !.overdue = TRUE])

\* (fault) the entry goes, the process stays
Forgotten(p) == [NoProc EXCEPT !.alive = p.alive]

\* removeSession: SIGKILL, whatever comes of it, unless the session has ended or was
\* killed before; of a session that is gone only its process matters.
Removed(p) ==
  IF p.alive THEN [NoProc EXCEPT !.alive = TRUE,
                                 !.ending = IF Running(p) THEN "final" ELSE p.ending]
  ELSE NoProc

\* (fault) one slot comes back, however many sessions go
OneSlot(u, S) == IF S \intersect Kept(u) = {} THEN procCount[u] ELSE Less(procCount[u], 1)

SlotsWithout(u, S) == Less(procCount[u], Cardinality(S \intersect Kept(u)))

\* ProcessSessionManager.cleanupExpired, every few minutes
CleanupProcesses ==
  LET old == {o \in Calls : proc[o].overdue} IN
  /\ old # {}
  /\ proc' = [o \in Calls |-> IF o \in old THEN Removed(proc[o]) ELSE proc[o]]
  /\ procCount' = [u \in Users |-> SlotsWithout(u, old)]
  /\ UNCHANGED <<creation, claude, claudeCount, remote, raced>>

-----------------------------------------------------------------------------
(* Claude sessions                                                         *)

MayUseClaude(u, o) == claude[o].kept /\ User(o) = u

\* For a node session the process session is a placeholder, left alone.
UseClaude(o, p) ==
  /\ claude' = [claude EXCEPT ![o].stale = FALSE]
  /\ proc' = [proc EXCEPT ![o] = IF KindOf[o] = "claude" /\ @.kept THEN p ELSE @]
  /\ UNCHANGED <<creation, procCount, claudeCount, remote, raced>>

WriteToClaude(u, o) ==
  /\ MayUseClaude(u, o)
  /\ UseClaude(o, IF Running(proc[o]) THEN Active(proc[o]) ELSE proc[o])

PollClaude(u, o) == MayUseClaude(u, o) /\ UseClaude(o, Active(proc[o]))

ClaudeIdles(o) ==
  /\ claude[o].kept /\ ~claude[o].stale
  /\ claude' = [claude EXCEPT ![o].stale = TRUE]
  /\ UNCHANGED <<creation, proc, procCount, claudeCount, remote, raced>>

FreeClaude(o) == claudeCount' = [claudeCount EXCEPT ![User(o)] = Less(@, 1)]

\* stopSession.  A local process is killed at once, and whether that succeeds or not
\* the Claude session goes; the process session stays until it expires.  For a node
\* session the poll and the stop are awaited, and nothing keeps a second stop from
\* starting.
StopSession(o) ==
  /\ claude[o].kept
  /\ \/ /\ KindOf[o] = "claude"
        /\ \E p \in Killed(IF proc[o].kept THEN Active(proc[o]) ELSE proc[o]) :
             proc' = [proc EXCEPT ![o] = p]
        /\ claude' = [claude EXCEPT ![o] = NoClaude]
        /\ FreeClaude(o)
     \/ /\ KindOf[o] = "claude_node" /\ claude[o].stops < MaxStops
        /\ claude' = [claude EXCEPT ![o].stops = @ + 1]
        /\ UNCHANGED <<proc, claudeCount>>
  /\ UNCHANGED <<creation, procCount, remote, raced>>

StopClaude(u, o) == MayUseClaude(u, o) /\ StopSession(o)

\* cleanupExpired of Claude sessions, every few minutes
ExpireClaude(o) == claude[o].stale /\ StopSession(o)

\* The stop of the remote session has succeeded or failed; the Claude session goes
\* either way, so that a remote session that was not stopped is lost.  A second stop
\* decrements the count again.
RemoteStopped(o) ==
  /\ claude[o].stops > 0
  /\ claude' = [claude EXCEPT ![o] = [NoClaude EXCEPT !.stops = claude[o].stops - 1]]
  /\ \E outcome \in {"stopped", "lost"} :
       remote' = [remote EXCEPT ![o] = IF @ = "stopped" THEN @ ELSE outcome]
  /\ FreeClaude(o)
  /\ raced' = IF claude[o].kept THEN raced ELSE raced \union {User(o)}
  /\ UNCHANGED <<creation, proc, procCount>>

-----------------------------------------------------------------------------
UserNext(u, o) ==
  \/ WriteToSession(u, o) \/ PollOutput(u, o) \/ GetFullLog(u, o) \/ KillSession(u, o)
  \/ WriteToClaude(u, o) \/ PollClaude(u, o) \/ StopClaude(u, o)

Next ==
  \/ \E o \in Calls : \/ Exec(o) \/ PtyLoaded(o)
                      \/ StartClaude(o) \/ CliChecked(o) \/ RemoteStarted(o)
                      \/ Exit(o) \/ Output(o) \/ Idles(o)
                      \/ ClaudeIdles(o) \/ ExpireClaude(o) \/ RemoteStopped(o)
                      \/ \E u \in Users : UserNext(u, o)
  \/ CleanupProcesses

Spec == Init /\ [][Next]_vars

\* Time passes, the clean-up timer fires and calls of nodes end (EveryCallEnds
\* of Nodes).  Nothing is assumed of processes and of users: neither that
\* processes end or fall silent nor that anybody stops them.
Fairness ==
  /\ WF_vars(CleanupProcesses)
  /\ \A o \in Calls : /\ WF_vars(Idles(o)) /\ WF_vars(ClaudeIdles(o))
                      /\ WF_vars(ExpireClaude(o)) /\ WF_vars(RemoteStopped(o))

FairSpec == Spec /\ Fairness

-----------------------------------------------------------------------------
(* Properties                                                              *)

\* Both counts agree with the sessions, and so both limits hold, however
\* creations, kills, stops and clean-ups interleave: except for a user of whom
\* a session came or went while another was created, or was stopped twice at once.
CountsAgree ==
  \A u \in Users \ raced :
    /\ procCount[u] = Cardinality(Kept(u)) /\ procCount[u] <= MaxSessions
    /\ claudeCount[u] = Cardinality(KeptClaude(u)) /\ claudeCount[u] <= MaxClaude

\* Nothing runs behind the managers' back before they have tried to end it: a live
\* process that nobody has tried to end is in the map as running, with its Claude
\* session if it has one, and one whose stop has failed is still there as running, so
\* that clean-up will try SIGKILL.  A remote session belongs to a Claude session.  What
\* the code lets go of is not covered: a process that was sent a signal and ignores
\* it, or whose SIGKILL fails (ProcessSessionManager.ts:245), or whose kill fails with
\* an error event (PtyWrapper.ts:244); and, "lost", a remote session whose stop fails
\* (ClaudeCodeSessionManager.ts:539) or that did not get its placeholder.
NothingEscapes ==
  \A o \in Calls :
    /\ proc[o].alive /\ proc[o].ending \in {"untried", "failed"} =>
         proc[o].kept /\ Running(proc[o])
    /\ proc[o].alive /\ proc[o].ending = "untried" /\ KindOf[o] = "claude" => claude[o].kept
    /\ remote[o] = "live" => claude[o].kept

\* The session is used, or its process prints, when it has been idle for too long
\* and clean-up has not come yet.
Revives(o)       == proc[o].overdue /\ proc'[o].kept /\ ~proc'[o].overdue
ClaudeRevives(o) == claude[o].stale /\ claude'[o].kept /\ ~claude'[o].stale

\* A limit that was reached does not stay reached: clean-up gives all slots of a user
\* back, also those of sessions that never end by themselves and of placeholders.  The
\* exception is a session that is active for ever, and that takes no user: whatever a
\* process prints, killed or not, counts as activity (ProcessSessionManager.ts:318), so
\* one that keeps printing keeps its slot.  It does not keep that of its Claude session.
SlotsComeBack ==
  \A u \in Users :
    /\ \/ <>[](u \in raced \/ procCount[u] = 0)
       \/ \E o \in Calls : User(o) = u /\ []<><<Revives(o)>>_proc
    /\ \/ <>[](u \in raced \/ claudeCount[u] = 0)
       \/ \E o \in Calls : User(o) = u /\ []<><<ClaudeRevives(o)>>_claude
=============================================================================
