--------------------------- MODULE ToolSessionsProofs ---------------------------
(***************************************************************************)
(* Proofs about the sessions of tools, for any users, calls, keys and      *)
(* limits: the managers of processes and of Claude sessions first, then    *)
(* the browser, which shares no state with them.                           *)
(***************************************************************************)
EXTENDS ProcessSessions, BrowserSessions, FiniteSetTheorems, TLAPS

-----------------------------------------------------------------------------
(***************************************************************************)
(* Proofs that nothing escapes the session managers and that their counts  *)
(* agree with their maps, for any users, calls and limits.                 *)
(*                                                                         *)
(* NothingEscapes is not inductive: before a session is removed its        *)
(* process must be beyond any further kill, so a live process that is not  *)
(* has to be running in the eyes of its entry, and only sessions on nodes  *)
(* may have stops pending.                                                 *)
(***************************************************************************)

\* A live process that a kill is still to be tried on is in the map, as running.
Sound(p) ==
  /\ p \in ProcRecord
  /\ p.alive /\ p.ending # "final" => p.kept /\ p.status = "running"

\* Nobody has tried to end it.
Untold(p) == p.alive /\ p.ending = "untried"

\* The session of call o is no more at large with q than it was with p.
Tame(p, q) ==
  /\ Sound(q)
  /\ Untold(q) => Untold(p)

\* The Claude session that belongs to the process or to the session of a node
Owned(o) ==
  /\ Untold(proc[o]) /\ KindOf[o] = "claude" => claude[o].kept
  /\ remote[o] = "live" => claude[o].kept
  /\ \/ KindOf[o] = "claude_node"
     \/ remote[o] # "live" /\ claude[o].stops = 0 /\ stage[o] # "remote"

EInv ==
  /\ stage \in [Calls -> {"idle", "cli", "remote", "loading", "done"}]
  /\ remote \in [Calls -> {"none", "live", "stopped", "lost"}]
  /\ claude \in [Calls -> ClaudeRecord]
  /\ proc \in [Calls -> ProcRecord]
  /\ \A o \in Calls : Sound(proc[o])
  /\ \A o \in Calls : Owned(o)

-----------------------------------------------------------------------------
(* Sessions                                                                *)

LEMMA Limits == MaxStops \in Nat
  BY BoundsType

\* What is not in the map and not alive is of no concern.
LEMMA NoProcIsSound == Sound(NoProc)
  BY Limits DEF Sound, ProcRecord, NoProc

\* A new session is a running process that the map holds.
LEMMA SpawnedIsSound == Sound(Spawned)
<1>1. NoProc \in ProcRecord
  BY NoProcIsSound DEF Sound
<1> QED
  BY <1>1 DEF Sound, ProcRecord, Spawned

\* Using a session and the passing of time leave process and entry alone.
LEMMA OverdueIsTame ==
  ASSUME NEW p, Sound(p), NEW late \in BOOLEAN
  PROVE  LET q == [p EXCEPT !.overdue = late] IN Tame(p, q) /\ q.kept = p.kept
  BY DEF Tame, Untold, Sound, ProcRecord

LEMMA ActiveIsTame ==
  ASSUME NEW p, Sound(p)
  PROVE  Tame(p, Active(p)) /\ Active(p).kept = p.kept
  BY OverdueIsTame DEF Active

\* A kill of a session is an attempt to end its process, whatever comes of it.
LEMMA KilledIsTame ==
  ASSUME NEW p, Sound(p), NEW q \in Killed(p)
  PROVE  Tame(p, q) /\ q.kept = p.kept /\ ~Untold(q)
<1>1. p \in ProcRecord
  BY DEF Sound
<1>2. CASE p.kept /\ Running(p)
  <2> DEFINE sent == [p EXCEPT !.status = "ended", !.ending = "final", !.overdue = FALSE]
             failed == [p EXCEPT !.ending = "failed"]
  <2>1. /\ sent \in ProcRecord /\ sent.ending = "final" /\ sent.kept = p.kept
        /\ failed \in ProcRecord /\ failed.ending = "failed" /\ failed.kept = p.kept
        /\ failed.status = p.status
    BY <1>1 DEF ProcRecord
  <2>2. q = sent \/ q = failed
    BY <1>2 DEF Killed
  <2> HIDE DEF sent, failed
  <2> QED
    BY <1>2, <2>1, <2>2 DEF Tame, Untold, Sound, Running
<1>3. CASE ~(p.kept /\ Running(p))
  BY <1>3 DEF Killed, Tame, Untold, Sound, Running
<1> QED
  BY <1>2, <1>3

\* A process that ended is not alive.
LEMMA ExitIsTame ==
  ASSUME NEW p, Sound(p)
  PROVE  LET q == [p EXCEPT !.status = "ended", !.alive = FALSE, !.ending = "untried",
                            !.overdue = FALSE] IN
         Tame(p, q) /\ q.kept = p.kept
  BY DEF Tame, Untold, Sound, ProcRecord

\* A session is not removed before the last attempt to end its process: in a sound
\* session the status shows whether that is still to be made.
LEMMA RemovedIsTame ==
  ASSUME NEW p, Sound(p)
  PROVE  Tame(p, Removed(p))
<1> DEFINE e == IF Running(p) THEN "final" ELSE p.ending
           q == [NoProc EXCEPT !.alive = TRUE, !.ending = e]
<1>1. NoProc \in ProcRecord /\ ~NoProc.alive
  BY NoProcIsSound DEF Sound, NoProc
<1>2. CASE p.alive
  <2>1. e \in {"untried", "failed", "final"}
    BY DEF Sound, ProcRecord
  <2>2. e = "final"
    BY <1>2, <2>1 DEF Sound, Running
  <2> HIDE DEF e
  <2>3. q \in ProcRecord /\ q.ending = "final"
    BY <1>1, <2>2 DEF ProcRecord
  <2>4. Removed(p) = q
    BY <1>2 DEF Removed, e
  <2> HIDE DEF q
  <2> QED
    BY <2>3, <2>4 DEF Tame, Untold, Sound
<1>3. CASE ~p.alive
  BY <1>1, <1>3, NoProcIsSound DEF Removed, Tame, Untold
<1> QED
  BY <1>2, <1>3

-----------------------------------------------------------------------------
(* Steps                                                                   *)

\* A tame change of processes is safe as long as Claude sessions and the
\* sessions of nodes stay.
LEMMA TameKeeps ==
  ASSUME EInv, UNCHANGED <<stage, claude, remote>>,
         proc' \in [Calls -> ProcRecord],
         \A o \in Calls : Tame(proc[o], proc'[o])
  PROVE  EInv'
  BY DEF EInv, Owned, Tame

LEMMA ChangeKeeps ==
  ASSUME EInv, NEW o \in Calls, NEW p, Change(o, p), Tame(proc[o], p)
  PROVE  EInv'
<1>1. p \in ProcRecord /\ \A c \in Calls : Tame(proc[c], proc[c])
  BY DEF Tame, Sound, EInv
<1>2. proc' \in [Calls -> ProcRecord] /\ \A c \in Calls : Tame(proc[c], proc'[c])
  BY <1>1 DEF Change, EInv
<1> QED
  BY <1>2, TameKeeps DEF Change, creation

\* A creation that goes on is at a stage that fits its kind.
LEMMA StageKeeps ==
  ASSUME EInv, UNCHANGED <<proc, claude>>, NEW o \in Calls,
         NEW st \in {"idle", "cli", "remote", "loading", "done"},
         stage' = [stage EXCEPT ![o] = st], st = "remote" => KindOf[o] = "claude_node",
         NEW r \in {"none", "stopped", "lost"},
         remote' \in {remote, [remote EXCEPT ![o] = r]}
  PROVE  EInv'
<1>1. /\ stage' \in [Calls -> {"idle", "cli", "remote", "loading", "done"}]
      /\ remote' \in [Calls -> {"none", "live", "stopped", "lost"}]
  BY DEF EInv
<1>2. ASSUME NEW c \in Calls
      PROVE  Owned(c)'
  <2>1. /\ remote'[c] = "live" => remote[c] = "live"
        /\ stage'[c] = "remote" => stage[c] = "remote" \/ KindOf[c] = "claude_node"
    BY DEF EInv
  <2> QED
    BY <2>1 DEF EInv, Owned
<1> QED
  BY <1>1, <1>2 DEF EInv

LEMMA RefuseKeeps ==
  ASSUME EInv, NEW o \in Calls, Refuse(o),
         NEW r \in {"none", "stopped", "lost"},
         remote' \in {remote, [remote EXCEPT ![o] = r]}
  PROVE  EInv'
  BY StageKeeps DEF Refuse

\* The two managers enter a new session in one step, and with it the one on a
\* node.
LEMMA RegisterKeeps ==
  ASSUME EInv, NEW o \in Calls, NEW read, Register(o, read),
         \/ UNCHANGED remote
         \/ KindOf[o] = "claude_node" /\ remote' = [remote EXCEPT ![o] = "live"]
  PROVE  EInv'
<1>1. /\ stage' \in [Calls -> {"idle", "cli", "remote", "loading", "done"}]
      /\ stage'[o] = "done" /\ \A c \in Calls \ {o} : stage'[c] = stage[c]
  BY DEF Register, EInv
<1>2. /\ remote' \in [Calls -> {"none", "live", "stopped", "lost"}]
      /\ \A c \in Calls \ {o} : remote'[c] = remote[c]
      /\ KindOf[o] = "claude_node" \/ remote'[o] = remote[o]
  BY DEF EInv
<1>3. /\ proc' \in [Calls -> ProcRecord]
      /\ proc'[o] = Spawned /\ \A c \in Calls \ {o} : proc'[c] = proc[c]
  BY SpawnedIsSound DEF Register, EInv, Sound
<1>4. /\ claude' \in [Calls -> ClaudeRecord]
      /\ \A c \in Calls \ {o} : claude'[c] = claude[c]
      /\ claude'[o].stops = claude[o].stops
      /\ IsClaude(o) => claude'[o].kept
      /\ claude[o].kept => claude'[o].kept
  <2>1. CASE IsClaude(o)
    <3>1. claude' = [claude EXCEPT ![o] = [claude[o] EXCEPT !.kept = TRUE]]
      BY <2>1 DEF Register
    <3>2. claude[o] \in ClaudeRecord
      BY DEF EInv
    <3> DEFINE q == [claude[o] EXCEPT !.kept = TRUE]
    <3>3. q \in ClaudeRecord /\ q.stops = claude[o].stops /\ q.kept
      BY <3>2 DEF ClaudeRecord
    <3>4. claude' = [claude EXCEPT ![o] = q]
      BY <3>1
    <3> HIDE DEF q
    <3> QED
      BY <3>3, <3>4 DEF EInv
  <2>2. CASE ~IsClaude(o)
    BY <2>2 DEF Register, EInv
  <2> QED
    BY <2>1, <2>2
<1>5. Owned(o)'
  BY <1>1, <1>2, <1>4 DEF EInv, Owned, IsClaude
<1>6. \A c \in Calls \ {o} : Owned(c)'
  BY <1>1, <1>2, <1>3, <1>4 DEF EInv, Owned
<1>7. \A c \in Calls : Sound(proc'[c])
  BY <1>3, SpawnedIsSound DEF EInv
<1> QED
  BY <1>1, <1>2, <1>3, <1>4, <1>5, <1>6, <1>7 DEF EInv

LEMMA SpawnKeeps ==
  ASSUME EInv, NEW o \in Calls, NEW n, Spawn(o, n), UNCHANGED remote
  PROVE  EInv'
<1>1. CASE Refuse(o)
  BY <1>1, RefuseKeeps
<1>2. CASE Register(o, Reads(o, n))
  BY <1>2, RegisterKeeps
<1>3. CASE stage' = [stage EXCEPT ![o] = "loading"] /\ UNCHANGED <<proc, claude>>
  BY <1>3, StageKeeps
<1> QED
  BY <1>1, <1>2, <1>3 DEF Spawn

LEMMA ProceedKeeps ==
  ASSUME EInv, NEW o \in Calls, NEW n, Proceed(o, n), UNCHANGED remote
  PROVE  EInv'
<1>1. CASE Refuse(o)
  BY <1>1, RefuseKeeps
<1>2. CASE Spawn(o, n)
  BY <1>2, SpawnKeeps
<1>3. CASE /\ KindOf[o] = "claude_node" /\ stage' = [stage EXCEPT ![o] = "remote"]
           /\ UNCHANGED <<proc, claude>>
  BY <1>3, StageKeeps
<1> QED
  BY <1>1, <1>2, <1>3 DEF Proceed

\* Creations, up to each of their awaits
LEMMA CreationKeeps ==
  ASSUME EInv, NEW o \in Calls,
         Exec(o) \/ PtyLoaded(o) \/ StartClaude(o) \/ CliChecked(o) \/ RemoteStarted(o)
  PROVE  EInv'
<1>1. CASE Exec(o)
  BY <1>1, SpawnKeeps DEF Exec
<1>2. CASE PtyLoaded(o)
  BY <1>2, RegisterKeeps, RefuseKeeps DEF PtyLoaded
<1>3. CASE StartClaude(o)
  <2>1. CASE Refuse(o) /\ UNCHANGED remote
    BY <2>1, RefuseKeeps
  <2>2. CASE /\ stage' = [stage EXCEPT ![o] = "cli"]
             /\ UNCHANGED <<proc, claude, remote>>
    BY <2>2, StageKeeps
  <2>3. CASE Proceed(o, claudeCount[User(o)]) /\ UNCHANGED remote
    BY <2>3, ProceedKeeps
  <2> QED
    BY <1>3, <2>1, <2>2, <2>3 DEF StartClaude
<1>4. CASE CliChecked(o)
  BY <1>4, ProceedKeeps, RefuseKeeps DEF CliChecked
<1>5. CASE RemoteStarted(o)
  <2>1. KindOf[o] = "claude_node"
    BY <1>5 DEF RemoteStarted, EInv, Owned
  <2> QED
    BY <1>5, <2>1, RegisterKeeps, RefuseKeeps DEF RemoteStarted
<1> QED
  BY <1>1, <1>2, <1>3, <1>4, <1>5

\* Processes and the users of process sessions
LEMMA ProcessKeeps ==
  ASSUME EInv, NEW o \in Calls,
         \/ Exit(o) \/ Output(o) \/ Idles(o)
         \/ \E u \in Users : \/ WriteToSession(u, o) \/ PollOutput(u, o)
                             \/ GetFullLog(u, o) \/ KillSession(u, o)
  PROVE  EInv'
<1>1. Sound(proc[o])
  BY DEF EInv
<1>2. CASE Exit(o)
  <2>1. Tame(proc[o], NoProc)
    BY NoProcIsSound DEF Tame, Untold, NoProc
  <2> QED
    BY <1>1, <1>2, <2>1, ExitIsTame, ChangeKeeps DEF Exit
<1>3. CASE Change(o, Active(proc[o]))
  BY <1>1, <1>3, ActiveIsTame, ChangeKeeps
<1>4. ASSUME NEW late \in BOOLEAN, Change(o, [proc[o] EXCEPT !.overdue = late])
      PROVE  EInv'
  BY <1>1, <1>4, OverdueIsTame, ChangeKeeps
<1>5. ASSUME NEW u \in Users, KillSession(u, o)
      PROVE  EInv'
  BY <1>1, <1>5, KilledIsTame, ChangeKeeps DEF KillSession
<1> QED
  BY <1>2, <1>3, <1>4, <1>5 DEF Output, Idles, WriteToSession, PollOutput, GetFullLog

LEMMA CleanupKeeps ==
  ASSUME EInv, CleanupProcesses
  PROVE  EInv'
<1> DEFINE old == {o \in Calls : proc[o].overdue}
<1>1. proc' = [o \in Calls |-> IF o \in old THEN Removed(proc[o]) ELSE proc[o]]
  BY DEF CleanupProcesses
<1>2. \A o \in Calls : Tame(proc[o], Removed(proc[o])) /\ Tame(proc[o], proc[o])
  BY RemovedIsTame DEF EInv, Tame
<1> HIDE DEF old
<1>3. \A o \in Calls : Tame(proc[o], proc'[o])
  BY <1>1, <1>2
<1>4. proc' \in [Calls -> ProcRecord]
  BY <1>1, <1>2 DEF Tame, Sound
<1> QED
  BY <1>3, <1>4, TameKeeps DEF CleanupProcesses, creation

\* The session of o changes in both managers, the entry of Claude's is there
\* as before or the process is as good as gone.
LEMMA ClaudeKeeps ==
  ASSUME EInv, NEW o \in Calls, UNCHANGED stage,
         NEW p, proc' = [proc EXCEPT ![o] = p], Tame(proc[o], p),
         NEW k \in ClaudeRecord, claude' = [claude EXCEPT ![o] = k],
         NEW r \in {"none", "live", "stopped", "lost"}, remote' = [remote EXCEPT ![o] = r],
         r = "live" => remote[o] = "live" /\ k.kept,
         KindOf[o] = "claude" => k.kept = claude[o].kept \/ ~Untold(p),
         KindOf[o] = "claude_node" \/ k.stops = 0
  PROVE  EInv'
<1>1. /\ proc' \in [Calls -> ProcRecord]
      /\ proc'[o] = p /\ \A c \in Calls \ {o} : proc'[c] = proc[c]
  BY DEF EInv, Tame, Sound
<1>2. /\ claude' \in [Calls -> ClaudeRecord]
      /\ claude'[o] = k /\ \A c \in Calls \ {o} : claude'[c] = claude[c]
  BY DEF EInv
<1>3. /\ remote' \in [Calls -> {"none", "live", "stopped", "lost"}]
      /\ remote'[o] = r /\ \A c \in Calls \ {o} : remote'[c] = remote[c]
  BY DEF EInv
<1>4. \A c \in Calls \ {o} : Owned(c)'
  BY <1>1, <1>2, <1>3 DEF EInv, Owned
<1>5. Owned(o)'
  BY <1>1, <1>2, <1>3 DEF EInv, Owned, Tame
<1> QED
  BY <1>1, <1>2, <1>3, <1>4, <1>5 DEF EInv, Tame

\* A function changed nowhere, to cite where an action leaves one alone
LEMMA Same ==
  ASSUME EInv, NEW o \in Calls
  PROVE  /\ proc = [proc EXCEPT ![o] = proc[o]]
         /\ claude = [claude EXCEPT ![o] = claude[o]]
         /\ remote = [remote EXCEPT ![o] = remote[o]]
         /\ Sound(proc[o]) /\ Tame(proc[o], proc[o])
         /\ claude[o] \in ClaudeRecord
         /\ remote[o] \in {"none", "live", "stopped", "lost"}
         /\ remote[o] = "live" => claude[o].kept /\ KindOf[o] = "claude_node"
         /\ KindOf[o] = "claude_node" \/ claude[o].stops = 0
  BY DEF EInv, Tame, Owned

LEMMA StaleClaude ==
  ASSUME NEW k \in ClaudeRecord, NEW late \in BOOLEAN
  PROVE  LET q == [k EXCEPT !.stale = late] IN
         q \in ClaudeRecord /\ q.kept = k.kept /\ q.stops = k.stops
  BY DEF ClaudeRecord

LEMMA UseKeeps ==
  ASSUME EInv, NEW o \in Calls, NEW p, UseClaude(o, p), Tame(proc[o], p)
  PROVE  EInv'
<1> DEFINE q == IF KindOf[o] = "claude" /\ proc[o].kept THEN p ELSE proc[o]
           k == [claude[o] EXCEPT !.stale = FALSE]
<1>1. proc' = [proc EXCEPT ![o] = q] /\ claude' = [claude EXCEPT ![o] = k]
  BY DEF UseClaude
<1>2. Tame(proc[o], q)
  BY Same
<1>3. k \in ClaudeRecord /\ k.kept = claude[o].kept /\ k.stops = claude[o].stops
  BY Same, StaleClaude
<1>4. remote' = [remote EXCEPT ![o] = remote[o]] /\ UNCHANGED stage
  BY Same DEF UseClaude, creation
<1> HIDE DEF q, k
<1>5. /\ remote[o] = "live" => k.kept
      /\ KindOf[o] = "claude_node" \/ k.stops = 0
  BY <1>3, Same
<1> QED
  BY <1>1, <1>2, <1>3, <1>4, <1>5, Same, ClaudeKeeps

\* The step that gives up the Claude session of a local process tries to end that;
\* otherwise only stops are counted.
LEMMA StopKeeps ==
  ASSUME EInv, NEW o \in Calls, StopSession(o)
  PROVE  EInv'
<1>1. remote' = [remote EXCEPT ![o] = remote[o]] /\ UNCHANGED stage
  BY Same DEF StopSession, creation
<1>2. CASE KindOf[o] = "claude"
  <2> DEFINE p == IF proc[o].kept THEN Active(proc[o]) ELSE proc[o]
  <2>1. PICK q \in Killed(p) : proc' = [proc EXCEPT ![o] = q]
    BY <1>2 DEF StopSession
  <2>2. claude' = [claude EXCEPT ![o] = NoClaude]
    BY <1>2 DEF StopSession
  <2>3. Sound(p) /\ Tame(proc[o], p)
    BY Same, ActiveIsTame DEF Tame
  <2> HIDE DEF p
  <2>4. Tame(proc[o], q) /\ ~Untold(q)
    BY <2>3, KilledIsTame DEF Tame
  <2>5. NoClaude \in ClaudeRecord /\ NoClaude.stops = 0
    BY Limits DEF NoClaude, ClaudeRecord
  <2>6. remote[o] # "live"
    BY <1>2, Same
  <2> QED
    BY <1>1, <2>1, <2>2, <2>4, <2>5, <2>6, Same, ClaudeKeeps
<1>3. CASE /\ KindOf[o] = "claude_node" /\ claude[o].stops < MaxStops
           /\ claude' = [claude EXCEPT ![o].stops = @ + 1]
           /\ UNCHANGED proc
  <2> DEFINE k == [claude[o] EXCEPT !.stops = claude[o].stops + 1]
  <2>1. claude[o].stops + 1 \in 0 .. MaxStops
    BY <1>3, Same, Limits DEF ClaudeRecord
  <2>2. k \in ClaudeRecord /\ k.kept = claude[o].kept
    BY <2>1, Same DEF ClaudeRecord
  <2>3. claude' = [claude EXCEPT ![o] = k]
    BY <1>3
  <2>4. proc' = [proc EXCEPT ![o] = proc[o]]
    BY <1>3, Same
  <2> HIDE DEF k
  <2> QED
    BY <1>1, <1>3, <2>2, <2>3, <2>4, Same, ClaudeKeeps
<1> QED
  BY <1>2, <1>3 DEF StopSession

LEMMA RemoteStoppedKeeps ==
  ASSUME EInv, NEW o \in Calls, RemoteStopped(o)
  PROVE  EInv'
<1> DEFINE k == [NoClaude EXCEPT !.stops = claude[o].stops - 1]
<1>1. claude[o].stops \in 0 .. MaxStops /\ claude[o].stops > 0
  BY Same DEF RemoteStopped, ClaudeRecord
<1>2. claude[o].stops - 1 \in 0 .. MaxStops
  BY <1>1, Limits
<1>3. k \in ClaudeRecord
  BY <1>2 DEF ClaudeRecord, NoClaude
<1>4. KindOf[o] = "claude_node"
  BY <1>1, Same
<1>5. /\ claude' = [claude EXCEPT ![o] = k]
      /\ \E r \in {"stopped", "lost"} : remote' = [remote EXCEPT ![o] = r]
  BY DEF RemoteStopped
<1>6. proc' = [proc EXCEPT ![o] = proc[o]] /\ UNCHANGED stage
  BY Same DEF RemoteStopped, creation
<1> HIDE DEF k
<1> QED
  BY <1>3, <1>4, <1>5, <1>6, Same, ClaudeKeeps

\* Claude sessions: their users, the passing of time, clean-up, stops of nodes
LEMMA ClaudeStepKeeps ==
  ASSUME EInv, NEW o \in Calls,
         \/ ClaudeIdles(o) \/ ExpireClaude(o) \/ RemoteStopped(o)
         \/ \E u \in Users : WriteToClaude(u, o) \/ PollClaude(u, o) \/ StopClaude(u, o)
  PROVE  EInv'
<1>1. CASE ClaudeIdles(o)
  <2> DEFINE k == [claude[o] EXCEPT !.stale = TRUE]
  <2>1. k \in ClaudeRecord /\ k.kept = claude[o].kept /\ k.stops = claude[o].stops
    BY Same, StaleClaude
  <2>2. claude' = [claude EXCEPT ![o] = k]
    BY <1>1 DEF ClaudeIdles
  <2>3. /\ proc' = [proc EXCEPT ![o] = proc[o]] /\ remote' = [remote EXCEPT ![o] = remote[o]]
        /\ UNCHANGED stage
    BY <1>1, Same DEF ClaudeIdles, creation
  <2> HIDE DEF k
  <2>4. /\ remote[o] = "live" => k.kept
        /\ KindOf[o] = "claude_node" \/ k.stops = 0
    BY <2>1, Same
  <2> QED
    BY <2>1, <2>2, <2>3, <2>4, Same, ClaudeKeeps
<1>2. ASSUME NEW u \in Users, WriteToClaude(u, o)
      PROVE  EInv'
  BY <1>2, Same, ActiveIsTame, UseKeeps DEF WriteToClaude
<1>3. ASSUME NEW u \in Users, PollClaude(u, o)
      PROVE  EInv'
  BY <1>3, Same, ActiveIsTame, UseKeeps DEF PollClaude
<1> QED
  BY <1>1, <1>2, <1>3, StopKeeps, RemoteStoppedKeeps DEF ExpireClaude, StopClaude

-----------------------------------------------------------------------------
LEMMA InitEInv == Init => EInv
<1> SUFFICES ASSUME Init
             PROVE  EInv
  OBVIOUS
<1>1. /\ \A o \in Calls : proc[o] = NoProc /\ claude[o] = NoClaude
      /\ \A o \in Calls : remote[o] = "none" /\ stage[o] = "idle"
  BY DEF Init
<1>2. NoClaude \in ClaudeRecord /\ NoClaude.stops = 0
  BY Limits DEF NoClaude, ClaudeRecord
<1>3. NoProc \in ProcRecord /\ ~NoProc.alive
  BY NoProcIsSound DEF Sound, NoProc
<1>4. \A o \in Calls : Owned(o)
  BY <1>1, <1>2, <1>3 DEF Owned, Untold
<1>5. \A o \in Calls : Sound(proc[o])
  BY <1>1, NoProcIsSound
<1> QED
  BY <1>2, <1>3, <1>4, <1>5 DEF Init, EInv

LEMMA NextEInv == EInv /\ [Next]_vars => EInv'
<1> SUFFICES ASSUME EInv, [Next]_vars
             PROVE  EInv'
  OBVIOUS
<1>1. CASE UNCHANGED vars
  BY <1>1 DEF vars, creation, sessions, EInv, Owned
<1>2. CASE Next
  BY <1>2, CreationKeeps, ProcessKeeps, ClaudeStepKeeps, CleanupKeeps DEF Next, UserNext
<1> QED
  BY <1>1, <1>2

\* No process runs without the knowledge of the managers before they have tried to end
\* it, and after a kill that failed the process manager keeps it for the SIGKILL of
\* clean-up, however creations, exits, kills and stops, failed ones too, and clean-ups
\* of both managers interleave.  A process whose SIGKILL fails, and a remote session
\* whose stop fails, are given up, and nothing is said of them.
THEOREM NothingGetsAway == Spec => []NothingEscapes
<1>1. EInv => NothingEscapes
  BY DEF EInv, NothingEscapes, Sound, Owned, Untold, Running
<1> QED
  BY <1>1, InitEInv, NextEInv, PTL DEF Spec

-----------------------------------------------------------------------------
(* Counts                                                                  *)
(*                                                                         *)
(* CountsAgree is not inductive either.  A creation under way has entered  *)
(* nothing, and it read counts below the limits; whether what it read is   *)
(* still so when it is written back is what raced records.  At any time    *)
(* only finitely many sessions are in the maps, of however many calls.     *)

CTypes ==
  /\ seen \in [Calls -> [procs : Nat, claudes : Nat]]
  /\ procCount \in [Users -> Nat] /\ claudeCount \in [Users -> Nat]
  /\ pty \in {"unloaded", "loading", "settled"}
  /\ cli \in {"unknown", "found", "missing"}
  /\ raced \subseteq Users

\* What the creation o has read was below the limits.
UnderWay(o) ==
  /\ stage[o] # "done" => ~proc[o].kept /\ ~claude[o].kept
  /\ stage[o] = "loading" => seen[o].procs < MaxSessions
  /\ stage[o] \in {"cli", "remote"} \/ (stage[o] = "loading" /\ IsClaude(o)) =>
       seen[o].claudes < MaxClaude

FewKept == \A u \in Users : IsFiniteSet(Kept(u)) /\ IsFiniteSet(KeptClaude(u))

CInv == CTypes /\ FewKept /\ CountsAgree /\ \A o \in Calls : UnderWay(o)

Tally(n, S, max) == IsFiniteSet(S) /\ n = Cardinality(S) /\ n <= max

LEMMA UserLimits == MaxSessions \in Nat /\ MaxClaude \in Nat
  BY BoundsType

LEMMA Tallies ==
  ASSUME CInv, NEW u \in Users \ raced
  PROVE  Tally(procCount[u], Kept(u), MaxSessions) /\ Tally(claudeCount[u], KeptClaude(u), MaxClaude)
  BY DEF CInv, FewKept, CountsAgree, Tally

LEMMA TallyAdd ==
  ASSUME NEW n, NEW S, NEW max \in Nat, NEW o, Tally(n, S, max), o \notin S, n < max
  PROVE  Tally(n + 1, S \union {o}, max)
<1>1. Cardinality(S) \in Nat
  BY FS_CardinalityType DEF Tally
<1>2. IsFiniteSet(S \union {o}) /\ Cardinality(S \union {o}) = Cardinality(S) + 1
  BY FS_AddElement DEF Tally
<1> QED
  BY <1>1, <1>2 DEF Tally

\* The count goes down by as many as leave, and never below zero.
LEMMA TallyWithout ==
  ASSUME NEW n, NEW S, NEW T, NEW max \in Nat, Tally(n, S, max)
  PROVE  Tally(Less(n, Cardinality(T \intersect S)), S \ T, max)
<1>1. /\ IsFiniteSet(S \ T)
      /\ Cardinality(S \ T) = Cardinality(S) - Cardinality(S \intersect T)
  BY FS_Difference DEF Tally
<1>2. IsFiniteSet(S \intersect T) /\ S \intersect T = T \intersect S
  BY FS_Subset DEF Tally
<1>3. Cardinality(S \ T) \in Nat /\ Cardinality(S) \in Nat /\ Cardinality(S \intersect T) \in Nat
  BY <1>1, <1>2, FS_CardinalityType DEF Tally
<1>4. Cardinality(T \intersect S) = Cardinality(S \intersect T)
  BY <1>2
<1> QED
  BY <1>1, <1>3, <1>4 DEF Tally, Less

LEMMA TallyOneLess ==
  ASSUME NEW n, NEW S, NEW o \in S, NEW max \in Nat, Tally(n, S, max)
  PROVE  Tally(Less(n, 1), S \ {o}, max)
<1>1. {o} \intersect S = {o} /\ Cardinality({o}) = 1
  BY FS_Singleton
<1> QED
  BY <1>1, TallyWithout

\* No entry comes or goes and no count changes.
LEMMA QuietKeeps ==
  ASSUME CInv, UNCHANGED <<procCount, claudeCount, raced>>, CTypes',
         \A c \in Calls : (proc'[c].kept <=> proc[c].kept) /\ (claude'[c].kept <=> claude[c].kept),
         \A c \in Calls : UnderWay(c)'
  PROVE  CInv'
<1>1. \A u \in Users : Kept(u)' = Kept(u) /\ KeptClaude(u)' = KeptClaude(u)
  BY DEF Kept, KeptClaude
<1> QED
  BY <1>1 DEF CInv, FewKept, CountsAgree

LEMMA UseIsQuiet ==
  ASSUME CInv, UNCHANGED <<creation, procCount, claudeCount, raced>>,
         \A c \in Calls : (proc'[c].kept <=> proc[c].kept) /\ (claude'[c].kept <=> claude[c].kept)
  PROVE  CInv'
<1>1. CTypes'
  BY DEF CInv, CTypes, creation
<1>2. \A c \in Calls : UnderWay(c)'
  BY DEF CInv, UnderWay, creation
<1> QED
  BY <1>1, <1>2, QuietKeeps

-----------------------------------------------------------------------------
(* Counts: creations                                                       *)

\* A creation goes on, or ends, without having entered anything.
LEMMA StageIsQuiet ==
  ASSUME EInv, CInv, NEW o \in Calls, NEW st, NEW n \in Nat, NEW m \in Nat,
         stage' = [stage EXCEPT ![o] = st],
         seen' = [seen EXCEPT ![o] = [procs |-> n, claudes |-> m]],
         UNCHANGED <<proc, procCount, claude, claudeCount, raced>>,
         pty' \in {"unloaded", "loading", "settled"}, cli' \in {"unknown", "found", "missing"},
         stage[o] # "done",
         st = "loading" => n < MaxSessions,
         st \in {"cli", "remote"} \/ (st = "loading" /\ IsClaude(o)) => m < MaxClaude
  PROVE  CInv'
<1>1. seen' \in [Calls -> [procs : Nat, claudes : Nat]]
  BY DEF CInv, CTypes
<1>2. CTypes'
  BY <1>1 DEF CInv, CTypes
<1>3. /\ stage'[o] = st /\ \A c \in Calls \ {o} : stage'[c] = stage[c]
      /\ seen'[o].procs = n /\ seen'[o].claudes = m
      /\ \A c \in Calls \ {o} : seen'[c] = seen[c]
  BY DEF EInv, CInv, CTypes
<1>4. \A c \in Calls \ {o} : UnderWay(c)'
  BY <1>3 DEF CInv, UnderWay
<1>5. UnderWay(o)'
  BY <1>3 DEF CInv, UnderWay
<1> QED
  BY <1>2, <1>4, <1>5, QuietKeeps

LEMMA RefuseCounts ==
  ASSUME EInv, CInv, NEW o \in Calls, Refuse(o), stage[o] # "done",
         pty' \in {"unloaded", "loading", "settled"}, cli' \in {"unknown", "found", "missing"}
  PROVE  CInv'
<1>1. seen' = [seen EXCEPT ![o] = [procs |-> 0, claudes |-> 0]]
  BY DEF Refuse, Unread
<1>2. /\ stage' = [stage EXCEPT ![o] = "done"]
      /\ UNCHANGED <<proc, procCount, claude, claudeCount, raced>>
  BY DEF Refuse
<1>3. 0 \in Nat /\ "done" # "loading" /\ "done" \notin {"cli", "remote"}
  OBVIOUS
<1> QED
  BY <1>1, <1>2, <1>3, StageIsQuiet

\* The counts that were read are written back, one higher: right unless they
\* have changed in the meantime.
LEMMA RegisterCounts ==
  ASSUME EInv, CInv, NEW o \in Calls, NEW read \in [procs : Nat, claudes : Nat],
         Register(o, read), stage[o] # "done",
         read.procs < MaxSessions, IsClaude(o) => read.claudes < MaxClaude,
         pty' \in {"unloaded", "loading", "settled"}, cli' \in {"unknown", "found", "missing"}
  PROVE  CInv'
<1> DEFINE v == User(o)
<1>1. v \in Users
  BY UserOfType DEF User
<1>2. /\ read.procs \in Nat /\ read.claudes \in Nat
      /\ ~proc[o].kept /\ ~claude[o].kept
  BY DEF CInv, UnderWay
<1>3. /\ procCount' = [procCount EXCEPT ![v] = read.procs + 1]
      /\ procCount'[v] = read.procs + 1
      /\ \A u \in Users \ {v} : procCount'[u] = procCount[u]
  BY <1>1 DEF Register, CInv, CTypes
<1>4. procCount' \in [Users -> Nat]
  <2>1. read.procs + 1 \in Nat
    BY <1>2
  <2> QED
    BY <1>3, <2>1 DEF CInv, CTypes
<1>5. /\ claudeCount' \in [Users -> Nat]
      /\ \A u \in Users \ {v} : claudeCount'[u] = claudeCount[u]
      /\ IsClaude(o) => claudeCount'[v] = read.claudes + 1
      /\ ~IsClaude(o) => claudeCount' = claudeCount
  BY <1>1, <1>2 DEF Register, CInv, CTypes
<1>6. /\ raced \subseteq raced' /\ raced' \subseteq Users
      /\ v \notin raced' => /\ read.procs = procCount[v]
                            /\ IsClaude(o) => read.claudes = claudeCount[v]
  BY <1>1 DEF Register, CInv, CTypes
<1>7. /\ seen' \in [Calls -> [procs : Nat, claudes : Nat]]
      /\ \A c \in Calls \ {o} : seen'[c] = seen[c]
  BY DEF Register, Unread, CInv, CTypes
<1>8. CTypes'
  BY <1>4, <1>5, <1>6, <1>7 DEF CInv, CTypes
<1>9. /\ proc'[o].kept /\ \A c \in Calls \ {o} : proc'[c] = proc[c]
      /\ stage'[o] = "done" /\ \A c \in Calls \ {o} : stage'[c] = stage[c]
  <2>1. NoProc \in ProcRecord
    BY NoProcIsSound DEF Sound
  <2>2. Spawned.kept
    BY <2>1 DEF Spawned, ProcRecord
  <2> QED
    BY <2>2 DEF Register, EInv
<1>10. /\ \A c \in Calls \ {o} : claude'[c].kept <=> claude[c].kept
       /\ claude'[o].kept <=> IsClaude(o)
  <2>1. CASE IsClaude(o)
    <3> DEFINE q == [claude[o] EXCEPT !.kept = TRUE]
    <3>1. claude[o] \in ClaudeRecord
      BY DEF EInv
    <3>2. q.kept
      BY <3>1 DEF ClaudeRecord
    <3>3. claude' = [claude EXCEPT ![o] = q]
      BY <2>1 DEF Register
    <3> HIDE DEF q
    <3> QED
      BY <2>1, <3>2, <3>3 DEF EInv
  <2>2. CASE ~IsClaude(o)
    BY <1>2, <2>2 DEF Register
  <2> QED
    BY <2>1, <2>2
<1>11. \A c \in Calls : UnderWay(c)'
  <2>1. UnderWay(o)'
    BY <1>9 DEF UnderWay
  <2>2. \A c \in Calls \ {o} : UnderWay(c)'
    BY <1>7, <1>9, <1>10 DEF CInv, UnderWay
  <2> QED
    BY <2>1, <2>2
<1>12. /\ Kept(v)' = Kept(v) \union {o} /\ o \notin Kept(v)
       /\ \A u \in Users \ {v} : Kept(u)' = Kept(u)
  BY <1>2, <1>9 DEF Kept
<1>13. /\ KeptClaude(v)' = IF IsClaude(o) THEN KeptClaude(v) \union {o} ELSE KeptClaude(v)
       /\ o \notin KeptClaude(v)
       /\ \A u \in Users \ {v} : KeptClaude(u)' = KeptClaude(u)
  BY <1>2, <1>10 DEF KeptClaude
<1> HIDE DEF v
<1>14. FewKept'
  <2>1. IsFiniteSet(Kept(v) \union {o}) /\ IsFiniteSet(KeptClaude(v) \union {o})
    BY <1>1, FS_AddElement DEF CInv, FewKept
  <2> QED
    BY <1>1, <1>12, <1>13, <2>1 DEF CInv, FewKept
<1>15. ASSUME NEW u \in Users \ raced'
       PROVE  /\ Tally(procCount'[u], Kept(u)', MaxSessions)
              /\ Tally(claudeCount'[u], KeptClaude(u)', MaxClaude)
  <2>1. /\ Tally(procCount[u], Kept(u), MaxSessions)
        /\ Tally(claudeCount[u], KeptClaude(u), MaxClaude)
    BY <1>6, Tallies
  <2>2. CASE u # v
    BY <1>3, <1>5, <1>12, <1>13, <2>1, <2>2
  <2>3. CASE u = v
    <3>1. Tally(procCount'[v], Kept(v)', MaxSessions)
      BY <1>3, <1>6, <1>12, <2>1, <2>3, UserLimits, TallyAdd
    <3>2. CASE IsClaude(o)
      <4>1. Tally(claudeCount'[v], KeptClaude(v)', MaxClaude)
        BY <1>5, <1>6, <1>13, <2>1, <2>3, <3>2, UserLimits, TallyAdd
      <4> QED
        BY <2>3, <3>1, <4>1
    <3>3. CASE ~IsClaude(o)
      BY <1>5, <1>13, <2>1, <2>3, <3>1, <3>3
    <3> QED
      BY <3>2, <3>3
  <2> QED
    BY <2>2, <2>3
<1>16. CountsAgree'
  BY <1>15 DEF CountsAgree, Tally
<1> QED
  BY <1>8, <1>11, <1>14, <1>16 DEF CInv

LEMMA ReadsType ==
  ASSUME CInv, NEW o \in Calls, NEW n \in Nat
  PROVE  /\ Reads(o, n) \in [procs : Nat, claudes : Nat]
         /\ Reads(o, n) = [procs |-> procCount[User(o)], claudes |-> n]
         /\ Reads(o, n).procs = procCount[User(o)] /\ Reads(o, n).claudes = n
         /\ procCount[User(o)] \in Nat /\ claudeCount[User(o)] \in Nat
<1>1. User(o) \in Users
  BY UserOfType DEF User
<1> QED
  BY <1>1 DEF Reads, CInv, CTypes

LEMMA SpawnCounts ==
  ASSUME EInv, CInv, NEW o \in Calls, NEW n \in Nat, Spawn(o, n), stage[o] # "done",
         IsClaude(o) => n < MaxClaude,
         cli' \in {"unknown", "found", "missing"}
  PROVE  CInv'
<1>1. pty' \in {"unloaded", "loading", "settled"}
  BY DEF Spawn, CInv, CTypes
<1>2. CASE Refuse(o)
  BY <1>1, <1>2, RefuseCounts
<1>3. CASE procCount[User(o)] < MaxSessions /\ Register(o, Reads(o, n))
  BY <1>1, <1>3, ReadsType, RegisterCounts
<1>4. CASE /\ procCount[User(o)] < MaxSessions
           /\ stage' = [stage EXCEPT ![o] = "loading"]
           /\ seen' = [seen EXCEPT ![o] = Reads(o, n)]
           /\ UNCHANGED <<proc, procCount, claude, claudeCount, raced>>
  BY <1>1, <1>4, ReadsType, StageIsQuiet
<1> QED
  BY <1>2, <1>3, <1>4 DEF Spawn

\* The count of Claude sessions that was read is passed on to the stage of the
\* node, and the count of processes left as it was.
LEMMA ClaudesRead ==
  ASSUME CInv, NEW o \in Calls, NEW n \in Nat
  PROVE  /\ seen[o].procs \in Nat /\ seen[o].claudes \in Nat /\ seen[o] \in [procs : Nat, claudes : Nat]
         /\ [seen EXCEPT ![o].claudes = n] =
              [seen EXCEPT ![o] = [procs |-> seen[o].procs, claudes |-> n]]
<1>1. seen[o] \in [procs : Nat, claudes : Nat]
  BY DEF CInv, CTypes
<1>2. [seen[o] EXCEPT !.claudes = n] = [procs |-> seen[o].procs, claudes |-> n]
  BY <1>1
<1> QED
  BY <1>1, <1>2

\* A creation waits for the tool or for the node with a count below the limit.
LEMMA WaitIsQuiet ==
  ASSUME EInv, CInv, NEW o \in Calls, NEW st \in {"cli", "remote"}, NEW n \in Nat,
         stage' = [stage EXCEPT ![o] = st], seen' = [seen EXCEPT ![o].claudes = n],
         UNCHANGED <<proc, procCount, claude, claudeCount, raced, pty>>,
         cli' \in {"unknown", "found", "missing"}, stage[o] # "done", n < MaxClaude
  PROVE  CInv'
<1>1. pty' \in {"unloaded", "loading", "settled"}
  BY DEF CInv, CTypes
<1>2. /\ seen' = [seen EXCEPT ![o] = [procs |-> seen[o].procs, claudes |-> n]]
      /\ seen[o].procs \in Nat
  BY ClaudesRead
<1>3. st # "loading"
  OBVIOUS
<1> QED
  BY <1>1, <1>2, <1>3, StageIsQuiet

LEMMA ProceedCounts ==
  ASSUME EInv, CInv, NEW o \in Calls, NEW n \in Nat, Proceed(o, n), stage[o] # "done",
         n < MaxClaude, cli' \in {"unknown", "found", "missing"}
  PROVE  CInv'
<1>1. CASE Refuse(o) /\ UNCHANGED pty
  BY <1>1, RefuseCounts DEF CInv, CTypes
<1>2. CASE Spawn(o, n)
  BY <1>2, SpawnCounts
<1>3. CASE /\ stage' = [stage EXCEPT ![o] = "remote"]
           /\ seen' = [seen EXCEPT ![o].claudes = n]
           /\ UNCHANGED <<proc, procCount, claude, claudeCount, raced, pty>>
  BY <1>3, WaitIsQuiet
<1> QED
  BY <1>1, <1>2, <1>3 DEF Proceed

LEMMA CreationCounts ==
  ASSUME EInv, CInv, NEW o \in Calls,
         Exec(o) \/ PtyLoaded(o) \/ StartClaude(o) \/ CliChecked(o) \/ RemoteStarted(o)
  PROVE  CInv'
<1>1. /\ pty \in {"unloaded", "loading", "settled"} /\ cli \in {"unknown", "found", "missing"}
      /\ UnderWay(o)
  BY DEF CInv, CTypes
<1>2. CASE Exec(o)
  BY <1>1, <1>2, SpawnCounts DEF Exec
<1>3. CASE PtyLoaded(o)
  <2>1. /\ stage[o] = "loading" /\ UNCHANGED <<cli>>
        /\ pty' \in {"unloaded", "loading", "settled"}
        /\ Register(o, seen[o]) \/ Refuse(o)
    BY <1>3 DEF PtyLoaded
  <2>2. seen[o].procs < MaxSessions /\ (IsClaude(o) => seen[o].claudes < MaxClaude)
    BY <1>1, <2>1 DEF UnderWay
  <2>3. seen[o] \in [procs : Nat, claudes : Nat]
    BY DEF CInv, CTypes
  <2> QED
    BY <1>1, <2>1, <2>2, <2>3, RegisterCounts, RefuseCounts
<1>4. CASE StartClaude(o)
  <2>1. stage[o] = "idle" /\ UNCHANGED <<cli>> /\ claudeCount[User(o)] \in Nat
    BY <1>4, ReadsType DEF StartClaude
  <2>2. CASE Refuse(o) /\ UNCHANGED pty
    BY <1>1, <2>1, <2>2, RefuseCounts
  <2>3. CASE /\ claudeCount[User(o)] < MaxClaude
             /\ stage' = [stage EXCEPT ![o] = "cli"]
             /\ seen' = [seen EXCEPT ![o].claudes = claudeCount[User(o)]]
             /\ UNCHANGED <<proc, procCount, claude, claudeCount, raced, pty>>
    BY <1>1, <2>1, <2>3, WaitIsQuiet
  <2>4. CASE claudeCount[User(o)] < MaxClaude /\ Proceed(o, claudeCount[User(o)])
    BY <1>1, <2>1, <2>4, ProceedCounts
  <2> QED
    BY <1>4, <2>2, <2>3, <2>4 DEF StartClaude
<1>5. CASE CliChecked(o)
  <2>1. /\ stage[o] = "cli" /\ cli' \in {"unknown", "found", "missing"}
        /\ Proceed(o, seen[o].claudes) \/ (Refuse(o) /\ UNCHANGED pty)
    BY <1>5 DEF CliChecked
  <2>2. seen[o].claudes < MaxClaude /\ seen[o].claudes \in Nat
    BY <1>1, <2>1, ClaudesRead DEF UnderWay
  <2> QED
    BY <1>1, <2>1, <2>2, ProceedCounts, RefuseCounts
<1>6. CASE RemoteStarted(o)
  <2>1. /\ stage[o] = "remote" /\ UNCHANGED <<pty, cli>>
        /\ \/ procCount[User(o)] < MaxSessions /\ Register(o, Reads(o, seen[o].claudes))
           \/ Refuse(o)
    BY <1>6 DEF RemoteStarted
  <2>2. seen[o].claudes < MaxClaude /\ seen[o].claudes \in Nat
    BY <1>1, <2>1, ClaudesRead DEF UnderWay
  <2> QED
    BY <1>1, <2>1, <2>2, ReadsType, RegisterCounts, RefuseCounts
<1> QED
  BY <1>2, <1>3, <1>4, <1>5, <1>6

-----------------------------------------------------------------------------
(* Counts: sessions in use, removed and stopped                            *)

\* What happens to a process that stays in the map, or that was not in it
LEMMA ChangeIsQuiet ==
  ASSUME EInv, CInv, NEW o \in Calls, NEW p, Change(o, p), p.kept <=> proc[o].kept
  PROVE  CInv'
<1>1. \A c \in Calls : (proc'[c].kept <=> proc[c].kept) /\ (claude'[c].kept <=> claude[c].kept)
  BY DEF Change, EInv
<1> QED
  BY <1>1, UseIsQuiet DEF Change

LEMMA RemovedIsGone ==
  ASSUME NEW p
  PROVE  ~Removed(p).kept /\ ~NoProc.kept
<1>1. NoProc \in ProcRecord
  BY NoProcIsSound DEF Sound
<1>2. ~NoProc.kept
  BY DEF NoProc
<1> QED
  BY <1>1, <1>2 DEF Removed, ProcRecord

LEMMA ProcessCounts ==
  ASSUME EInv, CInv, NEW o \in Calls,
         \/ Exit(o) \/ Output(o) \/ Idles(o)
         \/ \E u \in Users : \/ WriteToSession(u, o) \/ PollOutput(u, o)
                             \/ GetFullLog(u, o) \/ KillSession(u, o)
  PROVE  CInv'
<1>1. Sound(proc[o])
  BY DEF EInv
<1>2. CASE Exit(o)
  BY <1>1, <1>2, ExitIsTame, RemovedIsGone, ChangeIsQuiet DEF Exit
<1>3. CASE Change(o, Active(proc[o]))
  BY <1>1, <1>3, ActiveIsTame, ChangeIsQuiet
<1>4. ASSUME NEW late \in BOOLEAN, Change(o, [proc[o] EXCEPT !.overdue = late])
      PROVE  CInv'
  BY <1>1, <1>4, OverdueIsTame, ChangeIsQuiet
<1>5. ASSUME NEW p \in Killed(proc[o]), Change(o, p)
      PROVE  CInv'
  BY <1>1, <1>5, KilledIsTame, ChangeIsQuiet
<1> QED
  BY <1>2, <1>3, <1>4, <1>5
  DEF Output, Idles, WriteToSession, GetFullLog, PollOutput, KillSession

\* As many slots of each user come back as of his sessions are removed.
LEMMA CleanupCounts ==
  ASSUME EInv, CInv, CleanupProcesses
  PROVE  CInv'
<1> DEFINE old == {o \in Calls : proc[o].overdue}
<1>1. /\ proc' = [o \in Calls |-> IF o \in old THEN Removed(proc[o]) ELSE proc[o]]
      /\ procCount' = [u \in Users |-> SlotsWithout(u, old)]
      /\ UNCHANGED <<creation, claude, claudeCount, raced>>
  BY DEF CleanupProcesses
<1> HIDE DEF old
<1>2. \A c \in Calls : proc'[c].kept <=> proc[c].kept /\ c \notin old
  BY <1>1, RemovedIsGone
<1>3. \A u \in Users : Kept(u)' = Kept(u) \ old /\ KeptClaude(u)' = KeptClaude(u)
  BY <1>1, <1>2 DEF Kept, KeptClaude
<1>4. \A u \in Users : procCount'[u] = Less(procCount[u], Cardinality(old \intersect Kept(u)))
  BY <1>1 DEF SlotsWithout
<1>5. FewKept'
  <2>1. \A u \in Users : IsFiniteSet(Kept(u)) /\ IsFiniteSet(KeptClaude(u))
    BY DEF CInv, FewKept
  <2>2. ASSUME NEW u \in Users
        PROVE  IsFiniteSet(Kept(u) \ old)
    BY <2>1, FS_Difference
  <2> QED
    BY <1>3, <2>1, <2>2 DEF FewKept
<1>6. procCount' \in [Users -> Nat]
  <2>1. ASSUME NEW u \in Users
        PROVE  SlotsWithout(u, old) \in Nat
    <3>1. IsFiniteSet(old \intersect Kept(u))
      BY FS_Subset DEF CInv, FewKept
    <3>2. Cardinality(old \intersect Kept(u)) \in Nat /\ procCount[u] \in Nat
      BY <3>1, FS_CardinalityType DEF CInv, CTypes
    <3> QED
      BY <3>2 DEF SlotsWithout, Less
  <2> QED
    BY <1>1, <2>1
<1>7. CountsAgree'
  <2>1. ASSUME NEW u \in Users \ raced
        PROVE  /\ Tally(procCount'[u], Kept(u)', MaxSessions)
               /\ Tally(claudeCount'[u], KeptClaude(u)', MaxClaude)
    <3>1. /\ Tally(procCount[u], Kept(u), MaxSessions)
          /\ Tally(claudeCount[u], KeptClaude(u), MaxClaude)
      BY Tallies
    <3>2. Tally(Less(procCount[u], Cardinality(old \intersect Kept(u))), Kept(u) \ old, MaxSessions)
      BY <3>1, TallyWithout, UserLimits
    <3> QED
      BY <1>1, <1>3, <1>4, <3>1, <3>2
  <2> QED
    BY <1>1, <2>1 DEF CountsAgree, Tally
<1>8. CTypes'
  BY <1>1, <1>6 DEF CInv, CTypes, creation
<1>9. \A c \in Calls : UnderWay(c)'
  BY <1>1, <1>2 DEF CInv, UnderWay, creation
<1> QED
  BY <1>5, <1>7, <1>8, <1>9 DEF CInv

\* A Claude session is given up and the count lowered: by one session too many
\* if it was given up before, which marks the user.
LEMMA FreeCounts ==
  ASSUME EInv, CInv, NEW o \in Calls, FreeClaude(o), UNCHANGED <<creation, procCount>>,
         \A c \in Calls : proc'[c].kept <=> proc[c].kept,
         NEW k, claude' = [claude EXCEPT ![o] = k], ~k.kept,
         raced' = IF claude[o].kept THEN raced ELSE raced \union {User(o)}
  PROVE  CInv'
<1> DEFINE v == User(o)
<1>1. v \in Users
  BY UserOfType DEF User
<1>2. /\ claudeCount'[v] = Less(claudeCount[v], 1)
      /\ \A u \in Users \ {v} : claudeCount'[u] = claudeCount[u]
  BY <1>1 DEF FreeClaude, CInv, CTypes
<1>3. claudeCount' \in [Users -> Nat]
  <2>1. Less(claudeCount[v], 1) \in Nat
    BY <1>1 DEF Less, CInv, CTypes
  <2> QED
    BY <2>1 DEF FreeClaude, CInv, CTypes
<1>4. \A c \in Calls : claude'[c].kept <=> claude[c].kept /\ c # o
  BY DEF EInv
<1>5. \A u \in Users : Kept(u)' = Kept(u) /\ KeptClaude(u)' = KeptClaude(u) \ {o}
  BY <1>4 DEF Kept, KeptClaude
<1>6. \A u \in Users \ {v} : o \notin KeptClaude(u)
  BY DEF KeptClaude
<1>7. claude[o].kept => o \in KeptClaude(v)
  BY DEF KeptClaude
<1> HIDE DEF v
<1>8. FewKept'
  <2>1. \A u \in Users : IsFiniteSet(Kept(u)) /\ IsFiniteSet(KeptClaude(u))
    BY DEF CInv, FewKept
  <2>2. ASSUME NEW u \in Users
        PROVE  IsFiniteSet(KeptClaude(u) \ {o})
    BY <2>1, FS_RemoveElement
  <2> QED
    BY <1>5, <2>1, <2>2 DEF FewKept
<1>9. ASSUME NEW u \in Users \ raced'
      PROVE  /\ Tally(procCount'[u], Kept(u)', MaxSessions)
             /\ Tally(claudeCount'[u], KeptClaude(u)', MaxClaude)
  <2>1. u \in Users \ raced /\ (u = v => claude[o].kept)
    <3>1. CASE claude[o].kept
      BY <3>1
    <3>2. CASE ~claude[o].kept
      BY <3>2 DEF v
    <3> QED
      BY <3>1, <3>2
  <2>2. CASE u # v
    <3>1. o \notin KeptClaude(u) /\ KeptClaude(u)' = KeptClaude(u) \ {o}
      BY <1>5, <1>6, <2>1, <2>2
    <3>2. KeptClaude(u)' = KeptClaude(u)
      BY <3>1
    <3> QED
      BY <1>2, <1>5, <2>1, <2>2, <3>2, Tallies
  <2>3. CASE u = v
    BY <1>2, <1>5, <1>7, <2>1, <2>3, Tallies, TallyOneLess, UserLimits
  <2> QED
    BY <2>2, <2>3
<1>10. CountsAgree'
  BY <1>9 DEF CountsAgree, Tally
<1>11. CTypes'
  BY <1>1, <1>3 DEF CInv, CTypes, creation, v
<1>12. \A c \in Calls : UnderWay(c)'
  BY <1>4 DEF CInv, UnderWay, creation
<1> QED
  BY <1>8, <1>10, <1>11, <1>12 DEF CInv

LEMMA UseCounts ==
  ASSUME EInv, CInv, NEW o \in Calls, NEW p, UseClaude(o, p), p.kept <=> proc[o].kept
  PROVE  CInv'
<1> DEFINE k == [claude[o] EXCEPT !.stale = FALSE]
<1>1. k.kept = claude[o].kept /\ claude' = [claude EXCEPT ![o] = k]
  BY Same, StaleClaude DEF UseClaude
<1> HIDE DEF k
<1>2. \A c \in Calls : claude'[c].kept <=> claude[c].kept
  BY <1>1 DEF EInv
<1>3. \A c \in Calls : proc'[c].kept <=> proc[c].kept
  BY DEF UseClaude, EInv
<1> QED
  BY <1>2, <1>3, UseIsQuiet DEF UseClaude

LEMMA StopCounts ==
  ASSUME EInv, CInv, NEW o \in Calls, StopSession(o)
  PROVE  CInv'
<1>1. claude[o].kept /\ UNCHANGED <<creation, procCount, remote, raced>>
  BY DEF StopSession
<1>2. CASE KindOf[o] = "claude"
  <2> DEFINE p == IF proc[o].kept THEN Active(proc[o]) ELSE proc[o]
  <2>1. /\ claude' = [claude EXCEPT ![o] = NoClaude] /\ FreeClaude(o)
        /\ \E q \in Killed(p) : proc' = [proc EXCEPT ![o] = q]
    BY <1>2 DEF StopSession
  <2>2. Sound(p) /\ p.kept = proc[o].kept
    BY Same, ActiveIsTame DEF Tame
  <2> HIDE DEF p
  <2>3. \A q \in Killed(p) : q.kept = proc[o].kept
    BY <2>2, KilledIsTame
  <2>4. \A c \in Calls : proc'[c].kept <=> proc[c].kept
    BY <2>1, <2>3 DEF EInv
  <2>5. ~NoClaude.kept
    BY DEF NoClaude
  <2> QED
    BY <1>1, <2>1, <2>4, <2>5, FreeCounts
<1>3. CASE claude' = [claude EXCEPT ![o].stops = @ + 1] /\ UNCHANGED <<proc, claudeCount>>
  <2> DEFINE k == [claude[o] EXCEPT !.stops = claude[o].stops + 1]
  <2>1. k.kept = claude[o].kept
    BY Same DEF ClaudeRecord
  <2>2. claude' = [claude EXCEPT ![o] = k]
    BY <1>3
  <2> HIDE DEF k
  <2>3. \A c \in Calls : claude'[c].kept <=> claude[c].kept
    BY <2>1, <2>2 DEF EInv
  <2> QED
    BY <1>1, <1>3, <2>3, UseIsQuiet
<1> QED
  BY <1>2, <1>3 DEF StopSession

LEMMA ClaudeCounts ==
  ASSUME EInv, CInv, NEW o \in Calls,
         \/ ClaudeIdles(o) \/ ExpireClaude(o) \/ RemoteStopped(o)
         \/ \E u \in Users : WriteToClaude(u, o) \/ PollClaude(u, o) \/ StopClaude(u, o)
  PROVE  CInv'
<1>1. Sound(proc[o])
  BY DEF EInv
<1>2. CASE ClaudeIdles(o)
  <2> DEFINE k == [claude[o] EXCEPT !.stale = TRUE]
  <2>1. k.kept = claude[o].kept /\ claude' = [claude EXCEPT ![o] = k]
    BY <1>2, Same, StaleClaude DEF ClaudeIdles
  <2> HIDE DEF k
  <2>2. \A c \in Calls : (claude'[c].kept <=> claude[c].kept) /\ proc'[c] = proc[c]
    BY <1>2, <2>1 DEF ClaudeIdles, EInv
  <2> QED
    BY <1>2, <2>2, UseIsQuiet DEF ClaudeIdles
<1>3. CASE RemoteStopped(o)
  <2> DEFINE k == [NoClaude EXCEPT !.stops = claude[o].stops - 1]
  <2>1. NoClaude \in ClaudeRecord /\ ~NoClaude.kept
    BY Limits DEF NoClaude, ClaudeRecord
  <2>2. ~k.kept
    BY <2>1 DEF ClaudeRecord
  <2>3. claude' = [claude EXCEPT ![o] = k]
    BY <1>3 DEF RemoteStopped
  <2> HIDE DEF k
  <2> QED
    BY <1>3, <2>2, <2>3, FreeCounts DEF RemoteStopped
<1>4. ASSUME NEW u \in Users, WriteToClaude(u, o)
      PROVE  CInv'
  BY <1>1, <1>4, ActiveIsTame, UseCounts DEF WriteToClaude
<1>5. ASSUME NEW u \in Users, PollClaude(u, o)
      PROVE  CInv'
  BY <1>1, <1>5, ActiveIsTame, UseCounts DEF PollClaude
<1> QED
  BY <1>2, <1>3, <1>4, <1>5, StopCounts DEF ExpireClaude, StopClaude

-----------------------------------------------------------------------------
LEMMA InitCInv == Init => CInv
<1> SUFFICES ASSUME Init
             PROVE  CInv
  OBVIOUS
<1>1. \A o \in Calls : ~proc[o].kept /\ ~claude[o].kept
  <2>1. ~NoClaude.kept
    BY DEF NoClaude
  <2> QED
    BY <2>1, RemovedIsGone DEF Init
<1>2. \A u \in Users : Kept(u) = {} /\ KeptClaude(u) = {}
  BY <1>1 DEF Kept, KeptClaude
<1>3. FewKept
  BY <1>2, FS_EmptySet DEF FewKept
<1>4. \A u \in Users : procCount[u] = 0 /\ claudeCount[u] = 0
  BY DEF Init
<1>5. CountsAgree
  BY <1>2, <1>4, FS_EmptySet, UserLimits DEF CountsAgree
<1>6. \A o \in Calls : UnderWay(o)
  BY <1>1 DEF UnderWay, Init
<1>7. CTypes
  <2>1. Unread \in [procs : Nat, claudes : Nat]
    BY DEF Unread
  <2> QED
    BY <2>1, UserLimits DEF CTypes, Init
<1> QED
  BY <1>3, <1>5, <1>6, <1>7 DEF CInv

LEMMA NextCInv == EInv /\ CInv /\ [Next]_vars => CInv'
<1> SUFFICES ASSUME EInv, CInv, [Next]_vars
             PROVE  CInv'
  OBVIOUS
<1>1. CASE UNCHANGED vars
  BY <1>1, UseIsQuiet DEF vars, sessions
<1>2. CASE Next
  BY <1>2, CreationCounts, ProcessCounts, ClaudeCounts, CleanupCounts DEF Next, UserNext
<1> QED
  BY <1>1, <1>2

LEMMA Counted == Spec => [](EInv /\ CInv)
  BY InitEInv, NextEInv, InitCInv, NextCInv, PTL DEF Spec

\* Every variable of the two managers keeps its type, whatever the creations,
\* processes and users do; in particular no count ever falls below zero.
THEOREM SessionsTyped == Spec => []TypeOK
<1>1. EInv /\ CInv => TypeOK
  BY DEF EInv, CInv, CTypes, TypeOK
<1> QED
  BY <1>1, Counted, PTL

\* Both counts of a user are the numbers of his sessions in the maps, and so
\* both limits hold, unless one came or went while another was created or was
\* stopped twice at once.
THEOREM CountsStayTrue == Spec => []CountsAgree
<1>1. EInv /\ CInv => CountsAgree
  BY DEF CInv
<1> QED
  BY <1>1, Counted, PTL

-----------------------------------------------------------------------------
(* What it takes to race                                                   *)

Waits(o) == stage[o] \in {"cli", "remote", "loading"}

\* While a creation waits, no session of its user comes or goes.
InTurn ==
  \A o \in Calls : Waits(o) /\ Waits(o)' =>
    Kept(User(o))' = Kept(User(o)) /\ KeptClaude(User(o))' = KeptClaude(User(o))

\* A session is not stopped again while it is being stopped.
StoppedOnce == \A o \in Calls : claude[o].stops <= 1

\* What the creation o has read, s and r now being its stage and what it read,
\* is what the counts are.
ReadsTrue(o, s, r) ==
  /\ s = "loading" => r.procs = procCount[User(o)]
  /\ s \in {"cli", "remote"} \/ (s = "loading" /\ IsClaude(o)) =>
       r.claudes = claudeCount[User(o)]

Raceless ==
  /\ raced = {}
  /\ \A o \in Calls : ReadsTrue(o, stage[o], seen[o])
  /\ \A o \in Calls : claude[o].stops > 0 => claude[o].kept

\* The creation o goes on, or ends, with what it read still true.
Prompt(o) ==
  /\ raced' = {}
  /\ \A c \in Calls \ {o} : stage'[c] = stage[c] /\ seen'[c] = seen[c]
  /\ ReadsTrue(o, stage'[o], seen'[o])
  /\ \A c \in Calls : /\ claude'[c].stops = claude[c].stops
                      /\ claude[c].kept => claude'[c].kept

LEMMA RefusesPromptly ==
  ASSUME EInv, CInv, Raceless, NEW o \in Calls, Refuse(o)
  PROVE  Prompt(o)
  BY DEF EInv, CInv, CTypes, Raceless, Refuse, Prompt, ReadsTrue

LEMMA RegistersPromptly ==
  ASSUME EInv, CInv, Raceless, NEW o \in Calls, NEW read, Register(o, read),
         read.procs = procCount[User(o)],
         IsClaude(o) => read.claudes = claudeCount[User(o)]
  PROVE  Prompt(o)
<1>1. raced' = {}
  BY DEF Register, Raceless
<1>2. \A c \in Calls \ {o} : stage'[c] = stage[c] /\ seen'[c] = seen[c]
  BY DEF Register, EInv, CInv, CTypes
<1>3. stage'[o] = "done"
  BY DEF Register, EInv
<1>4. \A c \in Calls : claude'[c].stops = claude[c].stops /\ (claude[c].kept => claude'[c].kept)
  BY DEF Register, EInv, ClaudeRecord
<1> QED
  BY <1>1, <1>2, <1>3, <1>4 DEF Prompt, ReadsTrue

\* The creation o waits, for the import or for something before it.
LEMMA WaitsPromptly ==
  ASSUME EInv, CInv, Raceless, NEW o \in Calls,
         NEW s \in {"cli", "remote", "loading"}, NEW r \in [procs : Nat, claudes : Nat],
         stage' = [stage EXCEPT ![o] = s], seen' = [seen EXCEPT ![o] = r],
         ReadsTrue(o, s, r), UNCHANGED <<claude, raced>>
  PROVE  Prompt(o)
  BY DEF EInv, CInv, CTypes, Raceless, Prompt

LEMMA SpawnsPromptly ==
  ASSUME EInv, CInv, Raceless, NEW o \in Calls, NEW claudes \in Nat, Spawn(o, claudes),
         IsClaude(o) => claudes = claudeCount[User(o)]
  PROVE  Prompt(o)
<1>1. /\ Reads(o, claudes) \in [procs : Nat, claudes : Nat]
      /\ Reads(o, claudes).procs = procCount[User(o)]
      /\ Reads(o, claudes).claudes = claudes
  BY UserOfType DEF Reads, CInv, CTypes, User
<1>2. CASE Refuse(o)
  BY <1>2, RefusesPromptly
<1>3. CASE Register(o, Reads(o, claudes))
  BY <1>1, <1>3, RegistersPromptly
<1>4. CASE /\ stage' = [stage EXCEPT ![o] = "loading"]
           /\ seen' = [seen EXCEPT ![o] = Reads(o, claudes)]
           /\ UNCHANGED <<claude, raced>>
  <2>1. ReadsTrue(o, "loading", Reads(o, claudes))
    BY <1>1 DEF ReadsTrue
  <2> QED
    BY <1>1, <1>4, <2>1, WaitsPromptly
<1> QED
  BY <1>2, <1>3, <1>4 DEF Spawn

LEMMA ProceedsPromptly ==
  ASSUME EInv, CInv, Raceless, NEW o \in Calls, NEW claudes \in Nat, Proceed(o, claudes),
         claudes = claudeCount[User(o)]
  PROVE  Prompt(o)
<1>1. CASE KindOf[o] = "claude_node" /\ stage' = [stage EXCEPT ![o] = "remote"]
           /\ seen' = [seen EXCEPT ![o].claudes = claudes] /\ UNCHANGED <<claude, raced>>
  <2> DEFINE r == [seen[o] EXCEPT !.claudes = claudes]
  <2>1. r \in [procs : Nat, claudes : Nat] /\ r.claudes = claudes
    BY DEF CInv, CTypes
  <2>2. seen' = [seen EXCEPT ![o] = r]
    BY <1>1 DEF CInv, CTypes
  <2> HIDE DEF r
  <2>3. ReadsTrue(o, "remote", r)
    BY <2>1 DEF ReadsTrue
  <2> QED
    BY <1>1, <2>1, <2>2, <2>3, WaitsPromptly
<1> QED
  BY <1>1, RefusesPromptly, SpawnsPromptly DEF Proceed

LEMMA CreationsPrompt ==
  ASSUME EInv, CInv, Raceless, NEW o \in Calls,
         Exec(o) \/ PtyLoaded(o) \/ StartClaude(o) \/ CliChecked(o) \/ RemoteStarted(o)
  PROVE  Prompt(o)
<1>1. User(o) \in Users /\ claudeCount[User(o)] \in Nat /\ procCount[User(o)] \in Nat
      /\ seen[o].claudes \in Nat
  BY UserOfType DEF CInv, CTypes, User
<1>2. ReadsTrue(o, stage[o], seen[o])
  BY DEF Raceless
<1>3. CASE Exec(o)
  BY <1>3, SpawnsPromptly DEF Exec
<1>4. CASE PtyLoaded(o)
  BY <1>2, <1>4, RefusesPromptly, RegistersPromptly DEF PtyLoaded, ReadsTrue
<1>5. CASE StartClaude(o)
  <2>1. CASE stage' = [stage EXCEPT ![o] = "cli"]
             /\ seen' = [seen EXCEPT ![o].claudes = claudeCount[User(o)]]
             /\ UNCHANGED <<claude, raced>>
    <3> DEFINE r == [seen[o] EXCEPT !.claudes = claudeCount[User(o)]]
    <3>1. r \in [procs : Nat, claudes : Nat] /\ r.claudes = claudeCount[User(o)]
      BY <1>1 DEF CInv, CTypes
    <3>2. seen' = [seen EXCEPT ![o] = r]
      BY <2>1 DEF CInv, CTypes
    <3> HIDE DEF r
    <3>3. ReadsTrue(o, "cli", r)
      BY <3>1 DEF ReadsTrue
    <3> QED
      BY <2>1, <3>1, <3>2, <3>3, WaitsPromptly
  <2> QED
    BY <1>1, <1>5, <2>1, RefusesPromptly, ProceedsPromptly DEF StartClaude
<1>6. CASE CliChecked(o)
  BY <1>1, <1>2, <1>6, RefusesPromptly, ProceedsPromptly DEF CliChecked, ReadsTrue
<1>7. CASE RemoteStarted(o)
  <2>1. /\ Reads(o, seen[o].claudes).procs = procCount[User(o)]
        /\ Reads(o, seen[o].claudes).claudes = claudeCount[User(o)]
    BY <1>2, <1>7 DEF RemoteStarted, Reads, ReadsTrue
  <2> QED
    BY <1>7, <2>1, RefusesPromptly, RegistersPromptly DEF RemoteStarted
<1> QED
  BY <1>3, <1>4, <1>5, <1>6, <1>7

\* All other steps leave the creations alone; a session that is being stopped is
\* still there, and the one whose stop has ended is not being stopped.
LEMMA OthersPrompt ==
  ASSUME EInv, Raceless, StoppedOnce, NEW o \in Calls,
         \/ Exit(o) \/ Output(o) \/ Idles(o) \/ ClaudeIdles(o) \/ ExpireClaude(o) \/ RemoteStopped(o)
         \/ \E u \in Users : UserNext(u, o)
         \/ CleanupProcesses
  PROVE  /\ raced' = {} /\ UNCHANGED <<stage, seen>>
         /\ \A c \in Calls : claude'[c].stops > 0 => claude'[c].kept
<1>1. claude[o] \in ClaudeRecord /\ (claude[o].stops > 0 => claude[o].kept)
  BY DEF EInv, Raceless
<1>2. NoClaude.stops = 0 /\ NoClaude \in ClaudeRecord
  BY Limits DEF NoClaude, ClaudeRecord
<1>3. CASE UNCHANGED <<creation, claude, raced>>
  BY <1>3 DEF Raceless, creation
<1>4. CASE ClaudeIdles(o)
  BY <1>1, <1>4 DEF ClaudeIdles, Raceless, creation, EInv, ClaudeRecord
<1>5. CASE StopSession(o)
  BY <1>1, <1>2, <1>5 DEF StopSession, Raceless, creation, EInv, ClaudeRecord
<1>6. CASE RemoteStopped(o)
  <2>1. claude[o].stops = 1 /\ claude[o].kept
    BY <1>1, <1>6, Limits DEF RemoteStopped, StoppedOnce, ClaudeRecord
  <2>2. [NoClaude EXCEPT !.stops = claude[o].stops - 1].stops = 0
    BY <1>2, <2>1 DEF ClaudeRecord
  <2> QED
    BY <1>6, <2>1, <2>2 DEF RemoteStopped, Raceless, creation, EInv
<1>7. ASSUME NEW p, UseClaude(o, p)
      PROVE  /\ raced' = {} /\ UNCHANGED <<stage, seen>>
             /\ \A c \in Calls : claude'[c].stops > 0 => claude'[c].kept
  BY <1>1, <1>7 DEF UseClaude, Raceless, creation, EInv, ClaudeRecord
<1>8. ASSUME NEW u \in Users, UserNext(u, o)
      PROVE  /\ raced' = {} /\ UNCHANGED <<stage, seen>>
             /\ \A c \in Calls : claude'[c].stops > 0 => claude'[c].kept
  <2>1. CASE WriteToSession(u, o) \/ PollOutput(u, o) \/ GetFullLog(u, o) \/ KillSession(u, o)
    BY <1>3, <2>1 DEF WriteToSession, PollOutput, GetFullLog, KillSession, Change
  <2>2. CASE WriteToClaude(u, o) \/ PollClaude(u, o)
    BY <1>7, <2>2 DEF WriteToClaude, PollClaude
  <2>3. CASE StopClaude(u, o)
    BY <1>5, <2>3 DEF StopClaude
  <2> QED
    BY <1>8, <2>1, <2>2, <2>3 DEF UserNext
<1>9. CASE Exit(o) \/ Output(o) \/ Idles(o) \/ CleanupProcesses
  BY <1>3, <1>9 DEF Exit, Output, Idles, CleanupProcesses, Change
<1> QED
  BY <1>4, <1>5, <1>6, <1>8, <1>9 DEF ExpireClaude

\* Counts that agree with the sessions do not change as long as these do not.
LEMMA NextRaceless ==
  EInv /\ CInv /\ Raceless /\ StoppedOnce /\ CInv' /\ [Next]_vars /\ [InTurn]_vars => Raceless'
<1> SUFFICES ASSUME EInv, CInv, Raceless, StoppedOnce, CInv', [Next]_vars, [InTurn]_vars
             PROVE  Raceless'
  OBVIOUS
<1>1. CASE UNCHANGED vars
  BY <1>1 DEF vars, creation, sessions, Raceless, ReadsTrue
<1>2. ASSUME raced' = {}, InTurn, NEW c \in Calls, Waits(c), Waits(c)',
             stage'[c] = stage[c], seen'[c] = seen[c]
      PROVE  ReadsTrue(c, stage[c], seen[c])'
  <2>1. User(c) \in Users \ raced /\ User(c) \in Users \ raced'
    BY <1>2, UserOfType DEF User, Raceless
  <2>2. /\ procCount[User(c)] = Cardinality(Kept(User(c)))
        /\ claudeCount[User(c)] = Cardinality(KeptClaude(User(c)))
    BY <2>1 DEF CInv, CountsAgree
  <2>3. /\ procCount'[User(c)] = Cardinality(Kept(User(c))')
        /\ claudeCount'[User(c)] = Cardinality(KeptClaude(User(c))')
    BY <2>1 DEF CInv, CountsAgree
  <2>4. procCount'[User(c)] = procCount[User(c)] /\ claudeCount'[User(c)] = claudeCount[User(c)]
    BY <1>2, <2>2, <2>3 DEF InTurn
  <2>5. ReadsTrue(c, stage[c], seen[c])
    BY DEF Raceless
  <2> QED
    BY <1>2, <2>4, <2>5 DEF ReadsTrue
<1>3. \A c \in Calls : ~Waits(c)' => ReadsTrue(c, stage[c], seen[c])'
  BY DEF Waits, ReadsTrue
<1>4. ASSUME NEW o \in Calls, InTurn,
             Exec(o) \/ PtyLoaded(o) \/ StartClaude(o) \/ CliChecked(o) \/ RemoteStarted(o)
      PROVE  Raceless'
  <2>1. Prompt(o)
    BY <1>4, CreationsPrompt
  <2>2. \A c \in Calls \ {o} : ReadsTrue(c, stage[c], seen[c])'
    BY <1>2, <1>3, <1>4, <2>1 DEF Prompt, Waits
  <2>3. Waits(o)' => UNCHANGED <<procCount, claudeCount>>
    BY <1>4 DEF Exec, PtyLoaded, StartClaude, CliChecked, RemoteStarted, Proceed, Spawn, Register,
       Refuse, Waits, EInv
  <2>4. ReadsTrue(o, stage[o], seen[o])'
    BY <1>3, <2>1, <2>3 DEF Prompt, ReadsTrue
  <2>5. \A c \in Calls : claude'[c].stops > 0 => claude'[c].kept
    BY <2>1 DEF Prompt, Raceless
  <2> QED
    BY <2>1, <2>2, <2>4, <2>5 DEF Prompt, Raceless
<1>5. ASSUME InTurn, raced' = {}, UNCHANGED <<stage, seen>>,
             \A c \in Calls : claude'[c].stops > 0 => claude'[c].kept
      PROVE  Raceless'
  <2>1. \A c \in Calls : ReadsTrue(c, stage[c], seen[c])'
    BY <1>2, <1>3, <1>5 DEF Waits
  <2> QED
    BY <1>5, <2>1 DEF Raceless
<1>6. CASE Next /\ InTurn
  <2>1. ASSUME NEW o \in Calls,
               \/ Exit(o) \/ Output(o) \/ Idles(o)
               \/ ClaudeIdles(o) \/ ExpireClaude(o) \/ RemoteStopped(o)
               \/ \E u \in Users : UserNext(u, o)
        PROVE  Raceless'
    BY <1>5, <1>6, <2>1, OthersPrompt
  <2>2. CASE CleanupProcesses
    <3>1. raced' = {} /\ UNCHANGED <<stage, seen, claude>>
      BY <2>2 DEF CleanupProcesses, creation, Raceless
    <3> QED
      BY <1>5, <1>6, <3>1 DEF Raceless
  <2> QED
    BY <1>4, <1>6, <2>1, <2>2 DEF Next
<1> QED
  BY <1>1, <1>6

\* What CountsAgree excepts is caused by sessions that come or go while another of
\* the same user is created, and by a second stop of one, and by nothing else: for
\* users who take their turns both counts and both limits hold whatever the timing
\* of exits, kills, polls and expiry.
THEOREM OnlyOverlapsMiscount ==
  Spec /\ [][InTurn]_vars /\ []StoppedOnce => [](CountsAgree /\ raced = {})
<1>1. Init => Raceless
  BY DEF Init, Raceless, ReadsTrue, NoClaude
<1>2. CInv => CountsAgree
  BY DEF CInv
<1>3. Raceless => raced = {}
  BY DEF Raceless
<1> QED
  BY <1>1, <1>2, <1>3, Counted, NextRaceless, PTL DEF Spec

-----------------------------------------------------------------------------
(***************************************************************************)
(* Proof that a browser page is lent to one operation at a time, for any   *)
(* keys, calls and limit.                                                  *)
(*                                                                         *)
(* An action is about one key, except those that close the browser. So the *)
(* invariant is a conjunction over the keys, and OthersKeep shows once     *)
(* that the keys an action is not about keep their part of it.             *)
(***************************************************************************)

Everyone == Uses \union Closes

\* A call that holds a session, or waits for one, does so for its own key.
Holds(c) ==
  IF doing[c].stage \in {"idle", "done"} THEN doing[c].on = NoId
  ELSE doing[c].on \in Starts /\ KeyOf[doing[c].on] = KeyOf[c]

\* For a key that is not spoilt the lock flag means what it should: those who
\* use its page or wait for it have the session of the key, only one of them
\* uses it, and the flag is set while and only while one does.
Lent(k) ==
  /\ \A c \in Uses :
       KeyOf[c] = k /\ doing[c].stage \in {"waiting", "using"} =>
         /\ doing[c].on = keyToId[k] /\ doing[c].on \in listed
         /\ doing[c].stage = "using" => doing[c].on \in locked
  /\ \A c, d \in Using(k) : c = d
  /\ \A p \in Starts : KeyOf[p] = k =>
       /\ p \in locked => \E c \in Using(k) : doing[c].on = p
       /\ page[p] = "open" => keyToId[k] = p /\ p \in listed

BInv ==
  /\ BrowserTypeOK
  /\ \A c \in Everyone : Holds(c)
  /\ \A k \in Keys : keyToId[k] # NoId => KeyOf[keyToId[k]] = k
  /\ \A k \in Keys \ spoilt : Lent(k)

-----------------------------------------------------------------------------
\* The session of a key is one of its own starts.
LEMMA SessionOfKey ==
  ASSUME BInv, NEW k \in Keys, NEW p \in Session(k)
  PROVE  p \in Starts /\ p = keyToId[k] /\ KeyOf[p] = k /\ p \in listed
  BY NoIdIsNoStart DEF BInv, BrowserTypeOK, Session

\* What a key's part of the invariant says depends on nothing of other keys.
LEMMA OthersKeep ==
  ASSUME BInv, NEW k \in Keys, Lent(k),
         keyToId'[k] = keyToId[k],
         \A p \in Starts : KeyOf[p] = k =>
           /\ p \in listed' <=> p \in listed
           /\ p \in locked' <=> p \in locked
           /\ page'[p] = "open" => page[p] = "open",
         \A c \in Everyone : KeyOf[c] = k => doing'[c] = doing[c]
  PROVE  Lent(k)'
<1>1. \A c \in Uses : KeyOf[c] = k => doing'[c] = doing[c]
  BY DEF Everyone
<1>2. \A c \in Uses : KeyOf[c] = k /\ doing[c].stage \in {"waiting", "using"} =>
                        doing[c].on \in Starts /\ KeyOf[doing[c].on] = k
  BY DEF BInv, Holds, Everyone
<1>3. Using(k)' = Using(k) /\ \A c \in Using(k) : doing'[c] = doing[c]
  BY <1>1 DEF Using
<1>4. ASSUME NEW c \in Uses, KeyOf[c] = k, doing'[c].stage \in {"waiting", "using"}
      PROVE  /\ doing'[c].on = keyToId'[k] /\ doing'[c].on \in listed'
             /\ doing'[c].stage = "using" => doing'[c].on \in locked'
  BY <1>1, <1>2, <1>4 DEF Lent
<1>5. ASSUME NEW p \in Starts, KeyOf[p] = k
      PROVE  /\ p \in locked' => \E c \in Using(k)' : doing'[c].on = p
             /\ page'[p] = "open" => keyToId'[k] = p /\ p \in listed'
  BY <1>3, <1>5 DEF Lent
<1> QED
  BY <1>3, <1>4, <1>5 DEF Lent

\* A call moves on: of a use or a close only its own key can tell.
LEMMA NowKeeps ==
  ASSUME BInv, NEW c \in Everyone, NEW st, NEW id, Now(c, st, id),
         \/ st \in {"waiting", "using", "closing"} /\ id \in Starts /\ KeyOf[id] = KeyOf[c]
         \/ st = "done" /\ id = NoId
  PROVE  /\ doing' \in [Everyone -> [stage : {"idle", "waiting", "using", "closing", "done"},
                                     on : Starts \union {NoId}]]
         /\ doing'[c] = Call(st, id)
         /\ \A d \in Everyone \ {c} : doing'[d] = doing[d]
         /\ \A d \in Everyone : Holds(d)'
<1>1. Call(st, id) \in [stage : {"idle", "waiting", "using", "closing", "done"},
                        on : Starts \union {NoId}]
  BY DEF Call
<1>2. /\ doing' \in [Everyone -> [stage : {"idle", "waiting", "using", "closing", "done"},
                                  on : Starts \union {NoId}]]
      /\ doing'[c] = Call(st, id)
      /\ \A d \in Everyone \ {c} : doing'[d] = doing[d]
  BY <1>1 DEF Now, BInv, BrowserTypeOK, Everyone
<1>3. Holds(c)'
  BY <1>2 DEF Holds, Call
<1>4. \A d \in Everyone \ {c} : Holds(d)'
  BY <1>2 DEF Holds, BInv
<1> QED
  BY <1>2, <1>3, <1>4

LEMMA KeyOfCall == \A c \in Everyone \union Starts : KeyOf[c] \in Keys
  BY KeyOfType DEF Everyone

-----------------------------------------------------------------------------
(* Starts                                                                  *)

LEMMA StartKeeps ==
  ASSUME BInv, NEW p \in Starts, Start(p)
  PROVE  BInv'
<1>1. BrowserTypeOK' /\ \A q \in Starts : page'[q] = "open" => page[q] = "open"
  BY DEF Start, BInv, BrowserTypeOK
<1>2. \A c \in Everyone : Holds(c)'
  BY DEF Start, BInv, Holds
<1>3. \A k \in Keys \ spoilt' : Lent(k)'
  BY <1>1, OthersKeep DEF Start, BInv
<1> QED
  BY <1>1, <1>2, <1>3 DEF Start, BInv

\* A new page is either the only one of its key, which nobody uses then, or
\* spoils the key.
LEMMA OpenedKeeps ==
  ASSUME BInv, NEW p \in Starts, Opened(p)
  PROVE  BInv'
<1> DEFINE k == KeyOf[p]
<1>1. k \in Keys
  BY KeyOfCall
<1>2. \A c \in Everyone : Holds(c)'
  BY DEF Opened, BInv, Holds
<1>3. CASE UNCHANGED <<listed, keyToId, spoilt>>
  <2>1. \A st \in {"open", "refused"} : page' = [page EXCEPT ![p] = st] => BrowserTypeOK'
    BY <1>3 DEF Opened, BInv, BrowserTypeOK
  <2>2. CASE page' = [page EXCEPT ![p] = "refused"]
    <3>1. \A q \in Starts : page'[q] = "open" => page[q] = "open"
      BY <2>2 DEF BInv, BrowserTypeOK
    <3>2. \A j \in Keys \ spoilt' : Lent(j)'
      BY <1>3, <3>1, OthersKeep DEF Opened, BInv
    <3> QED
      BY <1>2, <1>3, <2>1, <2>2, <3>2 DEF BInv
  <2>3. CASE page' = [page EXCEPT ![p] = "open"] /\ keyToId' = [keyToId EXCEPT ![k] = p]
             /\ listed' = listed \union {p}
             /\ spoilt' = IF Session(k) = {} THEN spoilt ELSE spoilt \union {k}
    <3>1. keyToId[k] = p /\ p \in listed
      BY <1>1, <1>3, <2>3 DEF BInv, BrowserTypeOK
    <3>2. Session(k) # {}
      BY <3>1 DEF Session
    <3>3. k \in spoilt'
      BY <2>3, <3>2
    <3>4. \A j \in Keys \ spoilt' : \A q \in Starts :
            KeyOf[q] = j /\ page'[q] = "open" => page[q] = "open"
      BY <2>3, <3>3 DEF BInv, BrowserTypeOK
    <3>5. \A j \in Keys \ spoilt' : Lent(j)'
      BY <1>3, <3>4, OthersKeep DEF Opened, BInv
    <3> QED
      BY <1>2, <1>3, <2>1, <2>3, <3>5 DEF BInv
  <2> QED
    BY <2>2, <2>3 DEF Opened
<1>4. CASE /\ page' = [page EXCEPT ![p] = "open"]
           /\ listed' = listed \union {p}
           /\ keyToId' = [keyToId EXCEPT ![k] = p]
           /\ spoilt' = IF Session(k) = {} THEN spoilt ELSE spoilt \union {k}
  <2>1. BrowserTypeOK'
    BY <1>1, <1>4 DEF Opened, BInv, BrowserTypeOK
  <2>2. \A j \in Keys : keyToId'[j] # NoId => KeyOf[keyToId'[j]] = j
    BY <1>1, <1>4 DEF BInv, BrowserTypeOK
  <2>3. ASSUME NEW j \in Keys \ spoilt', j # k
        PROVE  Lent(j)'
    <3>1. j \in Keys \ spoilt /\ Lent(j)
      BY <1>4, <2>3 DEF BInv
    <3>2. /\ keyToId'[j] = keyToId[j]
          /\ \A q \in Starts : KeyOf[q] = j =>
               /\ q \in listed' <=> q \in listed
               /\ q \in locked' <=> q \in locked
               /\ page'[q] = "open" => page[q] = "open"
          /\ UNCHANGED doing
      BY <1>1, <1>4, <2>3 DEF Opened, BInv, BrowserTypeOK
    <3> QED
      BY <3>1, <3>2, OthersKeep
  <2>4. ASSUME k \notin spoilt'
        PROVE  Lent(k)'
    <3>1. Session(k) = {} /\ Lent(k)
      BY <1>1, <1>4, <2>4 DEF BInv
    <3>2. \A c \in Uses : KeyOf[c] = k => doing[c].stage \notin {"waiting", "using"}
      BY <3>1 DEF Lent, Session
    <3>3. Using(k) = {} /\ Using(k)' = {}
      BY <3>2 DEF Using, Opened
    <3>4. \A q \in Starts : KeyOf[q] = k => q \notin locked /\ (page[q] = "open" => FALSE)
      BY <3>1, <3>3 DEF Lent, Session
    <3>5. keyToId'[k] = p /\ p \in listed'
      BY <1>1, <1>4 DEF BInv, BrowserTypeOK
    <3>6. \A q \in Starts : KeyOf[q] = k => q \notin locked' /\ (page'[q] = "open" => q = p)
      BY <1>4, <3>4 DEF Opened, BInv, BrowserTypeOK
    <3>7. \A c \in Uses : KeyOf[c] = k => doing'[c].stage \notin {"waiting", "using"}
      BY <3>2 DEF Opened
    <3> QED
      BY <3>3, <3>5, <3>6, <3>7 DEF Lent
  <2>5. \A j \in Keys \ spoilt' : Lent(j)'
    BY <2>3, <2>4
  <2> QED
    BY <1>2, <2>1, <2>2, <2>5 DEF BInv
<1> QED
  BY <1>3, <1>4 DEF Opened

-----------------------------------------------------------------------------
(* Uses                                                                    *)

\* A use takes the page whose flag is clear.  If the key is not spoilt it is
\* the page of the key, and then nobody else is using it.
LEMMA TakeKeeps ==
  ASSUME BInv, NEW c \in Uses, NEW p \in Starts, KeyOf[p] = KeyOf[c],
         p \notin locked, Now(c, "using", p), locked' = locked \union {p},
         KeyOf[c] \notin spoilt => p = keyToId[KeyOf[c]] /\ p \in listed,
         UNCHANGED <<page, listed, keyToId, browser, spoilt>>
  PROVE  BInv'
<1> DEFINE k == KeyOf[c]
<1>1. c \in Everyone /\ k \in Keys
  BY KeyOfCall DEF Everyone
<1>2. /\ doing' \in [Everyone -> [stage : {"idle", "waiting", "using", "closing", "done"},
                                  on : Starts \union {NoId}]]
      /\ doing'[c] = Call("using", p)
      /\ \A d \in Everyone \ {c} : doing'[d] = doing[d]
      /\ \A d \in Everyone : Holds(d)'
  BY <1>1, NowKeeps
<1>3. BrowserTypeOK'
  BY <1>2 DEF BInv, BrowserTypeOK, Everyone
<1>4. ASSUME NEW j \in Keys \ spoilt', j # k
      PROVE  Lent(j)'
  <2>1. Lent(j)
    BY DEF BInv
  <2>2. /\ \A q \in Starts : KeyOf[q] = j =>
             /\ q \in listed' <=> q \in listed
             /\ q \in locked' <=> q \in locked
             /\ page'[q] = "open" => page[q] = "open"
        /\ \A d \in Everyone : KeyOf[d] = j => doing'[d] = doing[d]
    BY <1>2, <1>4
  <2> QED
    BY <2>1, <2>2, OthersKeep
<1>5. ASSUME k \notin spoilt
      PROVE  Lent(k)'
  <2>1. Lent(k) /\ p = keyToId[k] /\ p \in listed
    BY <1>1, <1>5 DEF BInv
  <2>2. Using(k) = {}
    BY <2>1 DEF Using, Lent
  <2>3. \A d \in Uses \ {c} : doing'[d] = doing[d]
    BY <1>2 DEF Everyone
  <2>4. doing'[c].stage = "using" /\ doing'[c].on = p
    BY <1>2 DEF Call
  <2>5. Using(k)' = {c}
    BY <2>2, <2>3, <2>4 DEF Using
  <2>6. ASSUME NEW d \in Uses, KeyOf[d] = k, doing'[d].stage \in {"waiting", "using"}
        PROVE  /\ doing'[d].on = keyToId'[k] /\ doing'[d].on \in listed'
               /\ doing'[d].stage = "using" => doing'[d].on \in locked'
    BY <2>1, <2>3, <2>4, <2>6 DEF Lent
  <2>7. ASSUME NEW q \in Starts, KeyOf[q] = k
        PROVE  /\ q \in locked' => q = p
               /\ page'[q] = "open" => keyToId'[k] = q /\ q \in listed'
    BY <2>1, <2>2, <2>7 DEF Lent
  <2> QED
    BY <2>4, <2>5, <2>6, <2>7 DEF Lent
<1>6. \A j \in Keys \ spoilt' : Lent(j)'
  BY <1>4, <1>5
<1> QED
  BY <1>2, <1>3, <1>6 DEF BInv

\* A use that waits or gives up changes no lock.
LEMMA WaitKeeps ==
  ASSUME BInv, NEW c \in Uses, doing[c].stage # "using", NEW st, NEW id, Now(c, st, id),
         \/ st = "done" /\ id = NoId
         \/ st = "waiting" /\ id \in Session(KeyOf[c]),
         UNCHANGED <<page, listed, keyToId, locked, browser, spoilt>>
  PROVE  BInv'
<1> DEFINE k == KeyOf[c]
<1>1. c \in Everyone /\ k \in Keys
  BY KeyOfCall DEF Everyone
<1>2. st = "waiting" => id \in Starts /\ id = keyToId[k] /\ KeyOf[id] = k /\ id \in listed
  BY <1>1, SessionOfKey
<1>3. /\ doing' \in [Everyone -> [stage : {"idle", "waiting", "using", "closing", "done"},
                                  on : Starts \union {NoId}]]
      /\ doing'[c] = Call(st, id)
      /\ \A d \in Everyone \ {c} : doing'[d] = doing[d]
      /\ \A d \in Everyone : Holds(d)'
  BY <1>1, <1>2, NowKeeps
<1>4. BrowserTypeOK'
  BY <1>3 DEF BInv, BrowserTypeOK, Everyone
<1>5. ASSUME NEW j \in Keys \ spoilt'
      PROVE  Lent(j)'
  <2>1. Lent(j)
    BY DEF BInv
  <2>2. doing'[c].stage = st /\ doing'[c].on = id /\ \A d \in Uses \ {c} : doing'[d] = doing[d]
    BY <1>3 DEF Call, Everyone
  <2>3. Using(j)' = Using(j) /\ \A d \in Using(j) : doing'[d] = doing[d]
    BY <2>2 DEF Using
  <2>4. ASSUME NEW d \in Uses, KeyOf[d] = j, doing'[d].stage \in {"waiting", "using"}
        PROVE  /\ doing'[d].on = keyToId'[j] /\ doing'[d].on \in listed'
               /\ doing'[d].stage = "using" => doing'[d].on \in locked'
    <3>1. CASE d = c
      BY <1>2, <2>2, <2>4, <3>1
    <3>2. CASE d # c
      BY <2>1, <2>2, <2>4, <3>2 DEF Lent
    <3> QED
      BY <3>1, <3>2
  <2> QED
    BY <2>1, <2>3, <2>4 DEF Lent
<1> QED
  BY <1>3, <1>4, <1>5 DEF BInv

\* The flag that is cleared is the one the use had set, unless the key is
\* spoilt, and then it is still one of that key.
LEMMA ReleaseKeeps ==
  ASSUME BInv, NEW c \in Uses, ReleaseLock(c)
  PROVE  BInv'
<1> DEFINE k == KeyOf[c]
<1>1. c \in Everyone /\ k \in Keys /\ doing[c].stage = "using"
  BY KeyOfCall DEF Everyone, ReleaseLock
<1>2. /\ doing' \in [Everyone -> [stage : {"idle", "waiting", "using", "closing", "done"},
                                  on : Starts \union {NoId}]]
      /\ doing'[c] = Call("done", NoId)
      /\ \A d \in Everyone \ {c} : doing'[d] = doing[d]
      /\ \A d \in Everyone : Holds(d)'
  BY <1>1, NowKeeps DEF ReleaseLock
<1>3. BrowserTypeOK'
  BY <1>2 DEF ReleaseLock, Unlocked, BInv, BrowserTypeOK, Everyone
<1>4. locked' = locked \ Session(k)
  BY DEF ReleaseLock, Unlocked
<1>5. ASSUME NEW j \in Keys \ spoilt', j # k
      PROVE  Lent(j)'
  <2>1. Lent(j)
    BY DEF ReleaseLock, BInv
  <2>2. /\ \A q \in Starts : KeyOf[q] = j =>
             /\ q \in listed' <=> q \in listed
             /\ q \in locked' <=> q \in locked
             /\ page'[q] = "open" => page[q] = "open"
        /\ \A d \in Everyone : KeyOf[d] = j => doing'[d] = doing[d]
        /\ keyToId'[j] = keyToId[j]
    BY <1>1, <1>2, <1>4, <1>5, SessionOfKey DEF ReleaseLock
  <2> QED
    BY <2>1, <2>2, OthersKeep
<1>6. ASSUME k \notin spoilt
      PROVE  Lent(k)'
  <2>1. Lent(k)
    BY <1>1, <1>6 DEF BInv
  <2>2. c \in Using(k) /\ Using(k) = {c} /\ Session(k) = {doing[c].on}
    BY <1>1, <2>1 DEF Using, Lent, Session
  <2>3. \A d \in Uses \ {c} : doing'[d] = doing[d]
    BY <1>2 DEF Everyone
  <2>4. doing'[c].stage = "done"
    BY <1>2 DEF Call
  <2>5. Using(k)' = {}
    BY <2>2, <2>3, <2>4 DEF Using
  <2>6. \A q \in Starts : KeyOf[q] = k => q \notin locked'
    BY <1>4, <2>1, <2>2 DEF Lent
  <2>7. ASSUME NEW d \in Uses, KeyOf[d] = k, doing'[d].stage \in {"waiting", "using"}
        PROVE  /\ doing'[d].on = keyToId'[k] /\ doing'[d].on \in listed'
               /\ doing'[d].stage # "using"
    BY <2>1, <2>3, <2>4, <2>5, <2>7 DEF Lent, ReleaseLock, Using
  <2>8. \A q \in Starts : KeyOf[q] = k /\ page'[q] = "open" => keyToId'[k] = q /\ q \in listed'
    BY <2>1 DEF Lent, ReleaseLock
  <2> QED
    BY <2>5, <2>6, <2>7, <2>8 DEF Lent
<1>7. \A j \in Keys \ spoilt' : Lent(j)'
  BY <1>5, <1>6 DEF ReleaseLock
<1> QED
  BY <1>2, <1>3, <1>7 DEF ReleaseLock, BInv

LEMMA UseKeepsPages ==
  ASSUME BInv, NEW c \in Uses,
         AcquireLock(c) \/ PollLock(c) \/ LockTimeout(c) \/ ReleaseLock(c)
  PROVE  BInv'
<1>1. c \in Everyone /\ KeyOf[c] \in Keys
  BY KeyOfCall DEF Everyone
<1>2. CASE AcquireLock(c)
  <2>1. ASSUME NEW p \in Session(KeyOf[c]), p \notin locked, Now(c, "using", p),
               locked' = locked \union {p}
        PROVE  BInv'
    <3>1. p \in Starts /\ p = keyToId[KeyOf[c]] /\ KeyOf[p] = KeyOf[c] /\ p \in listed
      BY <1>1, SessionOfKey
    <3> QED
      BY <1>2, <2>1, <3>1, TakeKeeps DEF AcquireLock
  <2>2. CASE /\ UNCHANGED locked
             /\ \/ Now(c, "done", NoId)
                \/ \E p \in Session(KeyOf[c]) : Now(c, "waiting", p)
    BY <1>2, <2>2, WaitKeeps DEF AcquireLock
  <2> QED
    BY <1>2, <2>1, <2>2 DEF AcquireLock
<1>3. CASE PollLock(c)
  <2>1. doing[c].on \in Starts /\ KeyOf[doing[c].on] = KeyOf[c]
    BY <1>1, <1>3 DEF PollLock, BInv, Holds
  <2>2. KeyOf[c] \notin spoilt => doing[c].on = keyToId[KeyOf[c]] /\ doing[c].on \in listed
    BY <1>1, <1>3 DEF PollLock, BInv, Lent
  <2> QED
    BY <1>3, <2>1, <2>2, TakeKeeps DEF PollLock
<1>4. CASE LockTimeout(c)
  BY <1>4, WaitKeeps DEF LockTimeout
<1>5. CASE ReleaseLock(c)
  BY <1>5, ReleaseKeeps
<1> QED
  BY <1>2, <1>3, <1>4, <1>5

-----------------------------------------------------------------------------
(* Closes                                                                  *)

\* Nothing is closed yet, and a close is no use of the page.
LEMMA CloseSessionKeeps ==
  ASSUME BInv, NEW c \in Closes, doing[c].stage = "idle", NEW st, NEW id, Now(c, st, id),
         \/ st = "done" /\ id = NoId
         \/ st = "closing" /\ id \in Session(KeyOf[c]),
         UNCHANGED <<page, listed, keyToId, locked, browser, spoilt>>
  PROVE  BInv'
<1> DEFINE k == KeyOf[c]
<1>1. c \in Everyone /\ k \in Keys
  BY KeyOfCall DEF Everyone
<1>2. st = "closing" => id \in Starts /\ KeyOf[id] = k
  BY <1>1, SessionOfKey
<1>3. /\ doing' \in [Everyone -> [stage : {"idle", "waiting", "using", "closing", "done"},
                                  on : Starts \union {NoId}]]
      /\ doing'[c] = Call(st, id)
      /\ \A d \in Everyone \ {c} : doing'[d] = doing[d]
      /\ \A d \in Everyone : Holds(d)'
  BY <1>1, <1>2, NowKeeps
<1>4. BrowserTypeOK'
  BY <1>3 DEF BInv, BrowserTypeOK, Everyone
<1>5. ASSUME NEW j \in Keys \ spoilt'
      PROVE  Lent(j)'
  <2>1. Lent(j)
    BY DEF BInv
  <2>2. /\ doing[c].stage = "idle" /\ doing'[c].stage \notin {"waiting", "using"}
        /\ \A d \in Uses \ {c} : doing'[d] = doing[d]
    BY <1>3 DEF Call, Everyone
  <2>3. Using(j)' = Using(j) /\ \A d \in Using(j) : doing'[d] = doing[d]
    BY <2>2 DEF Using
  <2>4. \A d \in Uses : doing'[d].stage \in {"waiting", "using"} => doing'[d] = doing[d]
    BY <2>2
  <2> QED
    BY <2>1, <2>3, <2>4 DEF Lent
<1> QED
  BY <1>3, <1>4, <1>5 DEF BInv

\* The page that goes was used by nobody, or its key is spoilt.
LEMMA ClosedKeeps ==
  ASSUME BInv, NEW c \in Closes, Closed(c)
  PROVE  BInv'
<1> DEFINE k == KeyOf[c]
           p == doing[c].on
<1>1. c \in Everyone /\ k \in Keys /\ doing[c].stage = "closing"
  BY KeyOfCall DEF Everyone, Closed
<1>2. p \in Starts /\ KeyOf[p] = k
  BY <1>1 DEF BInv, Holds
<1>3. /\ doing' \in [Everyone -> [stage : {"idle", "waiting", "using", "closing", "done"},
                                  on : Starts \union {NoId}]]
      /\ doing'[c] = Call("done", NoId)
      /\ \A d \in Everyone \ {c} : doing'[d] = doing[d]
      /\ \A d \in Everyone : Holds(d)'
  BY <1>1, NowKeeps DEF Closed
<1>4. /\ page' = [page EXCEPT ![p] = "closed"] /\ listed' = listed \ {p}
      /\ keyToId' = [keyToId EXCEPT ![k] = NoId]
      /\ spoilt' = IF InUse(p) \/ keyToId[k] \notin {p, NoId} THEN spoilt \union {k} ELSE spoilt
      /\ UNCHANGED <<locked, browser>>
  BY DEF Closed
<1>5. BrowserTypeOK'
  BY <1>1, <1>2, <1>3, <1>4 DEF BInv, BrowserTypeOK, Everyone
<1>6. \A j \in Keys : keyToId'[j] # NoId => KeyOf[keyToId'[j]] = j
  BY <1>1, <1>4 DEF BInv, BrowserTypeOK
<1> HIDE DEF p
<1>7. ASSUME NEW j \in Keys \ spoilt', j # k
      PROVE  Lent(j)'
  <2>1. Lent(j)
    BY <1>4 DEF BInv
  <2>2. /\ \A q \in Starts : KeyOf[q] = j =>
             /\ q \in listed' <=> q \in listed
             /\ q \in locked' <=> q \in locked
             /\ page'[q] = "open" => page[q] = "open"
        /\ \A d \in Everyone : KeyOf[d] = j => doing'[d] = doing[d]
        /\ keyToId'[j] = keyToId[j]
    BY <1>1, <1>2, <1>3, <1>4, <1>7 DEF BInv, BrowserTypeOK
  <2> QED
    BY <2>1, <2>2, OthersKeep
<1>8. ASSUME k \notin spoilt'
      PROVE  Lent(k)'
  <2>1. Lent(k) /\ ~InUse(p) /\ keyToId[k] \in {p, NoId}
    BY <1>1, <1>4, <1>8 DEF BInv
  <2>2. \A d \in Uses : KeyOf[d] = k => doing[d].stage \notin {"waiting", "using"}
    BY <1>1, <2>1, NoIdIsNoStart DEF Lent, InUse, BInv, BrowserTypeOK
  <2>3. \A d \in Uses : KeyOf[d] = k => doing'[d].stage \notin {"waiting", "using"}
    BY <1>3, <2>2 DEF Everyone, Call
  <2>4. Using(k) = {} /\ Using(k)' = {}
    BY <2>2, <2>3 DEF Using
  <2>5. \A q \in Starts : KeyOf[q] = k => q \notin locked' /\ page'[q] # "open"
    <3>1. \A q \in Starts : KeyOf[q] = k =>
            q \notin locked /\ (page[q] = "open" => keyToId[k] = q)
      BY <2>1, <2>4 DEF Lent
    <3>2. \A q \in Starts : KeyOf[q] = k /\ page[q] = "open" => q = p
      BY <2>1, <3>1, NoIdIsNoStart
    <3> QED
      BY <1>2, <1>4, <3>1, <3>2 DEF BInv, BrowserTypeOK
  <2> QED
    BY <2>3, <2>4, <2>5 DEF Lent
<1>9. \A j \in Keys \ spoilt' : Lent(j)'
  BY <1>7, <1>8
<1> QED
  BY <1>3, <1>5, <1>6, <1>9 DEF BInv

\* With the browser all pages go; who had one has a spoilt key.
LEMMA BrowserClosedKeeps ==
  ASSUME BInv, BrowserClosed
  PROVE  BInv'
<1>1. BrowserTypeOK'
  BY KeyOfType DEF BrowserClosed, BInv, BrowserTypeOK
<1>2. \A c \in Everyone : Holds(c)'
  BY DEF BrowserClosed, BInv, Holds
<1>3. \A k \in Keys : keyToId'[k] = NoId
  BY DEF BrowserClosed
<1>4. ASSUME NEW k \in Keys \ spoilt'
      PROVE  Lent(k)'
  <2>1. Lent(k) /\ \A p \in Starts : KeyOf[p] = k => ~InUse(p)
    BY DEF BrowserClosed, BInv
  <2>2. \A c \in Uses : KeyOf[c] = k => doing[c].stage \notin {"waiting", "using"}
    BY <2>1 DEF InUse, BInv, Holds, Everyone
  <2>3. Using(k) = {} /\ UNCHANGED <<doing, locked>>
    BY <2>2 DEF Using, BrowserClosed
  <2>4. Using(k)' = {}
    BY <2>3 DEF Using
  <2>5. \A p \in Starts : page'[p] # "open"
    BY DEF BrowserClosed, BInv, BrowserTypeOK
  <2>6. \A p \in Starts : KeyOf[p] = k => p \notin locked'
    BY <2>1, <2>3 DEF Lent
  <2> QED
    BY <2>2, <2>3, <2>4, <2>5, <2>6 DEF Lent
<1> QED
  BY <1>1, <1>2, <1>3, <1>4 DEF BInv

-----------------------------------------------------------------------------
LEMMA InitBInv == BrowserInit => BInv
<1> SUFFICES ASSUME BrowserInit
             PROVE  BInv
  OBVIOUS
<1>1. BrowserTypeOK
  BY DEF BrowserInit, BrowserTypeOK, Call
<1>2. \A c \in Everyone : doing[c].stage = "idle" /\ doing[c].on = NoId
  BY DEF BrowserInit, Call, Everyone
<1>3. \A k \in Keys : Lent(k)
  BY <1>2 DEF BrowserInit, Lent, Using, Everyone
<1> QED
  BY <1>1, <1>2, <1>3 DEF BInv, Holds, BrowserInit

LEMMA NextBInv == BInv /\ [BrowserNext]_browserVars => BInv'
<1> SUFFICES ASSUME BInv, [BrowserNext]_browserVars
             PROVE  BInv'
  OBVIOUS
<1>1. CASE UNCHANGED browserVars
  BY <1>1 DEF browserVars, BInv, BrowserTypeOK, Holds, Lent, Using
<1>2. CASE CloseAll
  <2>1. BrowserTypeOK'
    BY <1>2 DEF CloseAll, BInv, BrowserTypeOK
  <2> QED
    BY <1>2, <2>1 DEF CloseAll, BInv, Holds, Lent, Using
<1>3. ASSUME NEW c \in Closes, CloseSession(c)
      PROVE  BInv'
  <2>1. CASE Now(c, "done", NoId)
    BY <1>3, <2>1, CloseSessionKeeps DEF CloseSession
  <2>2. ASSUME NEW p \in Session(KeyOf[c]), Now(c, "closing", p)
        PROVE  BInv'
    BY <1>3, <2>2, CloseSessionKeeps DEF CloseSession
  <2> QED
    BY <1>3, <2>1, <2>2 DEF CloseSession
<1> QED
  BY <1>1, <1>2, <1>3, StartKeeps, OpenedKeeps, UseKeepsPages, ClosedKeeps,
     BrowserClosedKeeps DEF BrowserNext

\* The polled flag is a lock: as long as the page of a key is neither replaced
\* nor closed under its users, no two operations act on it at once, no flag is
\* left set, and no open page is lost.
THEOREM PagesAreLent == BrowserSpec => []PageIsLent
<1>1. BInv => PageIsLent
  <2> SUFFICES ASSUME BInv, NEW k \in Keys \ spoilt
               PROVE  Cardinality(Using(k)) <= 1
    BY DEF PageIsLent, BInv, Lent
  <2>1. \A c, d \in Using(k) : c = d
    BY DEF BInv, Lent
  <2>2. CASE Using(k) = {}
    BY <2>2, FS_EmptySet
  <2>3. ASSUME NEW c \in Using(k)
        PROVE  Cardinality(Using(k)) <= 1
    <3>1. Using(k) = {c}
      BY <2>1
    <3>2. Cardinality({c}) = 1
      BY FS_Singleton
    <3> QED
      BY <3>1, <3>2
  <2> QED
    BY <2>2, <2>3
<1> QED
  BY <1>1, InitBInv, NextBInv, PTL DEF BrowserSpec

-----------------------------------------------------------------------------
(* What it takes to spoil a key                                            *)

\* No two starts open pages of one key at a time; no start of the key opens, and
\* no operation has the page or waits for it, while it is being closed, alone or
\* with the browser.
NothingOverlaps ==
  /\ \A p, q \in Starts :
       page[p] = "opening" /\ page[q] = "opening" /\ KeyOf[p] = KeyOf[q] => p = q
  /\ \A c \in Closes : doing[c].stage = "closing" =>
       /\ ~InUse(doing[c].on)
       /\ \A p \in Starts : page[p] = "opening" => KeyOf[p] # KeyOf[c]
  /\ browser = "closing" => \A p \in Starts : ~InUse(p)

\* A key has no session while a page is opened for it, and while its session is
\* closed the key means that one or none.
Orderly ==
  /\ spoilt = {}
  /\ \A p \in Starts : page[p] = "opening" => Session(KeyOf[p]) = {}
  /\ \A c \in Closes : doing[c].stage = "closing" => keyToId[KeyOf[c]] \in {doing[c].on, NoId}

LEMMA SessionsGo ==
  ASSUME BInv, Orderly, spoilt' = {}, listed' \subseteq listed,
         \A k \in Keys : keyToId'[k] \in {keyToId[k], NoId},
         \A p \in Starts : page'[p] = "opening" => page[p] = "opening" \/ Session(KeyOf[p]) = {},
         \A c \in Closes : doing'[c].stage = "closing" =>
           doing'[c] = doing[c] \/ doing'[c].on = keyToId[KeyOf[c]]
  PROVE  Orderly'
<1>1. \A k \in Keys : Session(k) = {} => Session(k)' = {}
  BY NoIdIsNoStart DEF Session, BInv, BrowserTypeOK
<1>2. \A p \in Starts : page'[p] = "opening" => Session(KeyOf[p])' = {}
  BY <1>1, KeyOfCall DEF Orderly
<1>3. \A c \in Closes : doing'[c].stage = "closing" =>
                          keyToId'[KeyOf[c]] \in {doing'[c].on, NoId}
  BY KeyOfCall DEF Orderly, Everyone
<1> QED
  BY <1>2, <1>3 DEF Orderly

LEMMA NextOrderly ==
  BInv /\ Orderly /\ NothingOverlaps /\ [BrowserNext]_browserVars => Orderly'
<1> SUFFICES ASSUME BInv, Orderly, NothingOverlaps, [BrowserNext]_browserVars
             PROVE  Orderly'
  OBVIOUS
<1>1. CASE UNCHANGED browserVars \/ CloseAll
  BY <1>1, SessionsGo DEF browserVars, CloseAll, Orderly
<1>2. ASSUME NEW p \in Starts, Start(p)
      PROVE  Orderly'
  <2>1. \A q \in Starts : page'[q] = "opening" => page[q] = "opening" \/ Session(KeyOf[q]) = {}
    BY <1>2 DEF Start, BInv, BrowserTypeOK
  <2> QED
    BY <1>2, <2>1, SessionsGo DEF Start, Orderly
<1>3. ASSUME NEW p \in Starts, Opened(p)
      PROVE  Orderly'
  <2>1. page[p] = "opening" /\ Session(KeyOf[p]) = {} /\ KeyOf[p] \in Keys
    BY <1>3, KeyOfCall DEF Opened, Orderly
  <2>2. spoilt' = {} /\ doing' = doing
    BY <1>3, <2>1 DEF Opened, Orderly
  <2>3. \A q \in Starts : page'[q] = "opening" => page[q] = "opening" /\ q # p
    BY <1>3 DEF Opened, BInv, BrowserTypeOK
  <2>4. CASE UNCHANGED <<listed, keyToId>>
    BY <2>2, <2>3, <2>4, SessionsGo DEF Orderly
  <2>5. CASE listed' = listed \union {p} /\ keyToId' = [keyToId EXCEPT ![KeyOf[p]] = p]
    <3>1. \A k \in Keys : k # KeyOf[p] => keyToId'[k] = keyToId[k]
      BY <2>5 DEF BInv, BrowserTypeOK
    <3>2. ASSUME NEW q \in Starts, page'[q] = "opening"
          PROVE  Session(KeyOf[q])' = {}
      <4>1. page[q] = "opening" /\ q # p /\ KeyOf[q] \in Keys /\ KeyOf[q] # KeyOf[p]
        BY <2>1, <2>3, <3>2, KeyOfCall DEF NothingOverlaps
      <4>2. keyToId'[KeyOf[q]] = keyToId[KeyOf[q]] /\ keyToId[KeyOf[q]] # p
        BY <3>1, <4>1, NoIdIsNoStart DEF BInv
      <4>3. Session(KeyOf[q]) = {}
        BY <4>1 DEF Orderly
      <4> QED
        BY <2>5, <4>2, <4>3 DEF Session
    <3>3. ASSUME NEW c \in Closes, doing'[c].stage = "closing"
          PROVE  keyToId'[KeyOf[c]] \in {doing'[c].on, NoId}
      <4>1. KeyOf[c] \in Keys /\ KeyOf[c] # KeyOf[p]
        BY <2>1, <2>2, <3>3, KeyOfCall DEF NothingOverlaps, Everyone
      <4> QED
        BY <2>2, <3>1, <3>3, <4>1 DEF Orderly
    <3> QED
      BY <2>2, <3>2, <3>3 DEF Orderly
  <2> QED
    BY <1>3, <2>4, <2>5 DEF Opened
<1>4. ASSUME NEW c \in Uses, AcquireLock(c) \/ PollLock(c) \/ LockTimeout(c) \/ ReleaseLock(c)
      PROVE  Orderly'
  <2>1. UNCHANGED <<page, listed, keyToId, spoilt>>
    BY <1>4 DEF AcquireLock, PollLock, LockTimeout, ReleaseLock
  <2>2. \E st \in {"waiting", "using", "done"}, id \in Starts \union {NoId} : Now(c, st, id)
    BY <1>4, SessionOfKey, KeyOfCall DEF AcquireLock, PollLock, LockTimeout, ReleaseLock, Everyone,
       BInv, BrowserTypeOK
  <2>3. \A d \in Closes : doing'[d].stage = "closing" => doing'[d] = doing[d]
    BY <2>2 DEF Now, Call, BInv, BrowserTypeOK
  <2> QED
    BY <2>1, <2>3, SessionsGo DEF Orderly
<1>5. ASSUME NEW c \in Closes, CloseSession(c)
      PROVE  Orderly'
  <2>1. UNCHANGED <<page, listed, keyToId, spoilt>>
    BY <1>5 DEF CloseSession
  <2>2. \/ Now(c, "done", NoId)
        \/ Now(c, "closing", keyToId[KeyOf[c]])
    BY <1>5 DEF CloseSession, Session
  <2>3. \A d \in Closes : doing'[d].stage = "closing" =>
          doing'[d] = doing[d] \/ doing'[d].on = keyToId[KeyOf[d]]
    BY <2>2 DEF Now, Call, BInv, BrowserTypeOK
  <2> QED
    BY <2>1, <2>3, SessionsGo DEF Orderly
<1>6. ASSUME NEW c \in Closes, Closed(c)
      PROVE  Orderly'
  <2>1. doing[c].stage = "closing" /\ KeyOf[c] \in Keys
    BY <1>6, KeyOfCall DEF Closed, Everyone
  <2>2. ~InUse(doing[c].on) /\ keyToId[KeyOf[c]] \in {doing[c].on, NoId}
    BY <2>1 DEF NothingOverlaps, Orderly
  <2>3. spoilt' = {}
    BY <1>6, <2>2 DEF Closed, Orderly
  <2>4. \A d \in Closes : doing'[d].stage = "closing" => doing'[d] = doing[d]
    BY <1>6 DEF Closed, Now, Call, BInv, BrowserTypeOK
  <2>5. \A p \in Starts : page'[p] = "opening" => page[p] = "opening"
    BY <1>6 DEF Closed, BInv, BrowserTypeOK
  <2>6. listed' \subseteq listed /\ \A k \in Keys : keyToId'[k] \in {keyToId[k], NoId}
    BY <1>6 DEF Closed, BInv, BrowserTypeOK
  <2> QED
    BY <2>3, <2>4, <2>5, <2>6, SessionsGo
<1>7. CASE BrowserClosed
  <2>1. {KeyOf[p] : p \in {q \in Starts : InUse(q)}} = {}
    BY <1>7 DEF BrowserClosed, NothingOverlaps
  <2>2. spoilt' = {}
    BY <1>7, <2>1 DEF BrowserClosed, Orderly
  <2>3. \A p \in Starts : page'[p] = "opening" => page[p] = "opening"
    BY <1>7 DEF BrowserClosed
  <2>4. listed' \subseteq listed /\ \A k \in Keys : keyToId'[k] \in {keyToId[k], NoId}
    BY <1>7 DEF BrowserClosed
  <2>5. \A d \in Closes : doing'[d] = doing[d]
    BY <1>7 DEF BrowserClosed
  <2> QED
    BY <2>2, <2>3, <2>4, <2>5, SessionsGo
<1> QED
  BY <1>1, <1>2, <1>3, <1>4, <1>5, <1>6, <1>7 DEF BrowserNext

\* What PageIsLent excepts is caused by starts and closes that overlap with others
\* or with a use, and by nothing else: never by the order in which operations wait
\* for a page, time out and release it, nor by closing and starting it again.
THEOREM OnlyOverlapsSpoil ==
  BrowserSpec /\ []NothingOverlaps => [](PageIsLent /\ spoilt = {})
<1>1. BrowserInit => Orderly
  BY DEF BrowserInit, Orderly, Call
<1>2. Orderly => spoilt = {}
  BY DEF Orderly
<1> QED
  BY <1>1, <1>2, InitBInv, NextBInv, NextOrderly, PagesAreLent, PTL DEF BrowserSpec
================================================================================
