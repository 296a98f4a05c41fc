--------------------------------- MODULE Nodes ---------------------------------
(***************************************************************************)
(* Node companions: NodeSessionManager (pairing codes, nodes, consent),    *)
(* NodeCommunicator (requests waiting for an answer), NodeExecutor (calls  *)
(* with retries) and the gateway's socket events and nodes.* handlers.     *)
(*                                                                         *)
(* An action is one synchronous run of the event loop.  A call is one      *)
(* NodeExecutor operation, of any kind.  It has at most one request        *)
(* outstanding, so it stands for the correlation id of that request.       *)
(*                                                                         *)
(* Definitions marked (fault) are plausible slips, as in TaskOrchestrator. *)
(***************************************************************************)
EXTENDS Naturals, FiniteSets

CONSTANTS
  Users, Sockets, Names, Codes,
  Capabilities,  \* the capability sets companions announce
  Calls,         \* NodeExecutor operations, each started at most once
  UserOf,        \* the user on whose behalf a call runs
  InputOf,       \* the command of a call, as far as it is checked
  MaxPerUser,    \* maxNodesPerUser
  MaxRetries,    \* retry.maxRetries
  MaxNodes,      \* bound: nodes ever created
  Shared,        \* does NodeExecutor use the gateway's session manager?
  Routed         \* are messages of nodes given to handleNodeResponse?

Input == [tooLong : BOOLEAN, blocked : BOOLEAN, listed : BOOLEAN,
          badCwd : BOOLEAN, badEnv : BOOLEAN]

ASSUME UsersType        == Users \intersect {"unused", "gone"} = {}
ASSUME UserOfType       == UserOf \in [Calls -> Users]
ASSUME InputOfType      == InputOf \in [Calls -> Input]
ASSUME CapabilitiesType == Capabilities \subseteq SUBSET {"screen", "exec"}
ASSUME BoundsType       == {MaxPerUser, MaxRetries, MaxNodes} \subseteq Nat
ASSUME SwitchType       == Shared \in BOOLEAN /\ Routed \in BOOLEAN

VARIABLES
  socket,    \* GatewayServer.sockets: new, open, or gone after "close"
  codes,     \* pendingPairings: the user of each open code
  node,      \* NodeSessionManager.nodes; ids are given in order of creation
  counts,    \* userNodeCount, which nothing reads: the limit counts nodes
  call,      \* stage, node and retries of each call
  pending,   \* calls with an entry in pendingRequests (and its timer)
  stamped,   \* calls with an entry in pendingRequestTimestamps
  sweeping   \* is the clean-up interval of the communicator running?

pairing == <<codes, node, counts>>
waiting == <<call, pending, stamped>>
vars == <<socket, pairing, waiting, sweeping>>

Ids     == 1 .. MaxNodes
NoUser  == "none"
Status  == {"unborn", "paired", "offline", "removed"}
NodeRecord == [status : Status, user : Users \union {NoUser}, name : Names \union {NoUser},
               socket : Sockets \union {NoUser}, can : SUBSET {"screen", "exec"},
               consent : BOOLEAN]
Unborn  == [status |-> "unborn", user |-> NoUser, name |-> NoUser, socket |-> NoUser,
            can |-> {}, consent |-> FALSE]
Stages  == {"idle", "waiting", "resting", "ok", "failed"}

TypeOK ==
  /\ socket \in [Sockets -> {"new", "open", "gone"}]
  /\ codes \in [Codes -> Users \union {"unused", "gone"}]
  /\ node \in [Ids -> NodeRecord]
  /\ counts \in [Users -> Nat]
  /\ call \in [Calls -> [stage : Stages, node : Ids \union {0}, tries : 0 .. MaxRetries]]
  /\ pending \subseteq Calls
  /\ stamped \subseteq Calls
  /\ sweeping \in BOOLEAN

Init ==
  /\ socket = [s \in Sockets |-> "new"]
  /\ codes = [c \in Codes |-> "unused"]
  /\ node = [n \in Ids |-> Unborn]
  /\ counts = [u \in Users |-> 0]
  /\ call = [o \in Calls |-> [stage |-> "idle", node |-> 0, tries |-> 0]]
  /\ pending = {}
  /\ stamped = {}
  /\ sweeping = TRUE

-----------------------------------------------------------------------------
(* NodeSessionManager                                                      *)

Live       == {n \in Ids : node[n].status \in {"paired", "offline"}}
NodesOf(u) == {n \in Live : node[n].user = u}
Paired(n)  == n \in Live /\ node[n].status = "paired"

\* Map iteration is in order of insertion, so find() returns the oldest.
Oldest(S)     == {n \in S : \A m \in S : n <= m}
OnSocket(s)   == Oldest({n \in Live : node[n].socket = s})
NextId        == Oldest({n \in Ids : node[n].status = "unborn"})

OpenCodes == {c \in Codes : codes[c] \in Users}

\* generatePairingCode; codes found expired are dropped on the way
RequestCode(u, c) ==
  /\ codes[c] = "unused"
  /\ Cardinality(NodesOf(u)) < MaxPerUser
  /\ \E expired \in SUBSET OpenCodes :
       codes' = [d \in Codes |-> IF d = c THEN u
                                 ELSE IF d \in expired THEN "gone" ELSE codes[d]]
  /\ UNCHANGED <<socket, node, counts, waiting, sweeping>>

\* (fault) a code that re-pairs a known node stays valid
KeepCode(c) == UNCHANGED codes

SpendCode(c) == codes' = [codes EXCEPT ![c] = "gone"]

CodeExpired(c) ==
  /\ c \in OpenCodes
  /\ SpendCode(c)
  /\ UNCHANGED <<socket, node, counts, waiting, sweeping>>

SameName(u, name) == {n \in NodesOf(u) : node[n].name = name}

\* (fault) every pairing is counted
RepairAndCount(c, s, name, can) ==
  \E n \in SameName(codes[c], name) :
    /\ node' = [node EXCEPT ![n].socket = s, ![n].status = "paired", ![n].can = can]
    /\ counts' = [counts EXCEPT ![codes[c]] = @ + 1]

\* completePairing of a name the user already has: same node, new socket
Repair(c, s, name, can) ==
  \E n \in SameName(codes[c], name) :
    /\ node' = [node EXCEPT ![n].socket = s, ![n].status = "paired", ![n].can = can]
    /\ UNCHANGED counts

Pair(c, s, name, can) ==
  /\ SameName(codes[c], name) = {}
  /\ \E n \in NextId :
       node' = [node EXCEPT ![n] = [status |-> "paired", user |-> codes[c], name |-> name,
                                    socket |-> s, can |-> can, consent |-> FALSE]]
  /\ counts' = [counts EXCEPT ![codes[c]] = @ + 1]

\* nodes.pair.verify: the companion itself names the socket.
VerifyCode(c, s, name, can) ==
  /\ c \in OpenCodes
  /\ Repair(c, s, name, can) \/ Pair(c, s, name, can)
  /\ SpendCode(c)
  /\ UNCHANGED <<socket, waiting, sweeping>>

\* grantScreenCaptureConsent, revokeScreenCaptureConsent, and the lapse that
\* hasScreenCaptureConsent finds
SetConsent(n, granted) ==
  /\ n \in Live
  /\ node' = [node EXCEPT ![n].consent = granted]
  /\ UNCHANGED <<socket, codes, counts, waiting, sweeping>>

\* nodes.consent.grant, with or without a duration
GrantConsent(n) == SetConsent(n, TRUE)

RevokeConsent(n) == SetConsent(n, FALSE)

\* nodes.consent.check, when the duration is over
ConsentLapses(n) == node[n].consent /\ SetConsent(n, FALSE)

\* cleanupExpired, run by the toolkit on its own session manager: codes past
\* their time and nodes paired too long ago.  removeNode updates the counts.
CleanupExpired ==
  /\ Shared
  /\ \E expired \in SUBSET OpenCodes, old \in SUBSET Live :
       /\ expired \union old # {}
       /\ codes' = [c \in Codes |-> IF c \in expired THEN "gone" ELSE codes[c]]
       /\ node' = [n \in Ids |-> IF n \in old THEN [node[n] EXCEPT !.status = "removed"]
                                             ELSE node[n]]
       /\ counts' = [u \in Users |-> counts[u] - Cardinality({n \in old : node[n].user = u})]
  /\ UNCHANGED <<socket, waiting, sweeping>>

-----------------------------------------------------------------------------
(* NodeCommunicator and the retries of NodeExecutor                        *)

\* (fault) the attempt is not counted
RestUncounted(k) == [k EXCEPT !.stage = "resting"]

\* executeWithRetry after an error: sleep before the next attempt, or give up.
\* The retry counter is advanced here.
Rest(k) == [k EXCEPT !.stage = "resting", !.tries = @ + 1]

\* (fault) one attempt too many
FailedLate(k, retryable) ==
  IF retryable /\ k.tries <= MaxRetries THEN Rest(k) ELSE [k EXCEPT !.stage = "failed"]

Failed(k, retryable) ==
  IF retryable /\ k.tries < MaxRetries THEN Rest(k) ELSE [k EXCEPT !.stage = "failed"]

\* The requests of the calls in C are rejected and forgotten.
Reject(C, retryable) ==
  /\ call' = [o \in Calls |-> IF o \in C THEN Failed(call[o], retryable) ELSE call[o]]
  /\ pending' = pending \ C
  /\ stamped' = stamped \ C

\* getNodeSocket: the socket the node named is connected
Reachable(n) == node[n].socket \in Sockets /\ socket[node[n].socket] = "open"

CreatePendingRequest(o, k) ==
  /\ call' = [call EXCEPT ![o] = [k EXCEPT !.stage = "waiting"]]
  /\ pending' = pending \union {o}
  /\ stamped' = stamped \union {o}

AttemptFails(o, k, retryable) ==
  /\ call' = [call EXCEPT ![o] = Failed(k, retryable)]
  /\ UNCHANGED <<pending, stamped>>

\* sendToNodeAndWait for call o, which is in state k
SendAndWait(o, k) ==
  \/ Paired(k.node) /\ Reachable(k.node) /\ CreatePendingRequest(o, k)
  \/ Paired(k.node) /\ ~Reachable(k.node) /\ AttemptFails(o, k, TRUE)
  \/ ~Paired(k.node) /\ AttemptFails(o, k, FALSE)

\* validateArguments, validateCwd, validateEnv
CommandOK(i) == ~i.tooLong /\ ~i.blocked /\ i.listed /\ ~i.badCwd /\ ~i.badEnv

Begin(o, targets) ==
  /\ Shared
  /\ call[o].stage = "idle"
  /\ \E n \in targets : SendAndWait(o, [call[o] EXCEPT !.node = n])
  /\ UNCHANGED <<socket, pairing, sweeping>>

\* selectNodeForCommand: the node given, or the user's first; then its
\* capability is checked
CommandNodes(u) == {n \in NodesOf(u) : Paired(n) /\ "exec" \in node[n].can}

\* nodes.run: the command is checked, then executeCommand
ExecuteCommand(o) ==
  CommandOK(InputOf[o]) /\ Begin(o, CommandNodes(UserOf[o]))

StartRemoteSession(o) == Begin(o, CommandNodes(UserOf[o]))

CaptureNodes(u) ==
  {n \in NodesOf(u) : Paired(n) /\ "screen" \in node[n].can /\ node[n].consent}

\* Consent is checked here and not before a retry
RequestScreenCapture(o) == Begin(o, CaptureNodes(UserOf[o]))

\* writeToRemoteSession, pollRemoteSession, stopRemoteSession
UseRemoteSession(o) == Begin(o, Live)

RetryCall(o) ==
  /\ call[o].stage = "resting"
  /\ SendAndWait(o, call[o])
  /\ UNCHANGED <<socket, pairing, sweeping>>

\* (fault) the time stamp stays behind
AnswerKeepsStamp(o) ==
  /\ Routed
  /\ o \in pending
  /\ \/ call' = [call EXCEPT ![o].stage = "ok"]
     \/ \E retryable \in BOOLEAN :
          call' = [call EXCEPT ![o] = Failed(@, retryable)]
  /\ pending' = pending \ {o}
  /\ UNCHANGED <<socket, pairing, stamped, sweeping>>

\* handleNodeResponse: a result, or an error with any text
HandleNodeResponse(o) ==
  /\ Routed
  /\ o \in pending
  /\ \/ call' = [call EXCEPT ![o].stage = "ok"]
     \/ \E retryable \in BOOLEAN :
          call' = [call EXCEPT ![o] = Failed(@, retryable)]
  /\ pending' = pending \ {o}
  /\ stamped' = stamped \ {o}
  /\ UNCHANGED <<socket, pairing, sweeping>>

RequestTimeout(o) ==
  /\ o \in pending
  /\ Reject({o}, TRUE)
  /\ UNCHANGED <<socket, pairing, sweeping>>

\* cleanupStaleRequests
SweepStale ==
  /\ sweeping
  /\ \E old \in (SUBSET stamped) \ {{}} : Reject(old, TRUE)
  /\ UNCHANGED <<socket, pairing, sweeping>>

\* GatewayServer.stop: communicator.shutdown (the sockets' close events follow)
Shutdown ==
  /\ sweeping
  /\ sweeping' = FALSE
  /\ Reject(pending, FALSE)
  /\ UNCHANGED <<socket, pairing>>

Connect(s) ==
  /\ socket[s] = "new"
  /\ socket' = [socket EXCEPT ![s] = "open"]
  /\ UNCHANGED <<pairing, waiting, sweeping>>

MarkOffline(s) ==
  node' = [n \in Ids |-> IF n \in OnSocket(s) THEN [node[n] EXCEPT !.status = "offline"]
                                            ELSE node[n]]

\* (fault) the node is marked, its requests are left to time out
CloseMarksOnly(s) ==
  /\ socket[s] = "open"
  /\ socket' = [socket EXCEPT ![s] = "gone"]
  /\ MarkOffline(s)
  /\ UNCHANGED <<codes, counts, waiting, sweeping>>

\* "close" of a socket: handleNodeDisconnect acts on the oldest node that
\* named it, and on no other.
Close(s) ==
  /\ socket[s] = "open"
  /\ socket' = [socket EXCEPT ![s] = "gone"]
  /\ MarkOffline(s)
  /\ Reject({o \in pending : call[o].node \in OnSocket(s)}, FALSE)
  /\ UNCHANGED <<codes, counts, sweeping>>

-----------------------------------------------------------------------------
Next ==
  \/ \E u \in Users, c \in Codes : RequestCode(u, c)
  \/ \E c \in Codes : CodeExpired(c)
  \/ \E c \in Codes, s \in Sockets, name \in Names, can \in Capabilities :
       VerifyCode(c, s, name, can)
  \/ \E n \in Ids : GrantConsent(n) \/ RevokeConsent(n) \/ ConsentLapses(n)
  \/ CleanupExpired
  \/ \E o \in Calls :
       \/ ExecuteCommand(o) \/ StartRemoteSession(o)
       \/ RequestScreenCapture(o) \/ UseRemoteSession(o)
       \/ RetryCall(o) \/ HandleNodeResponse(o) \/ RequestTimeout(o)
  \/ SweepStale
  \/ Shutdown
  \/ \E s \in Sockets : Connect(s) \/ Close(s)

Spec == Init /\ [][Next]_vars

\* The timers of requests and of sleep() fire.  Nothing is assumed of nodes,
\* users, sockets and housekeeping.
Fairness == \A o \in Calls : WF_vars(RequestTimeout(o)) /\ WF_vars(RetryCall(o))

FairSpec == Spec /\ Fairness

-----------------------------------------------------------------------------
(* Properties                                                              *)

\* A caller waits exactly as long as its request is pending, and the stale
\* sweep sees exactly the pending requests: settling a request, in whichever
\* of five ways, leaves nothing behind in either map.
WaitersTracked ==
  /\ pending = {o \in Calls : call[o].stage = "waiting"}
  /\ stamped = pending

\* No request waits for a node known to be offline: disconnection rejects what
\* is pending and neither a new call nor a retry is sent to such a node.  This is
\* what NodeCalls says of those who wait, in terms of the two maps.
NoneWaitsOffline ==
  \A o \in pending : node[call[o].node].status # "offline"

\* Seen by its callers, NodeExecutor keeps what NodeCalls promises.
Service == INSTANCE NodeCalls WITH
  stage    <- [o \in Calls |-> call[o].stage],
  target   <- [o \in Calls |-> call[o].node],
  left     <- [o \in Calls |-> MaxRetries + 1 - call[o].tries],
  down     <- {n \in Ids : node[n].status = "offline"},
  Attempts <- MaxRetries + 1

ServesCalls == Service!Spec

\* userNodeCount, the books of NodeSessionManager, agrees with the nodes whatever
\* mix of pairing, pairing again and expiry led here, and a user never has two
\* nodes of one name.  The limit per user does not rest on it: generatePairingCode
\* counts the nodes.
CountsAgree ==
  \A u \in Users :
    /\ counts[u] = Cardinality(NodesOf(u))
    /\ \A m, n \in NodesOf(u) : node[m].name = node[n].name => m = n

\* A node is created, or moved to another socket, only in exchange for a code
\* its user had open, which the same step invalidates.
PairingSpendsCode ==
  [][\A n \in Ids :
       node'[n].socket # node[n].socket =>
         \E c \in OpenCodes : codes[c] = node'[n].user /\ codes'[c] = "gone"]_vars

\* Every call ends: attempts are bounded and each ends by its own timer at the
\* latest, whatever nodes, sockets and shutdown do.
EveryCallEnds ==
  \A o \in Calls : call[o].stage \in {"waiting", "resting"} ~>
                     call[o].stage \in {"ok", "failed"}
=============================================================================
