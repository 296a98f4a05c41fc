----------------------------- MODULE ChannelLink -----------------------------
(***************************************************************************)
(* The link between a channel adapter and the gateway: ChannelGatewayClient *)
(* of DiscordAdapter or SlackAdapter at one end, GatewayServer with         *)
(* JsonRpcServer, GatewayAuthenticator and ConnectionRateLimiter at the     *)
(* other.  Connections break, the gateway stops and starts again.           *)
(*                                                                         *)
(* A call is the handshake of a socket, which the socket stands for, or the *)
(* chat.send of a message.  Tasks are those of TaskOrchestrator; here they  *)
(* are queued and, at some time, answered.                                  *)
(*                                                                         *)
(* Definitions marked (fault) are plausible slips, as in TaskOrchestrator.  *)
(***************************************************************************)
EXTENDS ConnectionRateLimiter, FiniteSets

CONSTANTS
  Sockets,        \* sockets of the client; one that is gone may come again
  Messages,       \* what users write, each once
  MaxReconnects,  \* maxReconnectAttempts
  MaxConnects,    \* bound: connect() by the adapter
  MaxFaults       \* bound: connections broken, stops of the gateway, and
                  \* connections of others from the same address

NoSocket == "none"

ASSUME NoSocketIsNone == NoSocket \notin Sockets /\ Sockets \intersect Messages = {}
ASSUME LinkBounds     == {MaxReconnects, MaxConnects, MaxFaults} \subseteq Nat

Calls == Sockets \union Messages
ASSUME KeysAreUsed    == {"address", "token"} \subseteq Keys

VARIABLES
  \* the client
  sock,      \* readyState of each socket; "closing" until its close event
  ws, flag,  \* this.ws, _isConnected
  attempts,  \* reconnectAttempts
  timer,     \* a reconnectTimer is set
  leaving,   \* intentionalClose
  call,      \* what became of each call, and what of it travels on which socket
  posted,    \* replies the adapter sent to the channel
  \* the gateway
  gateway,   \* down, listening, or ready: its handlers are registered
  server,    \* its end of each socket; "refused" has no handlers
  auth,      \* tokens are configured: authConfig
  task,      \* the task of each message
  \* histories and bounds
  overlapped, \* connect() was called while an earlier socket or timer was there
  connects, faults

client == <<sock, ws, flag, attempts, timer, leaving, call, posted>>
bounds == <<connects, faults>>
service == <<gateway, server, auth, task, limiterVars>>
vars == <<client, service, overlapped, bounds>>

CallRecord == [stage : {"idle", "waiting", "over"},
               on : Sockets \union {NoSocket},
               at : {"nowhere", "request", "result", "error"}]
NoCall == [stage |-> "idle", on |-> NoSocket, at |-> "nowhere"]

TypeOK ==
  /\ sock \in [Sockets -> {"none", "connecting", "open", "closing"}]
  /\ ws \in Sockets \union {NoSocket} /\ flag \in BOOLEAN
  /\ attempts \in 0 .. MaxReconnects /\ timer \in BOOLEAN /\ leaving \in BOOLEAN
  /\ call \in [Calls -> CallRecord]
  /\ posted \in [Messages -> Nat]
  /\ gateway \in {"down", "listening", "ready"}
  /\ server \in [Sockets -> {"none", "listed", "refused"}]
  /\ LimiterTypeOK
  /\ auth \in BOOLEAN
  /\ task \in [Messages -> {"none", "queued", "answered"}]
  /\ overlapped \in BOOLEAN
  /\ connects \in 0 .. MaxConnects /\ faults \in 0 .. MaxFaults

Init ==
  /\ sock = [s \in Sockets |-> "none"] /\ ws = NoSocket /\ flag = FALSE
  /\ attempts = 0 /\ timer = FALSE /\ leaving = FALSE
  /\ call = [c \in Calls |-> NoCall]
  /\ posted = [m \in Messages |-> 0]
  /\ gateway = "down" /\ server = [s \in Sockets |-> "none"]
  /\ LimiterInit
  /\ auth \in BOOLEAN
  /\ task = [m \in Messages |-> "none"]
  /\ overlapped = FALSE
  /\ connects = 0 /\ faults = 0

Live(s) == sock[s] \in {"connecting", "open"}
Faulty  == faults < MaxFaults /\ faults' = faults + 1

-----------------------------------------------------------------------------
(* The client                                                              *)

DoConnect(s) ==
  /\ sock[s] = "none"
  /\ sock' = [sock EXCEPT ![s] = "connecting"]
  /\ ws' = s
  /\ call' = [call EXCEPT ![s] = NoCall]
  /\ UNCHANGED <<flag, attempts, posted>>

\* connect: returns at once when connected
Connect(s) == ~flag /\ leaving' = FALSE /\ DoConnect(s)

\* connectToGateway of the adapter, which goes on if this fails.  It is done
\* once for each client; another call finds what the last one left behind.
ConnectToGateway(s) ==
  /\ connects < MaxConnects
  /\ connects' = connects + 1
  /\ Connect(s)
  /\ overlapped' = (overlapped \/ timer \/ \E t \in Sockets : sock[t] # "none")
  /\ UNCHANGED <<timer, service, faults>>

Fires(s) == timer /\ timer' = FALSE /\ DoConnect(s) /\ UNCHANGED leaving

TimerFires(s) == Fires(s) /\ UNCHANGED <<service, overlapped, bounds>>

\* call: the request goes out on the current socket, whichever it is
Waiting == [stage |-> "waiting", on |-> ws, at |-> "request"]

\* A call that is over, resolved or rejected.  What of it still travels is
\* nobody's any more, but the gateway may yet act on the request.
Over(c) == IF c.at = "request" THEN [c EXCEPT !.stage = "over"] ELSE [NoCall EXCEPT !.stage = "over"]

\* The open event, then the handshake: of a socket that is no longer the
\* current one it fails, unless the current one is open.
Opens(s) ==
  /\ sock[s] = "connecting" /\ server[s] # "none"
  /\ sock' = [sock EXCEPT ![s] = "open"]
  /\ attempts' = 0
  /\ LET ready == ws # NoSocket /\ sock'[ws] = "open"
     IN  /\ flag' = ready
         /\ call' = [call EXCEPT ![s] = IF ready THEN Waiting ELSE Over(NoCall)]
  /\ UNCHANGED <<ws, timer, leaving, posted, service, overlapped, bounds>>

\* What travels of a call is lost.
Lost(c) == IF c.stage = "over" THEN Over(NoCall) ELSE [c EXCEPT !.at = "nowhere"]

\* What the gateway had sent on these sockets is lost.
Severed(S) ==
  [c \in Calls |-> IF call[c].on \in S /\ call[c].at \in {"result", "error"}
                   THEN Lost(call[c]) ELSE call[c]]

RejectAll(calls) ==
  [c \in Calls |-> IF calls[c].stage = "waiting" THEN Over(calls[c]) ELSE calls[c]]

\* scheduleReconnect
Schedule ==
  IF timer \/ attempts >= MaxReconnects THEN UNCHANGED <<timer, attempts>>
  ELSE timer' = TRUE /\ attempts' = attempts + 1

\* The close event of any socket, current or not, at both its ends: requests
\* the gateway has not read by now are lost.
CloseEvent(s) ==
  /\ sock[s] = "closing"
  /\ sock' = [sock EXCEPT ![s] = "none"]
  /\ server' = [server EXCEPT ![s] = "none"]
  /\ flag' = FALSE
  /\ call' = RejectAll([c \in Calls |-> IF call[c].on = s THEN Lost(call[c]) ELSE call[c]])
  /\ IF leaving THEN UNCHANGED <<timer, attempts>> ELSE Schedule
  /\ UNCHANGED <<ws, leaving, posted, gateway, auth, task, limiterVars, overlapped, bounds>>

Disconnect ==
  /\ connects > 0 /\ ~leaving
  /\ leaving' = TRUE
  /\ timer' = FALSE
  /\ call' = RejectAll(Severed({ws}))
  /\ sock' = [s \in Sockets |-> IF s = ws /\ Live(s) THEN "closing" ELSE sock[s]]
  /\ ws' = NoSocket
  /\ flag' = FALSE
  /\ UNCHANGED <<attempts, posted, gateway, server, auth, task, limiterVars, overlapped, bounds>>

Connected == flag /\ ws # NoSocket /\ sock[ws] = "open"

\* sendToGateway: a message is given up unless connected.  The fall-back, a
\* client set by setGatewayClient, is never set.
SendToGateway(m) ==
  /\ call[m].stage = "idle"
  /\ call' = [call EXCEPT ![m] = IF Connected THEN Waiting ELSE Over(NoCall)]
  /\ UNCHANGED <<sock, ws, flag, attempts, timer, leaving, posted, service, overlapped, bounds>>

\* A user mentions the bot, on Discord or on Slack.
HandleMessage(m)    == SendToGateway(m)
HandleAppMention(m) == SendToGateway(m)

\* (fault) a failed handshake is tried again; its socket stays open
TriedAgain(c) ==
  IF c \in Sockets THEN flag' = FALSE /\ Schedule ELSE UNCHANGED <<flag, timer, attempts>>

\* A failed handshake: the flag is cleared, the socket stays open.
Rejected(c) ==
  /\ IF c \in Sockets THEN flag' = FALSE ELSE UNCHANGED flag
  /\ UNCHANGED <<timer, attempts>>

CallTimeout(c) ==
  /\ call[c].stage = "waiting"
  /\ call' = [call EXCEPT ![c] = Over(@)]
  /\ Rejected(c)
  /\ UNCHANGED <<sock, ws, leaving, posted, service, overlapped, bounds>>

\* handleMessage, of a response
HandleResponse(c) ==
  /\ call[c].at \in {"result", "error"}
  /\ call' = [call EXCEPT ![c] = Over(NoCall)]
  /\ IF call[c].at = "error" THEN Rejected(c) ELSE UNCHANGED <<flag, timer, attempts>>
  /\ UNCHANGED <<sock, ws, leaving, posted, service, overlapped, bounds>>

\* handleMessage, of a notification, on whichever socket: handleAgentResponse
\* posts it to the channel.
HandleAgentResponse(m, S) == posted' = [posted EXCEPT ![m] = @ + Cardinality(S)]

-----------------------------------------------------------------------------
(* The network                                                             *)

\* The connection breaks, or could not be made.
Break(s) ==
  /\ Live(s)
  /\ \/ sock[s] = "connecting" /\ gateway = "down" /\ UNCHANGED faults
     \/ Faulty
  /\ sock' = [sock EXCEPT ![s] = "closing"]
  /\ call' = Severed({s})
  /\ UNCHANGED <<ws, flag, attempts, timer, leaving, posted, gateway, server, auth,
                 task, limiterVars, overlapped, connects>>

\* Close code 1008 arrives at a socket that was refused.
Dismissed(s) ==
  /\ sock[s] = "open" /\ server[s] = "refused"
  /\ sock' = [sock EXCEPT ![s] = "closing"]
  /\ UNCHANGED <<ws, flag, attempts, timer, leaving, call, posted, service, overlapped, bounds>>

-----------------------------------------------------------------------------
(* The gateway                                                             *)

\* handleConnection
HandleConnection(s) ==
  /\ sock[s] = "connecting" /\ server[s] = "none" /\ gateway # "down"
  /\ CheckLimit("address")
  /\ server' = [server EXCEPT ![s] = IF Passes("address") THEN "listed" ELSE "refused"]
  /\ UNCHANGED <<client, gateway, auth, task, overlapped, bounds>>

\* Other adapters and command lines on the same machine share the address.
OtherConnection ==
  /\ gateway # "down" /\ Faulty
  /\ CheckLimit("address")
  /\ UNCHANGED <<client, gateway, server, auth, task, overlapped, connects>>

\* The answer goes out; to a call that is over it makes no difference.
Served(c, at) ==
  call' = [call EXCEPT ![c] = IF sock[@.on] = "open" /\ @.stage = "waiting"
                              THEN [@ EXCEPT !.at = at] ELSE Lost(@)]

Arrived(c) == call[c].at = "request" /\ server[call[c].on] = "listed"

\* rpc.handleMessage before setupHandlers has run: method not found
MethodNotFound(c) ==
  /\ Arrived(c) /\ gateway = "listening"
  /\ Served(c, "error")
  /\ UNCHANGED <<sock, ws, flag, attempts, timer, leaving, posted, service, overlapped, bounds>>

\* validateToken, of a token that is missing, wrong or right.  The adapters of
\* the repository send none.
ValidateToken(c) ==
  \/ ~auth /\ Served(c, "result") /\ UNCHANGED limiterVars
  \/ auth /\ Served(c, "error") /\ (UNCHANGED limiterVars \/ CheckLimit("token"))
  \/ auth /\ Passes("token") /\ Served(c, "result") /\ CheckLimit("token")

\* The connect method.  The entry it adds to clients is read by nobody.
ServeConnect(c) ==
  /\ c \in Sockets /\ Arrived(c) /\ gateway = "ready"
  /\ ValidateToken(c)
  /\ UNCHANGED <<sock, ws, flag, attempts, timer, leaving, posted, gateway, server, auth, task,
                 overlapped, bounds>>

\* The chat.send method
ServeChat(m) ==
  /\ Arrived(m) /\ gateway = "ready"
  /\ Served(m, "result")
  /\ task' = [task EXCEPT ![m] = "queued"]
  /\ UNCHANGED <<sock, ws, flag, attempts, timer, leaving, posted, gateway, server, auth,
                 limiterVars, overlapped, bounds>>

\* The orchestrator's response goes to every socket that is listed and open.
\* It is lost where the connection breaks before it arrives.
Broadcast(m) ==
  /\ task[m] = "queued"
  /\ task' = [task EXCEPT ![m] = "answered"]
  /\ \E S \in SUBSET {s \in Sockets : server[s] = "listed" /\ sock[s] = "open"} :
       HandleAgentResponse(m, S)
  /\ UNCHANGED <<sock, ws, flag, attempts, timer, leaving, call, gateway, server, auth,
                 limiterVars, overlapped, bounds>>

\* A new process, with a rate limiter of its own that remembers nothing
StartGateway ==
  /\ gateway = "down"
  /\ gateway' = "listening"
  /\ LimiterFresh
  /\ UNCHANGED <<client, server, auth, task, overlapped, bounds>>

\* initializeDependencies is done, or has failed: setupHandlers
SetupHandlers ==
  /\ gateway = "listening"
  /\ gateway' = "ready"
  /\ UNCHANGED <<client, server, auth, task, limiterVars, overlapped, bounds>>

\* stop, after which the process exits, or a crash.  The rate limiter is left
\* alone.
StopGateway ==
  /\ gateway # "down" /\ Faulty
  /\ gateway' = "down"
  /\ sock' = [s \in Sockets |-> IF server[s] # "none" /\ Live(s) THEN "closing" ELSE sock[s]]
  /\ call' = [c \in Calls |-> Lost(call[c])]
  /\ server' = [s \in Sockets |-> "none"]
  /\ task' = [m \in Messages |-> IF task[m] = "queued" THEN "none" ELSE task[m]]
  /\ UNCHANGED <<ws, flag, attempts, timer, leaving, posted, auth, limiterVars, overlapped,
                 connects>>

\* Time passes, and the interval timer cleans the rate limiter up.
Time ==
  /\ Tick \/ Cleanup
  /\ UNCHANGED <<client, gateway, server, auth, task, overlapped, bounds>>

-----------------------------------------------------------------------------
Next ==
  \/ \E s \in Sockets :
       \/ ConnectToGateway(s) \/ TimerFires(s) \/ Opens(s) \/ CloseEvent(s)
       \/ Break(s) \/ Dismissed(s) \/ HandleConnection(s) \/ ServeConnect(s)
  \/ \E m \in Messages : HandleMessage(m) \/ HandleAppMention(m) \/ ServeChat(m) \/ Broadcast(m)
  \/ \E c \in Calls : CallTimeout(c) \/ HandleResponse(c) \/ MethodNotFound(c)
  \/ Disconnect \/ OtherConnection \/ Time
  \/ StartGateway \/ SetupHandlers \/ StopGateway

Spec == Init /\ [][Next]_vars

\* What goes on by itself once an attempt to connect has begun
Proceeds(s) ==
  \/ HandleConnection(s) \/ Opens(s) \/ Dismissed(s) \/ CloseEvent(s)
  \/ gateway = "down" /\ Break(s)

\* Time passes, the timer fires, and connections do not hang.  Nothing is
\* assumed of calls, users and the gateway.
Fairness ==
  /\ WF_vars(Tick /\ Time)
  /\ WF_vars(\E s \in Sockets : TimerFires(s))
  /\ WF_vars(\E s \in Sockets : Proceeds(s))

FairSpec == Spec /\ Fairness

-----------------------------------------------------------------------------
(* Properties                                                              *)

\* A client told to leave has left, and no call waits on a socket that is gone.
\* There is one link at a time, and what the client believes of it is true: a
\* timer runs only while no socket is there, the flag is set only while the
\* current one is, and no reply is posted twice.  This is lost once connect()
\* was called while an earlier socket or timer was there, since the close event
\* does not ask whether its socket is the current one.
OneLink ==
  /\ leaving => ws = NoSocket /\ ~timer
  /\ \A c \in Calls : call[c].stage = "waiting" => sock[call[c].on] # "none"
  /\ \/ overlapped
     \/ /\ \A s \in Sockets : sock[s] # "none" => ~timer /\ (leaving \/ s = ws)
        /\ flag => ws # NoSocket /\ sock[ws] \in {"open", "closing"}
        /\ \A m \in Messages : posted[m] <= 1

\* The handshake failed or timed out, which nobody tries again.
Stranded == ws # NoSocket /\ sock[ws] = "open" /\ ~flag

GivenUp == attempts >= MaxReconnects /\ ~timer /\ \A s \in Sockets : sock[s] = "none"

\* Once connections no longer break, the link comes back: a client that was
\* dropped, met a gateway that was down or was turned down by the rate limiter
\* is connected in the end, unless it was told to leave, has used up its
\* attempts on a gateway that is down, or is stranded.
LinkComesBack ==
  <>[](connects = 0 \/ leaving \/ overlapped \/ GivenUp \/ Stranded \/ Connected)
=============================================================================
