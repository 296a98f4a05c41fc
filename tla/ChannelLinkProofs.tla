---------------------------- MODULE ChannelLinkProofs ----------------------------
(***************************************************************************)
(* Proofs about the link between a channel adapter and the gateway, for    *)
(* any sockets, messages, rate limiter and bounds: a client has one link   *)
(* at a time and knows it, no reply is posted twice, and the gateway never *)
(* lets more attempts pass in a window than the limit.                     *)
(*                                                                         *)
(* For the first: most operations end calls, close sockets and clear the flag, and so     *)
(* keep all of it; what is left are those that open a socket, start a call *)
(* or queue and answer a task.                                             *)
(***************************************************************************)
EXTENDS ChannelLink, FiniteSetTheorems, SequenceTheorems, TLAPS

SocketStates == {"none", "connecting", "open", "closing"}

LinkTypes ==
  /\ sock \in [Sockets -> SocketStates]
  /\ ws \in Sockets \union {NoSocket} /\ flag \in BOOLEAN
  /\ timer \in BOOLEAN /\ leaving \in BOOLEAN /\ overlapped \in BOOLEAN
  /\ call \in [Calls -> CallRecord]
  /\ posted \in [Messages -> Nat]
  /\ task \in [Messages -> {"none", "queued", "answered"}]

\* A client told to leave has left.
Left == leaving => ws = NoSocket /\ ~timer

\* A call waits on a socket that is there.
Attached == \A c \in Calls : call[c].stage = "waiting" =>
              call[c].on \in Sockets /\ sock[call[c].on] # "none"

\* Until a message has been queued nothing was posted for it, and it is queued
\* by the request it is sent in.
Unanswered ==
  \A m \in Messages : /\ call[m].stage = "idle" => call[m].at # "request"
                      /\ call[m].stage = "idle" \/ call[m].at = "request" => task[m] = "none"
                      /\ task[m] = "queued" => call[m].stage # "idle" /\ call[m].at # "request"
                      /\ task[m] # "answered" => posted[m] = 0

\* One socket, or a timer for the next one; the flag is set for it only.
Alone ==
  /\ \A s \in Sockets : sock[s] # "none" => ~timer /\ (leaving \/ s = ws)
  /\ leaving => \A s \in Sockets : ~Live(s)
  /\ flag => ws # NoSocket /\ sock[ws] \in {"open", "closing"}
  /\ \A m \in Messages : posted[m] <= 1

LInv == LinkTypes /\ Left /\ Attached /\ Unanswered /\ (overlapped \/ Alone)

-----------------------------------------------------------------------------
(* Calls                                                                   *)

\* What becomes of a call that nobody makes: at most it ends, and is lost.
Quieter(k, j) ==
  /\ j \in CallRecord
  /\ j.stage = "waiting" => k.stage = "waiting" /\ j.on = k.on
  /\ j.stage = "idle" => k.stage = "idle"
  /\ j.at = "request" => k.at = "request"

LEMMA NoCallType ==
  /\ NoCall \in CallRecord /\ NoCall.stage = "idle" /\ NoCall.at = "nowhere"
  /\ Over(NoCall) \in CallRecord /\ Over(NoCall).stage = "over" /\ Over(NoCall).at = "nowhere"
<1>1. NoCall \in CallRecord /\ NoCall.stage = "idle" /\ NoCall.at = "nowhere"
  BY DEF NoCall, CallRecord
<1>2. Over(NoCall) = [NoCall EXCEPT !.stage = "over"]
  BY <1>1 DEF Over
<1> HIDE DEF NoCall
<1> QED
  BY <1>1, <1>2 DEF CallRecord

LEMMA OverIsQuieter ==
  ASSUME NEW k \in CallRecord
  PROVE  /\ Quieter(k, k) /\ Quieter(k, Over(NoCall))
         /\ Quieter(k, Over(k)) /\ Over(k).stage = "over"
<1>1. Quieter(k, k)
  BY DEF Quieter
<1>2. Quieter(k, Over(NoCall))
  BY NoCallType DEF Quieter
<1>3. Quieter(k, Over(k)) /\ Over(k).stage = "over"
  <2>1. CASE k.at = "request"
    <3>1. Over(k) = [k EXCEPT !.stage = "over"]
      BY <2>1 DEF Over
    <3> QED
      BY <2>1, <3>1 DEF CallRecord, Quieter
  <2>2. CASE k.at # "request"
    <3>1. Over(k) = Over(NoCall)
      BY <2>2, NoCallType DEF Over
    <3> QED
      BY <1>2, <3>1, NoCallType
  <2> QED
    BY <2>1, <2>2
<1> QED
  BY <1>1, <1>2, <1>3

LEMMA AtIsQuieter ==
  ASSUME NEW k \in CallRecord, NEW at \in {"nowhere", "result", "error"}
  PROVE  Quieter(k, [k EXCEPT !.at = at])
  BY DEF CallRecord, Quieter

LEMMA LostIsQuieter ==
  ASSUME NEW k \in CallRecord
  PROVE  Quieter(k, Lost(k)) /\ Lost(k) \in CallRecord
  BY OverIsQuieter, AtIsQuieter DEF Lost, Quieter

LEMMA QuieterFollows ==
  ASSUME NEW k, NEW j, NEW i, Quieter(k, j), Quieter(j, i)
  PROVE  Quieter(k, i)
  BY DEF Quieter

\* One call changes.
LEMMA CallType ==
  ASSUME LinkTypes, NEW c \in Calls, NEW j, Quieter(call[c], j), call' = [call EXCEPT ![c] = j]
  PROVE  /\ call' \in [Calls -> CallRecord]
         /\ \A d \in Calls : Quieter(call[d], call'[d])
  BY OverIsQuieter DEF LinkTypes, Quieter

LEMMA SeveredIsQuieter ==
  ASSUME LinkTypes, NEW S
  PROVE  /\ Severed(S) \in [Calls -> CallRecord]
         /\ \A c \in Calls : Quieter(call[c], Severed(S)[c])
<1>1. ASSUME NEW c \in Calls
      PROVE  Quieter(call[c], Severed(S)[c])
  BY OverIsQuieter, LostIsQuieter DEF Severed, LinkTypes
<1>2. \A c \in Calls : Severed(S)[c] \in CallRecord
  BY <1>1 DEF Quieter
<1> QED
  BY <1>1, <1>2 DEF Severed

LEMMA RejectAllIsQuieter ==
  ASSUME LinkTypes, NEW f \in [Calls -> CallRecord], \A c \in Calls : Quieter(call[c], f[c])
  PROVE  /\ RejectAll(f) \in [Calls -> CallRecord]
         /\ \A c \in Calls : Quieter(call[c], RejectAll(f)[c]) /\ RejectAll(f)[c].stage # "waiting"
<1>1. ASSUME NEW c \in Calls
      PROVE  Quieter(call[c], RejectAll(f)[c]) /\ RejectAll(f)[c].stage # "waiting"
  <2>1. Quieter(f[c], Over(f[c])) /\ Over(f[c]).stage = "over"
    BY OverIsQuieter
  <2> QED
    BY <2>1, QuieterFollows DEF RejectAll
<1>2. \A c \in Calls : RejectAll(f)[c] \in CallRecord
  BY <1>1 DEF Quieter
<1> QED
  BY <1>1, <1>2 DEF RejectAll

LEMMA CallNames ==
  /\ \A s \in Sockets : s \in Calls /\ s # NoSocket
  /\ \A m \in Messages : m \in Calls /\ m \notin Sockets
  BY NoSocketIsNone DEF Calls

\* Calls that get quieter keep what is known of the tasks and the replies.
LEMMA StillUnanswered ==
  ASSUME LinkTypes, Unanswered, UNCHANGED <<posted, task>>,
         \A m \in Messages : Quieter(call[m], call'[m])
  PROVE  Unanswered'
  BY DEF Unanswered, Quieter

-----------------------------------------------------------------------------
(* Steps that end calls, close sockets or clear the flag                   *)

LEMMA QuietStep ==
  ASSUME LInv, UNCHANGED <<ws, timer, leaving, posted, task, overlapped>>,
         flag' \in BOOLEAN, flag' => flag,
         sock' \in [Sockets -> SocketStates],
         \A s \in Sockets : /\ sock'[s] = "none" <=> sock[s] = "none"
                            /\ sock'[s] = sock[s] \/ sock'[s] = "closing",
         call' \in [Calls -> CallRecord], \A c \in Calls : Quieter(call[c], call'[c])
  PROVE  LInv'
<1>1. LinkTypes'
  BY DEF LInv, LinkTypes
<1>2. Left'
  BY DEF LInv, Left
<1>3. Attached'
  BY DEF LInv, Attached, Quieter
<1>4. Unanswered'
  BY CallNames, StillUnanswered DEF LInv
<1>5. ASSUME Alone
      PROVE  Alone'
  <2>1. \A s \in Sockets : sock'[s] # "none" => ~timer' /\ (leaving' \/ s = ws')
    BY <1>5 DEF Alone
  <2>2. leaving' => \A s \in Sockets : ~Live(s)'
    BY <1>5 DEF Alone, Live
  <2>3. flag' => ws' # NoSocket /\ sock'[ws'] \in {"open", "closing"}
    BY <1>5 DEF Alone, LInv, LinkTypes
  <2>4. \A m \in Messages : posted'[m] <= 1
    BY <1>5 DEF Alone
  <2> QED
    BY <2>1, <2>2, <2>3, <2>4 DEF Alone
<1> QED
  BY <1>1, <1>2, <1>3, <1>4, <1>5 DEF LInv

LEMMA CallStep ==
  ASSUME LInv, UNCHANGED <<sock, ws, timer, leaving, posted, task, overlapped>>,
         flag' \in BOOLEAN, flag' => flag,
         NEW c \in Calls, NEW j, Quieter(call[c], j), call' = [call EXCEPT ![c] = j]
  PROVE  LInv'
<1>1. LinkTypes
  BY DEF LInv
<1>2. sock' \in [Sockets -> SocketStates]
  BY <1>1 DEF LinkTypes
<1>3. call' \in [Calls -> CallRecord] /\ \A d \in Calls : Quieter(call[d], call'[d])
  BY <1>1, CallType
<1> QED
  BY <1>2, <1>3, QuietStep

\* Nothing of the link changes.
LEMMA OtherStep ==
  ASSUME LInv, UNCHANGED <<sock, ws, flag, timer, leaving, call, posted, task, overlapped>>
  PROVE  LInv'
<1>1. LinkTypes
  BY DEF LInv
<1>2. /\ sock' \in [Sockets -> SocketStates] /\ call' \in [Calls -> CallRecord] /\ flag' \in BOOLEAN
      /\ \A c \in Calls : Quieter(call[c], call'[c])
  BY <1>1, OverIsQuieter DEF LinkTypes
<1> QED
  BY <1>2, QuietStep

LEMMA CallTimeoutKeeps ==
  ASSUME LInv, NEW c \in Calls, CallTimeout(c)
  PROVE  LInv'
<1>1. call[c] \in CallRecord /\ flag \in BOOLEAN
  BY DEF LInv, LinkTypes
<1>2. Quieter(call[c], Over(call[c]))
  BY <1>1, OverIsQuieter
<1>3. flag' \in BOOLEAN /\ (flag' => flag) /\ UNCHANGED timer
  BY <1>1 DEF CallTimeout, Rejected
<1> QED
  BY <1>2, <1>3, CallStep DEF CallTimeout, service

LEMMA HandleResponseKeeps ==
  ASSUME LInv, NEW c \in Calls, HandleResponse(c)
  PROVE  LInv'
<1>1. call[c] \in CallRecord /\ flag \in BOOLEAN
  BY DEF LInv, LinkTypes
<1>2. Quieter(call[c], Over(NoCall))
  BY <1>1, OverIsQuieter
<1>3. flag' \in BOOLEAN /\ (flag' => flag) /\ UNCHANGED timer
  BY <1>1 DEF HandleResponse, Rejected
<1> QED
  BY <1>2, <1>3, CallStep DEF HandleResponse, service

\* The gateway has read the request and answers, which may be lost.
LEMMA ServedIsQuieter ==
  ASSUME LinkTypes, NEW c \in Calls, NEW at \in {"result", "error"}, Served(c, at)
  PROVE  \E j : Quieter(call[c], j) /\ j.at # "request" /\ call' = [call EXCEPT ![c] = j]
<1>1. call[c] \in CallRecord
  BY DEF LinkTypes
<1> DEFINE j == [call[c] EXCEPT !.at = at]
<1>2. call' = [call EXCEPT ![c] = j] \/ call' = [call EXCEPT ![c] = Lost(call[c])]
  BY DEF Served
<1>3. Quieter(call[c], j) /\ j.at # "request"
  BY <1>1, AtIsQuieter DEF CallRecord
<1>4. Quieter(call[c], Lost(call[c])) /\ Lost(call[c]).at # "request"
  BY <1>1, LostIsQuieter, NoCallType DEF Lost, CallRecord
<1> HIDE DEF j
<1> QED
  BY <1>2, <1>3, <1>4

LEMMA MethodNotFoundKeeps ==
  ASSUME LInv, NEW c \in Calls, MethodNotFound(c)
  PROVE  LInv'
<1>1. PICK j : Quieter(call[c], j) /\ call' = [call EXCEPT ![c] = j]
  BY ServedIsQuieter DEF MethodNotFound, LInv
<1>2. flag' \in BOOLEAN /\ (flag' => flag)
  BY DEF MethodNotFound, LInv, LinkTypes
<1> QED
  BY <1>1, <1>2, CallStep DEF MethodNotFound, service

LEMMA ServeConnectKeeps ==
  ASSUME LInv, NEW s \in Sockets, ServeConnect(s)
  PROVE  LInv'
<1>1. s \in Calls
  BY CallNames
<1>2. PICK j : Quieter(call[s], j) /\ call' = [call EXCEPT ![s] = j]
  BY <1>1, ServedIsQuieter DEF ServeConnect, ValidateToken, LInv
<1>3. flag' \in BOOLEAN /\ (flag' => flag)
  BY DEF ServeConnect, LInv, LinkTypes
<1> QED
  BY <1>1, <1>2, <1>3, CallStep DEF ServeConnect

LEMMA ClosingType ==
  ASSUME LinkTypes, NEW s \in Sockets, Live(s), sock' = [sock EXCEPT ![s] = "closing"]
  PROVE  /\ sock' \in [Sockets -> SocketStates]
         /\ \A t \in Sockets : /\ sock'[t] = "none" <=> sock[t] = "none"
                               /\ sock'[t] = sock[t] \/ sock'[t] = "closing"
  BY DEF LinkTypes, SocketStates, Live

LEMMA BreakKeeps ==
  ASSUME LInv, NEW s \in Sockets, Break(s)
  PROVE  LInv'
<1>1. LinkTypes /\ flag' \in BOOLEAN
  BY DEF Break, LInv, LinkTypes
<1>2. call' \in [Calls -> CallRecord] /\ \A c \in Calls : Quieter(call[c], call'[c])
  BY <1>1, SeveredIsQuieter DEF Break
<1>3. /\ sock' \in [Sockets -> SocketStates]
      /\ \A t \in Sockets : /\ sock'[t] = "none" <=> sock[t] = "none"
                            /\ sock'[t] = sock[t] \/ sock'[t] = "closing"
  BY <1>1, ClosingType DEF Break
<1>4. UNCHANGED <<ws, flag, timer, leaving, posted, task, overlapped>>
  BY DEF Break
<1> QED
  BY <1>1, <1>2, <1>3, <1>4, QuietStep

LEMMA DismissedKeeps ==
  ASSUME LInv, NEW s \in Sockets, Dismissed(s)
  PROVE  LInv'
<1>1. LinkTypes /\ flag' \in BOOLEAN
  BY DEF Dismissed, LInv, LinkTypes
<1>2. call' \in [Calls -> CallRecord] /\ \A c \in Calls : Quieter(call[c], call'[c])
  BY <1>1, OverIsQuieter DEF Dismissed, LinkTypes
<1>3. /\ sock' \in [Sockets -> SocketStates]
      /\ \A t \in Sockets : /\ sock'[t] = "none" <=> sock[t] = "none"
                            /\ sock'[t] = sock[t] \/ sock'[t] = "closing"
  BY <1>1, ClosingType DEF Dismissed, Live
<1>4. UNCHANGED <<ws, flag, timer, leaving, posted, task, overlapped>>
  BY DEF Dismissed, service
<1> QED
  BY <1>1, <1>2, <1>3, <1>4, QuietStep

\* What the gateway had queued is gone with it; what it had answered is not.
LEMMA StopGatewayKeeps ==
  ASSUME LInv, StopGateway
  PROVE  LInv'
<1>1. /\ LinkTypes /\ UNCHANGED <<ws, flag, timer, leaving, posted, overlapped>>
      /\ call' = [c \in Calls |-> Lost(call[c])]
      /\ task' = [m \in Messages |-> IF task[m] = "queued" THEN "none" ELSE task[m]]
  BY DEF StopGateway, LInv
<1>2. call' \in [Calls -> CallRecord] /\ \A c \in Calls : Quieter(call[c], call'[c])
  BY <1>1, LostIsQuieter DEF LinkTypes
<1>3. /\ sock' \in [Sockets -> SocketStates]
      /\ \A s \in Sockets : /\ sock'[s] = "none" <=> sock[s] = "none"
                            /\ sock'[s] = sock[s] \/ sock'[s] = "closing"
  BY <1>1 DEF StopGateway, LinkTypes, SocketStates, Live
<1>4. LinkTypes'
  BY <1>1, <1>2, <1>3 DEF LinkTypes
<1>5. Left' /\ Attached'
  BY <1>1, <1>2, <1>3 DEF LInv, Left, Attached, Quieter
<1>6. Unanswered'
  BY <1>1, <1>2, CallNames DEF LInv, LinkTypes, Unanswered, Quieter
<1>7. ASSUME Alone
      PROVE  Alone'
  BY <1>1, <1>3, <1>7 DEF Alone, Live, LinkTypes
<1> QED
  BY <1>1, <1>4, <1>5, <1>6, <1>7 DEF LInv

\* The request is read once: then its task is queued.
LEMMA ServeChatKeeps ==
  ASSUME LInv, NEW m \in Messages, ServeChat(m)
  PROVE  LInv'
<1>1. /\ LinkTypes /\ UNCHANGED <<sock, ws, flag, timer, leaving, posted, overlapped>>
      /\ task' = [task EXCEPT ![m] = "queued"] /\ call[m].at = "request" /\ m \in Calls
  BY CallNames DEF ServeChat, LInv, Arrived
<1>2. PICK j : Quieter(call[m], j) /\ j.at # "request" /\ call' = [call EXCEPT ![m] = j]
  BY <1>1, ServedIsQuieter DEF ServeChat
<1>3. call' \in [Calls -> CallRecord] /\ \A c \in Calls : Quieter(call[c], call'[c])
  BY <1>1, <1>2, CallType
<1>4. LinkTypes'
  BY <1>1, <1>3 DEF LinkTypes
<1>5. Left' /\ Attached'
  BY <1>1, <1>3 DEF LInv, Left, Attached, Quieter
<1>6. task[m] = "none" /\ call[m].stage # "idle"
  BY <1>1 DEF LInv, Unanswered
<1>7. posted[m] = 0
  BY <1>6 DEF LInv, Unanswered
<1>8. ASSUME NEW n \in Messages
      PROVE  /\ call'[n].stage = "idle" => call'[n].at # "request"
             /\ call'[n].stage = "idle" \/ call'[n].at = "request" => task'[n] = "none"
             /\ task'[n] = "queued" => call'[n].stage # "idle" /\ call'[n].at # "request"
             /\ task'[n] # "answered" => posted'[n] = 0
  <2>1. CASE n = m
    <3>1. call'[m] = j /\ task'[m] = "queued" /\ posted'[m] = posted[m]
      BY <1>1, <1>2 DEF LinkTypes
    <3>2. j.stage # "idle"
      BY <1>2, <1>6 DEF Quieter
    <3> QED
      BY <1>2, <1>7, <2>1, <3>1, <3>2
  <2>2. CASE n # m
    BY <1>1, <1>3, <2>2, CallNames DEF LInv, LinkTypes, Unanswered, Quieter
  <2> QED
    BY <2>1, <2>2
<1>9. Alone => Alone'
  BY <1>1 DEF Alone, Live
<1> QED
  BY <1>1, <1>4, <1>5, <1>8, <1>9 DEF LInv, Unanswered

-----------------------------------------------------------------------------
(* Steps that start a call, answer a task, or open and close the link      *)

\* A call that starts waits on the current socket.
LEMMA WaitingType ==
  ASSUME LinkTypes, ws # NoSocket
  PROVE  /\ Waiting \in CallRecord /\ Waiting.stage = "waiting" /\ Waiting.on = ws
         /\ Waiting.at = "request"
  BY DEF LinkTypes, Waiting, CallRecord

LEMMA SendToGatewayKeeps ==
  ASSUME LInv, NEW m \in Messages, SendToGateway(m)
  PROVE  LInv'
<1>1. /\ LinkTypes /\ call[m].stage = "idle" /\ m \in Calls /\ call[m] \in CallRecord
      /\ UNCHANGED <<sock, ws, flag, timer, leaving, posted, task, overlapped>>
  BY CallNames DEF SendToGateway, LInv, LinkTypes, service
<1>2. CASE ~Connected
  <2>1. call' = [call EXCEPT ![m] = Over(NoCall)]
    BY <1>2 DEF SendToGateway
  <2>2. Quieter(call[m], Over(NoCall)) /\ flag' \in BOOLEAN /\ (flag' => flag)
    BY <1>1, OverIsQuieter DEF LinkTypes
  <2> QED
    BY <1>1, <2>1, <2>2, CallStep
<1>3. CASE Connected
  <2>1. /\ Waiting \in CallRecord /\ Waiting.stage = "waiting" /\ Waiting.on = ws
        /\ Waiting.at = "request" /\ ws \in Sockets /\ sock[ws] = "open"
    BY <1>1, <1>3, WaitingType DEF Connected, LinkTypes
  <2>2. /\ call' \in [Calls -> CallRecord] /\ call'[m] = Waiting
        /\ \A c \in Calls \ {m} : call'[c] = call[c]
    BY <1>1, <1>3, <2>1 DEF SendToGateway, LinkTypes
  <2>3. LinkTypes' /\ Left'
    BY <1>1, <2>2 DEF LInv, LinkTypes, Left
  <2>4. Attached'
    BY <1>1, <2>1, <2>2 DEF LInv, Attached
  <2>5. Unanswered'
    <3>1. task[m] = "none" /\ posted[m] = 0
      BY <1>1 DEF LInv, Unanswered
    <3> QED
      BY <1>1, <2>1, <2>2, <3>1, CallNames DEF LInv, Unanswered
  <2>6. Alone => Alone'
    BY <1>1 DEF Alone, Live
  <2> QED
    BY <1>1, <2>3, <2>4, <2>5, <2>6 DEF LInv
<1> QED
  BY <1>2, <1>3

\* The response of a task goes to every listed socket: that is one at most.
LEMMA BroadcastKeeps ==
  ASSUME LInv, NEW m \in Messages, Broadcast(m), IsFiniteSet(Sockets)
  PROVE  LInv'
<1>1. /\ LinkTypes /\ task[m] = "queued" /\ task' = [task EXCEPT ![m] = "answered"]
      /\ UNCHANGED <<sock, ws, flag, timer, leaving, call, overlapped>>
  BY DEF Broadcast, LInv
<1>2. PICK S \in SUBSET {s \in Sockets : server[s] = "listed" /\ sock[s] = "open"} :
        posted' = [posted EXCEPT ![m] = @ + Cardinality(S)]
  BY DEF Broadcast, HandleAgentResponse
<1>3. posted[m] = 0 /\ call[m].stage # "idle" /\ call[m].at # "request"
  BY <1>1 DEF LInv, Unanswered
<1>4. S \subseteq Sockets /\ Cardinality(S) \in Nat
  <2>1. S \subseteq Sockets
    BY <1>2
  <2>2. IsFiniteSet(S)
    BY <2>1, FS_Subset
  <2> QED
    BY <2>1, <2>2, FS_CardinalityType
<1>5. /\ posted' \in [Messages -> Nat] /\ posted'[m] = Cardinality(S)
      /\ \A n \in Messages \ {m} : posted'[n] = posted[n]
  BY <1>1, <1>2, <1>3, <1>4 DEF LinkTypes
<1>6. LinkTypes'
  BY <1>1, <1>5 DEF LinkTypes
<1>7. Left' /\ Attached'
  BY <1>1 DEF LInv, Left, Attached
<1>8. Unanswered'
  BY <1>1, <1>3, <1>5 DEF LInv, LinkTypes, Unanswered
<1>9. ASSUME Alone
      PROVE  Alone'
  <2>1. S \subseteq {ws}
    BY <1>2, <1>9 DEF Alone, Live
  <2>2. Cardinality(S) <= 1
    <3>1. IsFiniteSet({ws}) /\ Cardinality({ws}) = 1
      BY FS_Singleton
    <3> QED
      BY <2>1, <3>1, FS_Subset
  <2>3. \A n \in Messages : posted'[n] <= 1
    BY <1>5, <1>9, <2>2 DEF Alone
  <2> QED
    BY <1>1, <1>9, <2>3 DEF Alone, Live
<1> QED
  BY <1>1, <1>6, <1>7, <1>8, <1>9 DEF LInv

\* The open event: the flag is set if the current socket is open, and only then
\* the handshake is under way.
LEMMA OpensKeeps ==
  ASSUME LInv, NEW s \in Sockets, Opens(s)
  PROVE  LInv'
<1> DEFINE ready == ws # NoSocket /\ sock'[ws] = "open"
<1>1. /\ LinkTypes /\ sock[s] = "connecting" /\ sock' = [sock EXCEPT ![s] = "open"]
      /\ flag' = ready /\ call' = [call EXCEPT ![s] = IF ready THEN Waiting ELSE Over(NoCall)]
      /\ UNCHANGED <<ws, timer, leaving, posted, task, overlapped>> /\ s \in Calls
  BY CallNames DEF Opens, LInv, service
<1>2. /\ sock' \in [Sockets -> SocketStates] /\ sock'[s] = "open"
      /\ \A t \in Sockets \ {s} : sock'[t] = sock[t]
  BY <1>1 DEF LinkTypes, SocketStates
<1>3. /\ call' \in [Calls -> CallRecord] /\ \A c \in Calls \ {s} : call'[c] = call[c]
      /\ call'[s].stage = "waiting" => ws \in Sockets /\ call'[s].on = ws /\ sock'[ws] = "open"
  <2>1. CASE ready
    <3>1. Waiting \in CallRecord /\ Waiting.on = ws /\ ws \in Sockets
      BY <1>1, <2>1, WaitingType DEF LinkTypes
    <3> QED
      BY <1>1, <2>1, <3>1 DEF LinkTypes
  <2>2. CASE ~ready
    BY <1>1, <2>2, NoCallType DEF LinkTypes
  <2> QED
    BY <2>1, <2>2
<1>4. LinkTypes' /\ Left'
  BY <1>1, <1>2, <1>3 DEF LInv, LinkTypes, Left
<1>5. Attached'
  <2>1. ASSUME NEW c \in Calls, call'[c].stage = "waiting"
        PROVE  call'[c].on \in Sockets /\ sock'[call'[c].on] # "none"
    BY <1>2, <1>3, <2>1 DEF LInv, Attached
  <2> QED
    BY <2>1 DEF Attached
<1>6. Unanswered'
  BY <1>1, <1>3, CallNames DEF LInv, Unanswered
<1>7. ASSUME Alone
      PROVE  Alone'
  <2>1. \A t \in Sockets : sock'[t] # "none" => ~timer' /\ (leaving' \/ t = ws')
    BY <1>1, <1>2, <1>7 DEF Alone
  <2>2. leaving' => \A t \in Sockets : ~Live(t)'
    BY <1>1, <1>7 DEF Alone, Live
  <2>3. flag' => ws' # NoSocket /\ sock'[ws'] \in {"open", "closing"}
    BY <1>1
  <2> QED
    BY <1>1, <1>7, <2>1, <2>2, <2>3 DEF Alone
<1> QED
  BY <1>1, <1>4, <1>5, <1>6, <1>7 DEF LInv

\* A new socket becomes the current one, and is alone if nothing was there.
LEMMA DoConnectKeeps ==
  ASSUME LInv, NEW s \in Sockets, DoConnect(s), timer' \in BOOLEAN, overlapped' \in BOOLEAN,
         leaving' = FALSE, UNCHANGED <<posted, task>>,
         \/ overlapped'
         \/ ~flag /\ ~timer' /\ \A t \in Sockets : sock[t] = "none",
         \/ overlapped'
         \/ Alone
  PROVE  LInv'
<1>1. /\ LinkTypes /\ s \in Calls /\ ws' = s /\ s # NoSocket /\ UNCHANGED flag
      /\ sock' \in [Sockets -> SocketStates] /\ sock'[s] = "connecting"
      /\ \A t \in Sockets \ {s} : sock'[t] = sock[t]
  BY CallNames DEF DoConnect, LInv, LinkTypes, SocketStates
<1>2. /\ call' \in [Calls -> CallRecord] /\ call'[s].stage = "idle"
      /\ \A c \in Calls \ {s} : call'[c] = call[c]
  BY <1>1, NoCallType DEF DoConnect, LinkTypes
<1>3. LinkTypes' /\ Left'
  BY <1>1, <1>2 DEF LInv, LinkTypes, Left
<1>4. Attached'
  <2>1. ASSUME NEW c \in Calls, call'[c].stage = "waiting"
        PROVE  call'[c].on \in Sockets /\ sock'[call'[c].on] # "none"
    BY <1>1, <1>2, <2>1 DEF LInv, Attached
  <2> QED
    BY <2>1 DEF Attached
<1>5. Unanswered'
  BY <1>1, <1>2, CallNames DEF LInv, Unanswered
<1>6. ASSUME ~overlapped'
      PROVE  Alone'
  BY <1>1, <1>6 DEF Alone
<1> QED
  BY <1>3, <1>4, <1>5, <1>6 DEF LInv

LEMMA ConnectToGatewayKeeps ==
  ASSUME LInv, NEW s \in Sockets, ConnectToGateway(s)
  PROVE  LInv'
<1>1. /\ DoConnect(s) /\ leaving' = FALSE /\ ~flag /\ UNCHANGED <<timer, posted, task>>
      /\ overlapped' = (overlapped \/ timer \/ \E t \in Sockets : sock[t] # "none")
  BY DEF ConnectToGateway, Connect, DoConnect, service
<1>2. timer' \in BOOLEAN /\ overlapped' \in BOOLEAN
  BY <1>1 DEF LInv, LinkTypes
<1>3. \/ overlapped'
      \/ ~flag /\ ~timer' /\ \A t \in Sockets : sock[t] = "none"
  BY <1>1
<1>4. overlapped' \/ Alone
  BY <1>1 DEF LInv
<1> QED
  BY <1>1, <1>2, <1>3, <1>4, DoConnectKeeps

\* The timer runs only while no socket is there, and not for one who leaves.
LEMMA TimerFiresKeeps ==
  ASSUME LInv, NEW s \in Sockets, TimerFires(s)
  PROVE  LInv'
<1>1. /\ DoConnect(s) /\ timer /\ timer' = FALSE
      /\ UNCHANGED <<leaving, posted, task, overlapped>>
  BY DEF TimerFires, Fires, DoConnect, service
<1>2. leaving' = FALSE /\ overlapped' \in BOOLEAN
  BY <1>1 DEF LInv, Left, LinkTypes
<1>3. Alone => ~flag /\ ~timer' /\ \A t \in Sockets : sock[t] = "none"
  <2>1. ASSUME Alone
        PROVE  ~flag /\ \A t \in Sockets : sock[t] = "none"
    <3>1. \A t \in Sockets : sock[t] = "none"
      BY <1>1, <2>1 DEF Alone
    <3>2. flag => ws \in Sockets /\ sock[ws] # "none"
      BY <2>1 DEF Alone, LInv, LinkTypes
    <3> QED
      BY <3>1, <3>2
  <2> QED
    BY <1>1, <2>1
<1>4. overlapped' \/ Alone
  BY <1>1 DEF LInv
<1> QED
  BY <1>1, <1>2, <1>3, <1>4, DoConnectKeeps

\* The close event ends every call; the timer is set if the socket was the last.
LEMMA CloseEventKeeps ==
  ASSUME LInv, NEW s \in Sockets, CloseEvent(s)
  PROVE  LInv'
<1> DEFINE f == [c \in Calls |-> IF call[c].on = s THEN Lost(call[c]) ELSE call[c]]
<1>1. /\ LinkTypes /\ sock[s] = "closing" /\ sock' = [sock EXCEPT ![s] = "none"]
      /\ flag' = FALSE /\ call' = RejectAll(f)
      /\ UNCHANGED <<ws, leaving, posted, task, overlapped>>
      /\ timer' \in BOOLEAN /\ (leaving => timer' = timer)
  BY DEF CloseEvent, Schedule, LInv, LinkTypes
<1>2. f \in [Calls -> CallRecord] /\ \A c \in Calls : Quieter(call[c], f[c])
  <2>1. \A c \in Calls : Quieter(call[c], f[c])
    BY <1>1, OverIsQuieter, LostIsQuieter DEF LinkTypes
  <2> QED
    BY <2>1 DEF Quieter
<1> HIDE DEF f
<1>3. /\ call' \in [Calls -> CallRecord]
      /\ \A c \in Calls : Quieter(call[c], call'[c]) /\ call'[c].stage # "waiting"
  BY <1>1, <1>2, RejectAllIsQuieter
<1>4. /\ sock' \in [Sockets -> SocketStates] /\ sock'[s] = "none"
      /\ \A t \in Sockets \ {s} : sock'[t] = sock[t]
  BY <1>1 DEF LinkTypes, SocketStates
<1>5. LinkTypes' /\ Left'
  BY <1>1, <1>3, <1>4 DEF LInv, LinkTypes, Left
<1>6. Attached'
  BY <1>3 DEF Attached
<1>7. Unanswered'
  BY <1>1, <1>3, CallNames, StillUnanswered DEF LInv
<1>8. ASSUME Alone
      PROVE  Alone'
  <2>1. \A t \in Sockets : sock'[t] # "none" => ~timer' /\ (leaving' \/ t = ws')
    BY <1>1, <1>4, <1>8 DEF Alone
  <2>2. leaving' => \A t \in Sockets : ~Live(t)'
    BY <1>1, <1>4, <1>8 DEF Alone, Live
  <2> QED
    BY <1>1, <1>8, <2>1, <2>2 DEF Alone
<1> QED
  BY <1>1, <1>5, <1>6, <1>7, <1>8 DEF LInv

LEMMA DisconnectKeeps ==
  ASSUME LInv, Disconnect
  PROVE  LInv'
<1>1. /\ LinkTypes /\ ~leaving /\ leaving' = TRUE /\ timer' = FALSE /\ ws' = NoSocket
      /\ flag' = FALSE /\ call' = RejectAll(Severed({ws}))
      /\ sock' = [s \in Sockets |-> IF s = ws /\ Live(s) THEN "closing" ELSE sock[s]]
      /\ UNCHANGED <<posted, task, overlapped>>
  BY DEF Disconnect, LInv
<1>2. /\ call' \in [Calls -> CallRecord]
      /\ \A c \in Calls : Quieter(call[c], call'[c]) /\ call'[c].stage # "waiting"
  BY <1>1, SeveredIsQuieter, RejectAllIsQuieter
<1>3. sock' \in [Sockets -> SocketStates]
  BY <1>1 DEF LinkTypes, SocketStates
<1>4. LinkTypes' /\ Left'
  BY <1>1, <1>2, <1>3 DEF LinkTypes, Left
<1>5. Attached'
  BY <1>2 DEF Attached
<1>6. Unanswered'
  BY <1>1, <1>2, CallNames, StillUnanswered DEF LInv
<1>7. ASSUME Alone
      PROVE  Alone'
  <2>1. \A t \in Sockets : ~Live(t)'
    BY <1>1, <1>7 DEF Alone, Live
  <2> QED
    BY <1>1, <1>7, <2>1 DEF Alone
<1> QED
  BY <1>1, <1>4, <1>5, <1>6, <1>7 DEF LInv

-----------------------------------------------------------------------------
(* The invariant, and what follows from it                                 *)

LEMMA InitHolds ==
  ASSUME Init
  PROVE  LInv
<1>1. LinkTypes
  BY NoCallType DEF Init, LinkTypes, SocketStates
<1>2. Left /\ Attached /\ Unanswered
  BY NoCallType, CallNames DEF Init, Left, Attached, Unanswered
<1>3. Alone
  BY DEF Init, Alone
<1> QED
  BY <1>1, <1>2, <1>3 DEF LInv

LEMMA NextKeeps ==
  ASSUME LInv, [Next]_vars, IsFiniteSet(Sockets)
  PROVE  LInv'
<1>1. ASSUME NEW s \in Sockets,
             \/ ConnectToGateway(s) \/ TimerFires(s) \/ Opens(s) \/ CloseEvent(s)
             \/ Break(s) \/ Dismissed(s) \/ HandleConnection(s) \/ ServeConnect(s)
      PROVE  LInv'
  <2>1. CASE ConnectToGateway(s) \/ TimerFires(s)
    BY <2>1, ConnectToGatewayKeeps, TimerFiresKeeps
  <2>2. CASE Opens(s) \/ CloseEvent(s)
    BY <2>2, OpensKeeps, CloseEventKeeps
  <2>3. CASE Break(s) \/ Dismissed(s) \/ ServeConnect(s)
    BY <2>3, BreakKeeps, DismissedKeeps, ServeConnectKeeps
  <2>4. CASE HandleConnection(s)
    BY <2>4, OtherStep DEF HandleConnection, client
  <2> QED
    BY <1>1, <2>1, <2>2, <2>3, <2>4
<1>2. ASSUME NEW m \in Messages,
             HandleMessage(m) \/ HandleAppMention(m) \/ ServeChat(m) \/ Broadcast(m)
      PROVE  LInv'
  BY <1>2, SendToGatewayKeeps, ServeChatKeeps, BroadcastKeeps DEF HandleMessage, HandleAppMention
<1>3. ASSUME NEW c \in Calls, CallTimeout(c) \/ HandleResponse(c) \/ MethodNotFound(c)
      PROVE  LInv'
  BY <1>3, CallTimeoutKeeps, HandleResponseKeeps, MethodNotFoundKeeps
<1>4. CASE Disconnect
  BY <1>4, DisconnectKeeps
<1>5. CASE OtherConnection \/ Time \/ StartGateway \/ SetupHandlers
  <2>1. UNCHANGED <<sock, ws, flag, timer, leaving, call, posted, task, overlapped>>
    BY <1>5 DEF OtherConnection, Time, StartGateway, SetupHandlers, client
  <2> QED
    BY <2>1, OtherStep
<1>6. CASE StopGateway
  BY <1>6, StopGatewayKeeps
<1>7. CASE UNCHANGED vars
  BY <1>7, OtherStep DEF vars, client, service
<1> QED
  BY <1>1, <1>2, <1>3, <1>4, <1>5, <1>6, <1>7 DEF Next

\* Whatever breaks and whenever the adapter leaves or the gateway stops, a client
\* that has not called connect() over an earlier socket or timer has one link, a
\* flag that is true of it and a timer only without it, no call of its waits on a
\* socket that is gone, and no reply is posted twice.
THEOREM OneLinkEach ==
  ASSUME IsFiniteSet(Sockets)
  PROVE  Spec => []OneLink
<1>1. Init => LInv
  BY InitHolds
<1>2. LInv /\ [Next]_vars => LInv'
  BY NextKeeps
<1>3. LInv => OneLink
  BY DEF LInv, LinkTypes, Left, Attached, Alone, OneLink
<1> QED
  BY <1>1, <1>2, <1>3, PTL DEF Spec

-----------------------------------------------------------------------------
(* A client that connects once                                             *)

\* Until connect() is called there is no socket and no timer to call it over.
Once ==
  /\ connects \in 0 .. MaxConnects /\ ~overlapped
  /\ connects = 0 => ~timer /\ \A s \in Sockets : sock[s] = "none"

LEMMA OnceKept ==
  ASSUME MaxConnects <= 1, LinkTypes, Once, [Next]_vars
  PROVE  Once'
<1>1. MaxConnects \in Nat
  BY LinkBounds
<1>2. CASE UNCHANGED <<sock, timer, connects, overlapped>>
  BY <1>2 DEF Once
<1>3. ASSUME NEW s \in Sockets, ConnectToGateway(s)
      PROVE  Once'
  <2>1. connects = 0 /\ connects' = 1 /\ connects' \in 0 .. MaxConnects
    BY <1>1, <1>3 DEF ConnectToGateway, Once
  <2>2. ~overlapped'
    BY <1>3, <2>1 DEF ConnectToGateway, Once
  <2> QED
    BY <2>1, <2>2 DEF Once
\* Whatever else touches a socket or the timer finds one of them there.
<1>4. ASSUME UNCHANGED <<connects, overlapped>>, connects # 0
      PROVE  Once'
  BY <1>4 DEF Once
<1>5. ASSUME NEW s \in Sockets,
             \/ TimerFires(s) \/ Opens(s) \/ CloseEvent(s) \/ Break(s) \/ Dismissed(s)
      PROVE  Once'
  <2>1. UNCHANGED <<connects, overlapped>>
    BY <1>5 DEF TimerFires, Opens, CloseEvent, Break, Dismissed, bounds
  <2>2. timer \/ sock[s] # "none"
    BY <1>5 DEF TimerFires, Fires, Opens, CloseEvent, Break, Live, Dismissed
  <2>3. connects # 0
    BY <2>2 DEF Once
  <2> QED
    BY <1>4, <2>1, <2>3
<1>6. ASSUME NEW s \in Sockets, HandleConnection(s) \/ ServeConnect(s)
      PROVE  UNCHANGED <<sock, timer, connects, overlapped>>
  BY <1>6 DEF HandleConnection, ServeConnect, client, bounds
<1>7. ASSUME NEW m \in Messages,
             HandleMessage(m) \/ HandleAppMention(m) \/ ServeChat(m) \/ Broadcast(m)
      PROVE  UNCHANGED <<sock, timer, connects, overlapped>>
  BY <1>7 DEF HandleMessage, HandleAppMention, SendToGateway, ServeChat, Broadcast, bounds
<1>8. ASSUME NEW c \in Calls, CallTimeout(c) \/ HandleResponse(c) \/ MethodNotFound(c)
      PROVE  UNCHANGED <<sock, timer, connects, overlapped>>
  BY <1>8 DEF CallTimeout, HandleResponse, Rejected, MethodNotFound, bounds
<1>9. CASE Disconnect
  <2>1. UNCHANGED <<connects, overlapped>> /\ connects # 0
    BY <1>1, <1>9 DEF Disconnect, Once, bounds
  <2> QED
    BY <1>4, <2>1
<1>10. ASSUME OtherConnection \/ Time \/ StartGateway \/ SetupHandlers \/ UNCHANGED vars
       PROVE  UNCHANGED <<sock, timer, connects, overlapped>>
  BY <1>10 DEF OtherConnection, Time, StartGateway, SetupHandlers, vars, client, bounds
<1>11. CASE StopGateway
  <2>1. UNCHANGED <<timer, connects, overlapped>>
    BY <1>11 DEF StopGateway
  <2>2. \A s \in Sockets : sock[s] = "none" => sock'[s] = "none"
    BY <1>11 DEF StopGateway, Live
  <2> QED
    BY <2>1, <2>2 DEF Once
<1> QED
  BY <1>2, <1>3, <1>5, <1>6, <1>7, <1>8, <1>9, <1>10, <1>11 DEF Next

\* The exception of OneLink is a second connect(): a client on which it is called
\* once, as the adapters do when they start, never has an earlier socket or timer
\* under a new connection, through all the reconnections that follow.
THEOREM OneLinkForGood ==
  ASSUME IsFiniteSet(Sockets), MaxConnects <= 1
  PROVE  Spec => [](OneLink /\ ~overlapped)
<1>1. Init => LInv /\ Once
  <2>1. 0 \in 0 .. MaxConnects
    BY LinkBounds
  <2>2. Init => Once
    BY <2>1 DEF Init, Once
  <2> QED
    BY <2>2, InitHolds
<1>2. LInv /\ Once /\ [Next]_vars => LInv' /\ Once'
  BY NextKeeps, OnceKept DEF LInv
<1>3. LInv /\ Once => OneLink /\ ~overlapped
  BY DEF LInv, LinkTypes, Left, Attached, Alone, OneLink, Once
<1> QED
  BY <1>1, <1>2, <1>3, PTL DEF Spec

-----------------------------------------------------------------------------
(* The rate limiter                                                        *)
(*                                                                         *)
(* WindowHeld speaks of the history recent; what the code counts are the   *)
(* attempts of the entry that its filter leaves.  The invariant is that    *)
(* these are the same attempts, which the passing of time and the clean-up *)
(* keep because they commute with the filter.                              *)

\* Older attempts come first.
Ordered(s) == \A i, j \in 1 .. Len(s) : i <= j => s[j] <= s[i]
Entry(k, s) == s \in Entries(k) /\ Ordered(s)

\* The first n attempts, and no others, have left the window.
Splits(k, s, n) == n \in 0 .. Len(s) /\ \A i \in 1 .. Len(s) : InWindow(k, s[i]) <=> i > n

LEMMA EntryTypes ==
  ASSUME NEW k \in Keys, NEW s \in Entries(k)
  PROVE  /\ Window[k] \in Nat /\ Limit[k] \in Nat /\ s \in Seq(Nat)
         /\ Len(s) \in Nat /\ DOMAIN s = 1 .. Len(s)
         /\ \A i \in 1 .. Len(s) : s[i] \in 0 .. Window[k]
<1>1. Window[k] \in Nat /\ Limit[k] \in Nat
  BY WindowType
<1>2. Len(s) \in Nat /\ DOMAIN s = 1 .. Len(s) /\ s \in [1 .. Len(s) -> 0 .. Window[k]]
  BY LenProperties DEF Entries
<1>3. \A i \in 1 .. Len(s) : s[i] \in 0 .. Window[k]
  BY <1>2
<1>4. s \in Seq(Nat)
  BY <1>1 DEF Entries
<1> QED
  BY <1>1, <1>2, <1>3, <1>4

LEMMA Numbers ==
  ASSUME NEW n \in Nat
  PROVE  IsFiniteSet(1 .. n) /\ Cardinality(1 .. n) = n
<1>1. 1 \in Int /\ n \in Int /\ (IF 1 > n THEN 0 ELSE n - 1 + 1) = n
  OBVIOUS
<1> QED
  BY <1>1, FS_Interval

\* What has left the window comes first, however many they are.
LEMMA SomeSplits ==
  ASSUME NEW k \in Keys, NEW s, Entry(k, s)
  PROVE  \E n \in 0 .. Len(s) : Splits(k, s, n)
<1>1. /\ Len(s) \in Nat /\ Window[k] \in Nat
      /\ \A i \in 1 .. Len(s) : s[i] \in 0 .. Window[k]
  BY EntryTypes DEF Entry
<1> DEFINE T == {i \in 1 .. Len(s) : ~InWindow(k, s[i])}
           n == Cardinality(T)
<1>2. IsFiniteSet(1 .. Len(s)) /\ Cardinality(1 .. Len(s)) = Len(s)
  BY <1>1, Numbers
<1>3. IsFiniteSet(T) /\ n \in Nat /\ n <= Len(s)
  BY <1>2, FS_Subset, FS_CardinalityType
<1>4. T \subseteq 1 .. n
  <2> SUFFICES ASSUME NEW i \in T
               PROVE  i <= n
    BY <1>1, <1>3
  <2>1. 1 .. i \subseteq T
    <3> SUFFICES ASSUME NEW j \in 1 .. i
                 PROVE  j \in T
      OBVIOUS
    <3>1. j \in 1 .. Len(s) /\ i \in 1 .. Len(s) /\ s[i] <= s[j]
      BY <1>1 DEF Entry, Ordered
    <3> QED
      BY <1>1, <3>1 DEF InWindow
  <2>2. Cardinality(1 .. i) = i
    BY <1>1, Numbers
  <2>3. Cardinality(1 .. i) <= n
    <3> HIDE DEF T
    <3> QED
      BY <1>3, <2>1, FS_Subset
  <2> QED
    BY <2>2, <2>3
<1>5. T = 1 .. n
  <2> HIDE DEF T
  <2>1. IsFiniteSet(1 .. n) /\ Cardinality(1 .. n) = n
    BY <1>3, Numbers
  <2> QED
    BY <1>4, <2>1, FS_Subset
<1>6. Splits(k, s, n)
  <2>1. \A i \in 1 .. Len(s) : i \in T <=> ~(i > n)
    <3> HIDE DEF T
    <3> QED
      BY <1>1, <1>3, <1>5
  <2>2. n \in 0 .. Len(s)
    <3> HIDE DEF n
    <3> QED
      BY <1>1, <1>3
  <2> HIDE DEF n
  <2> QED
    BY <2>1, <2>2 DEF Splits
<1>7. n \in 0 .. Len(s)
  BY <1>6 DEF Splits
<1> HIDE DEF n
<1> QED
  BY <1>6, <1>7

\* r is s without its first n attempts.
Without(k, s, n, r) ==
  /\ r \in Entries(k) /\ Len(r) = Len(s) - n
  /\ \A i \in 1 .. Len(s) - n : r[i] = s[n + i]

LEMMA RecentIs ==
  ASSUME NEW k \in Keys, NEW s \in Entries(k), NEW n, Splits(k, s, n)
  PROVE  Without(k, s, n, Recent(k, s))
<1>1. Len(s) \in Nat /\ \A i \in 1 .. Len(s) : s[i] \in 0 .. Window[k]
  BY EntryTypes
<1>2. n \in 0 .. Len(s)
  BY DEF Splits
<1>3. ASSUME NEW m \in 0 .. Len(s), Splits(k, s, m)
      PROVE  m = n
  <2>1. CASE m < n
    <3>1. n \in 1 .. Len(s) /\ n > m /\ ~(n > n)
      BY <1>1, <1>2, <2>1
    <3> QED
      BY <1>3, <3>1 DEF Splits
  <2>2. CASE n < m
    <3>1. m \in 1 .. Len(s) /\ m > n /\ ~(m > m)
      BY <1>1, <1>2, <2>2
    <3> QED
      BY <1>3, <3>1 DEF Splits
  <2> QED
    BY <1>1, <1>2, <2>1, <2>2
<1>4. Expired(k, s) = n
  <2>1. Expired(k, s) \in 0 .. Len(s) /\ Splits(k, s, Expired(k, s))
    BY <1>2 DEF Expired, Splits
  <2> QED
    BY <1>3, <2>1
<1>5. Recent(k, s) = SubSeq(s, n + 1, Len(s))
  BY <1>4 DEF Recent
<1>6. n + 1 \in Int /\ Len(s) \in Int /\ \A i \in n + 1 .. Len(s) : s[i] \in 0 .. Window[k]
  BY <1>1, <1>2
<1>7. /\ SubSeq(s, n + 1, Len(s)) \in Seq(0 .. Window[k])
      /\ Len(SubSeq(s, n + 1, Len(s))) = IF n + 1 <= Len(s) THEN Len(s) - (n + 1) + 1 ELSE 0
      /\ \A i \in 1 .. Len(s) - (n + 1) + 1 :
           SubSeq(s, n + 1, Len(s))[i] = s[(n + 1) + i - 1]
  BY <1>6, SubSeqProperties
<1>8. /\ Len(s) - (n + 1) + 1 = Len(s) - n /\ (n + 1 > Len(s) => Len(s) - n = 0)
      /\ \A i \in 1 .. Len(s) - n : (n + 1) + i - 1 = n + i
  BY <1>1, <1>2
<1> QED
  BY <1>5, <1>7, <1>8 DEF Entries, Without

\* Two entries with the same ages are the same.
LEMMA SameEntry ==
  ASSUME NEW k \in Keys, NEW s \in Entries(k), NEW t \in Entries(k),
         Len(s) = Len(t), \A i \in 1 .. Len(s) : s[i] = t[i]
  PROVE  s = t
  BY SeqEqual DEF Entries

\* Filtering keeps the order, and a second time changes nothing.
LEMMA RecentKeeps ==
  ASSUME NEW k \in Keys, NEW s, Entry(k, s)
  PROVE  /\ Entry(k, Recent(k, s))
         /\ Recent(k, Recent(k, s)) = Recent(k, s)
         /\ Len(Recent(k, s)) \in Nat /\ Len(Recent(k, s)) <= Len(s)
<1> DEFINE r == Recent(k, s)
<1>1. s \in Entries(k) /\ Len(s) \in Nat
  BY EntryTypes DEF Entry
<1>2. PICK n \in 0 .. Len(s) : Splits(k, s, n)
  BY SomeSplits
<1>3. Without(k, s, n, r)
  BY <1>1, <1>2, RecentIs
<1> HIDE DEF r
<1>4. r \in Entries(k) /\ Len(r) \in Nat /\ Len(r) <= Len(s)
  BY <1>1, <1>2, <1>3 DEF Without
<1>5. \A i \in 1 .. Len(r) : n + i \in 1 .. Len(s) /\ n + i > n /\ r[i] = s[n + i]
  BY <1>1, <1>2, <1>3 DEF Without
<1>6. Ordered(r)
  <2>1. ASSUME NEW i \in 1 .. Len(r), NEW j \in 1 .. Len(r), i <= j
        PROVE  r[j] <= r[i]
    <3>1. n + i \in 1 .. Len(s) /\ n + j \in 1 .. Len(s) /\ n + i <= n + j
      BY <1>1, <1>2, <1>4, <1>5, <2>1
    <3>2. s[n + j] <= s[n + i]
      BY <3>1 DEF Entry, Ordered
    <3> QED
      BY <1>5, <3>2
  <2> QED
    BY <2>1 DEF Ordered
<1>7. Splits(k, r, 0)
  <2>1. \A i \in 1 .. Len(r) : InWindow(k, r[i])
    BY <1>2, <1>5 DEF Splits
  <2>2. 0 \in 0 .. Len(r) /\ \A i \in 1 .. Len(r) : i > 0
    BY <1>4
  <2> QED
    BY <2>1, <2>2 DEF Splits
<1>8. Recent(k, r) = r
  <2>1. Without(k, r, 0, Recent(k, r))
    BY <1>4, <1>7, RecentIs
  <2>2. /\ Recent(k, r) \in Entries(k) /\ Len(Recent(k, r)) = Len(r)
        /\ \A i \in 1 .. Len(r) : Recent(k, r)[i] = r[i]
    BY <1>4, <2>1 DEF Without
  <2> QED
    BY <1>4, <2>2, SameEntry
<1> QED
  BY <1>4, <1>6, <1>8 DEF Entry, r

LEMMA OlderKeeps ==
  ASSUME NEW k \in Keys, NEW s, Entry(k, s)
  PROVE  /\ Entry(k, Older(k, s)) /\ Len(Older(k, s)) = Len(s)
         /\ \A i \in 1 .. Len(s) :
              Older(k, s)[i] = IF InWindow(k, s[i]) THEN s[i] + 1 ELSE s[i]
<1> DEFINE o == Older(k, s)
<1>1. /\ Window[k] \in Nat /\ Len(s) \in Nat
      /\ \A i \in 1 .. Len(s) : s[i] \in 0 .. Window[k]
  BY EntryTypes DEF Entry
<1>2. \A i \in 1 .. Len(s) : o[i] = IF InWindow(k, s[i]) THEN s[i] + 1 ELSE s[i]
  BY DEF Older
<1>3. \A i \in 1 .. Len(s) : o[i] \in 0 .. Window[k]
  BY <1>1, <1>2 DEF InWindow
<1>4. o \in [1 .. Len(s) -> 0 .. Window[k]]
  BY <1>3 DEF Older
<1>5. o \in Seq(0 .. Window[k]) /\ Len(o) = Len(s)
  <2> HIDE DEF o
  <2> QED
    BY <1>1, <1>4
<1> HIDE DEF o
<1>6. ASSUME NEW i \in 1 .. Len(o), NEW j \in 1 .. Len(o), i <= j
      PROVE  o[j] <= o[i]
  <2>1. s[j] <= s[i] /\ s[i] \in 0 .. Window[k] /\ s[j] \in 0 .. Window[k]
    BY <1>1, <1>5, <1>6 DEF Entry, Ordered
  <2>2. /\ o[i] = IF InWindow(k, s[i]) THEN s[i] + 1 ELSE s[i]
        /\ o[j] = IF InWindow(k, s[j]) THEN s[j] + 1 ELSE s[j]
    BY <1>2, <1>5
  <2>3. s[i] \in Nat /\ s[j] \in Nat
    BY <1>1, <2>1
  <2>4. InWindow(k, s[i]) => InWindow(k, s[j])
    BY <1>1, <2>1, <2>3 DEF InWindow
  <2>5. ~InWindow(k, s[i]) => s[i] = Window[k]
    BY <1>1, <2>1 DEF InWindow
  <2>6. InWindow(k, s[j]) => s[j] + 1 <= Window[k]
    BY <1>1, <2>3 DEF InWindow
  <2> HIDE DEF o
  <2> QED
    BY <1>1, <2>1, <2>2, <2>3, <2>4, <2>5, <2>6
<1> QED
  BY <1>2, <1>5, <1>6 DEF Entry, Entries, Ordered, o

\* To forget what has left the window before time passes makes no difference.
LEMMA OlderOfRecent ==
  ASSUME NEW k \in Keys, NEW s, Entry(k, s)
  PROVE  Recent(k, Older(k, Recent(k, s))) = Recent(k, Older(k, s))
<1> DEFINE r == Recent(k, s)
           a == Older(k, s)
           b == Older(k, r)
<1>1. s \in Entries(k) /\ Len(s) \in Nat /\ Window[k] \in Nat
  BY EntryTypes DEF Entry
<1>2. PICK n \in 0 .. Len(s) : Splits(k, s, n)
  BY SomeSplits
<1>3. /\ Entry(k, r) /\ Len(r) = Len(s) - n
      /\ \A i \in 1 .. Len(s) - n : r[i] = s[n + i]
  <2>1. Without(k, s, n, r) /\ Entry(k, r)
    BY <1>1, <1>2, RecentIs, RecentKeeps
  <2> QED
    BY <2>1 DEF Without
<1>4. /\ Entry(k, a) /\ Len(a) = Len(s)
      /\ \A i \in 1 .. Len(s) : a[i] = IF InWindow(k, s[i]) THEN s[i] + 1 ELSE s[i]
  BY OlderKeeps
<1> HIDE DEF r
<1>5. /\ Entry(k, b) /\ Len(b) = Len(r)
      /\ \A i \in 1 .. Len(r) : b[i] = IF InWindow(k, r[i]) THEN r[i] + 1 ELSE r[i]
  BY <1>3, OlderKeeps
<1> HIDE DEF a, b
<1>6. PICK m \in 0 .. Len(a) : Splits(k, a, m)
  BY <1>4, SomeSplits
<1>7. n <= m
  <2> SUFFICES ASSUME m < n
               PROVE  FALSE
    BY <1>1, <1>2, <1>4, <1>6
  <2>1. n \in 1 .. Len(s) /\ n \in 1 .. Len(a) /\ n > m /\ ~(n > n)
    BY <1>1, <1>2, <1>4, <1>6
  <2>2. ~InWindow(k, s[n]) /\ InWindow(k, a[n])
    BY <1>2, <1>6, <2>1 DEF Splits
  <2> QED
    BY <1>4, <2>1, <2>2
<1>8. ASSUME NEW i \in 1 .. Len(b)
      PROVE  n + i \in 1 .. Len(s) /\ b[i] = a[n + i]
  <2>1. i \in 1 .. Len(r) /\ i \in 1 .. Len(s) - n /\ n + i \in 1 .. Len(s)
    BY <1>1, <1>2, <1>3, <1>5
  <2>2. r[i] = s[n + i]
    BY <1>3, <2>1
  <2>3. b[i] = IF InWindow(k, s[n + i]) THEN s[n + i] + 1 ELSE s[n + i]
    BY <1>5, <2>1, <2>2
  <2> QED
    BY <1>4, <2>1, <2>3
<1>9. Splits(k, b, m - n)
  <2>1. m - n \in 0 .. Len(b)
    BY <1>1, <1>2, <1>3, <1>4, <1>5, <1>6, <1>7
  <2>2. ASSUME NEW i \in 1 .. Len(b)
        PROVE  InWindow(k, b[i]) <=> i > m - n
    <3>1. n + i \in 1 .. Len(a) /\ b[i] = a[n + i]
      BY <1>4, <1>8
    <3>2. InWindow(k, a[n + i]) <=> n + i > m
      BY <1>6, <3>1 DEF Splits
    <3> QED
      BY <1>1, <1>2, <1>4, <1>6, <3>1, <3>2
  <2> QED
    BY <2>1, <2>2 DEF Splits
<1>10. Without(k, a, m, Recent(k, a)) /\ Without(k, b, m - n, Recent(k, b))
  BY <1>4, <1>5, <1>6, <1>9, RecentIs DEF Entry
<1>11. Len(b) = Len(a) - n /\ Len(b) - (m - n) = Len(a) - m
  BY <1>1, <1>2, <1>3, <1>4, <1>5, <1>6
<1>12. ASSUME NEW i \in 1 .. Len(a) - m
       PROVE  Recent(k, b)[i] = Recent(k, a)[i]
  <2>1. (m - n) + i \in 1 .. Len(b) /\ n + ((m - n) + i) = m + i
    BY <1>1, <1>2, <1>4, <1>6, <1>7, <1>11
  <2>2. b[(m - n) + i] = a[m + i]
    BY <1>8, <2>1
  <2> QED
    BY <1>10, <1>11, <2>2 DEF Without
<1>13. /\ Recent(k, a) \in Entries(k) /\ Recent(k, b) \in Entries(k)
       /\ Len(Recent(k, a)) = Len(a) - m /\ Len(Recent(k, b)) = Len(a) - m
  BY <1>10, <1>11 DEF Without
<1> QED
  BY <1>12, <1>13, SameEntry DEF a, b, r

LEMMA AppendKeeps ==
  ASSUME NEW k \in Keys, NEW s, Entry(k, s)
  PROVE  Entry(k, Append(s, 0)) /\ Len(Append(s, 0)) = Len(s) + 1
<1>1. /\ Window[k] \in Nat /\ Len(s) \in Nat
      /\ \A i \in 1 .. Len(s) : s[i] \in 0 .. Window[k]
  BY EntryTypes DEF Entry
<1>2. 0 \in 0 .. Window[k]
  BY <1>1
<1>3. /\ Append(s, 0) \in Entries(k) /\ Len(Append(s, 0)) = Len(s) + 1
      /\ \A i \in 1 .. Len(s) : Append(s, 0)[i] = s[i]
      /\ Append(s, 0)[Len(s) + 1] = 0
  BY <1>2, AppendProperties DEF Entry, Entries
<1>4. ASSUME NEW i \in 1 .. Len(s) + 1, NEW j \in 1 .. Len(s) + 1, i <= j
      PROVE  Append(s, 0)[j] <= Append(s, 0)[i]
  <2>1. CASE j = Len(s) + 1
    BY <1>1, <1>3, <2>1
  <2>2. CASE j # Len(s) + 1
    <3>1. i \in 1 .. Len(s) /\ j \in 1 .. Len(s)
      BY <1>1, <1>4, <2>2
    <3> QED
      BY <1>3, <1>4, <3>1 DEF Entry, Ordered
  <2> QED
    BY <2>1, <2>2
<1> QED
  BY <1>3, <1>4 DEF Entry, Ordered

\* For key k: the entry is in order, its attempts in the window are just the
\* checks that passed, and they are within the limit.
Held(k, entry, passed) ==
  /\ Entry(k, entry)
  /\ passed = Recent(k, entry)
  /\ Len(passed) <= Limit[k]

WInv ==
  /\ DOMAIN limiter = Keys /\ DOMAIN recent = Keys
  /\ \A k \in Keys : Held(k, limiter[k], recent[k])

LEMMA NothingHeld == NoAttempts \in [Keys -> {<<>>}] /\ \A k \in Keys : Held(k, <<>>, <<>>)
<1>1. NoAttempts \in [Keys -> {<<>>}]
  BY DEF NoAttempts
<1>2. ASSUME NEW k \in Keys
      PROVE  Held(k, <<>>, <<>>)
  <2>1. <<>> \in Entries(k) /\ Len(<<>>) = 0 /\ Limit[k] \in Nat
    BY WindowType, EmptySeq DEF Entries
  <2>2. Ordered(<<>>) /\ Splits(k, <<>>, 0)
    BY <2>1 DEF Ordered, Splits
  <2>3. Without(k, <<>>, 0, Recent(k, <<>>))
    BY <2>1, <2>2, RecentIs
  <2>4. Recent(k, <<>>) = <<>>
    BY <2>1, <2>3, SameEntry DEF Without
  <2> QED
    BY <2>1, <2>2, <2>4 DEF Held, Entry
<1> QED
  BY <1>1, <1>2

LEMMA CheckHolds ==
  ASSUME WInv, NEW key \in Keys, CheckLimit(key)
  PROVE  WInv'
<1>1. CASE Passes(key)
  <2> DEFINE s == limiter[key]
             t == Append(Recent(key, s), 0)
  <2>1. /\ Entry(key, s) /\ recent[key] = Recent(key, s)
        /\ DOMAIN limiter = Keys /\ DOMAIN recent = Keys
    BY DEF WInv, Held
  <2>2. Entry(key, Recent(key, s)) /\ Len(Recent(key, s)) \in Nat
    BY <2>1, RecentKeeps
  <2>3. Entry(key, t) /\ Len(t) = Len(Recent(key, s)) + 1
    BY <2>2, AppendKeeps
  <2>4. limiter' = [limiter EXCEPT ![key] = t] /\ recent' = [recent EXCEPT ![key] = Recent(key, t)]
    BY <1>1, <2>1 DEF CheckLimit, Recorded
  <2>5. Len(Recent(key, s)) < Limit[key] /\ Limit[key] \in Nat
    BY <1>1, WindowType DEF Passes
  <2> HIDE DEF t
  <2>6. Len(Recent(key, t)) \in Nat /\ Len(Recent(key, t)) <= Len(t)
    BY <2>3, RecentKeeps
  <2>7. Len(Recent(key, t)) <= Limit[key]
    BY <2>2, <2>3, <2>5, <2>6
  <2>8. Held(key, limiter'[key], recent'[key])
    BY <2>1, <2>3, <2>4, <2>7 DEF Held
  <2>9. ASSUME NEW k \in Keys, k # key
        PROVE  Held(k, limiter'[k], recent'[k])
    <3>1. limiter'[k] = limiter[k] /\ recent'[k] = recent[k]
      BY <2>1, <2>4, <2>9
    <3> QED
      BY <3>1 DEF WInv
  <2> QED
    BY <2>1, <2>4, <2>8, <2>9 DEF WInv
<1>2. CASE ~Passes(key)
  BY <1>2 DEF CheckLimit, Recorded, WInv
<1> QED
  BY <1>1, <1>2

LEMMA TickHolds ==
  ASSUME WInv, Tick
  PROVE  WInv'
<1>1. ASSUME NEW k \in Keys
      PROVE  Held(k, limiter'[k], recent'[k])
  <2> DEFINE s == limiter[k]
             o == Older(k, recent[k])
  <2>1. Entry(k, s) /\ recent[k] = Recent(k, s) /\ Len(recent[k]) <= Limit[k]
    BY DEF WInv, Held
  <2>2. limiter'[k] = Older(k, s) /\ recent'[k] = Recent(k, o)
    BY DEF Tick
  <2>3. Entry(k, Older(k, s)) /\ Recent(k, o) = Recent(k, Older(k, s))
    BY <2>1, OlderKeeps, OlderOfRecent
  <2>4. Entry(k, recent[k]) /\ Len(recent[k]) \in Nat
    BY <2>1, RecentKeeps
  <2>5. Entry(k, o) /\ Len(o) = Len(recent[k])
    BY <2>4, OlderKeeps
  <2> HIDE DEF o
  <2>6. Len(Recent(k, o)) \in Nat /\ Len(Recent(k, o)) <= Len(o)
    BY <2>5, RecentKeeps
  <2>7. Limit[k] \in Nat
    BY WindowType
  <2>8. Len(Recent(k, o)) <= Limit[k]
    BY <2>1, <2>4, <2>5, <2>6, <2>7
  <2> QED
    BY <2>2, <2>3, <2>8 DEF Held
<1>2. DOMAIN limiter' = Keys /\ DOMAIN recent' = Keys
  BY DEF Tick
<1> QED
  BY <1>1, <1>2 DEF WInv

LEMMA CleanupHolds ==
  ASSUME WInv, Cleanup
  PROVE  WInv'
<1>1. ASSUME NEW k \in Keys
      PROVE  Held(k, limiter'[k], recent'[k])
  <2>1. Entry(k, limiter[k]) /\ recent[k] = Recent(k, limiter[k]) /\ Len(recent[k]) <= Limit[k]
    BY DEF WInv, Held
  <2>2. limiter'[k] = Recent(k, limiter[k]) /\ recent' = recent
    BY DEF Cleanup, CleanedUp
  <2>3. /\ Entry(k, Recent(k, limiter[k]))
        /\ Recent(k, Recent(k, limiter[k])) = Recent(k, limiter[k])
    BY <2>1, RecentKeeps
  <2> QED
    BY <2>1, <2>2, <2>3 DEF Held
<1>2. DOMAIN limiter' = Keys /\ recent' = recent
  BY DEF Cleanup
<1> QED
  BY <1>1, <1>2 DEF WInv

LEMMA InitHeld == LimiterInit => WInv
  BY NothingHeld DEF LimiterInit, WInv

LEMMA NextHolds ==
  ASSUME WInv, [Next]_vars
  PROVE  WInv'
<1>1. CASE UNCHANGED limiterVars
  BY <1>1 DEF limiterVars, WInv
<1>2. CASE \E k \in Keys : CheckLimit(k)
  BY <1>2, CheckHolds
<1>3. CASE Time
  BY <1>3, TickHolds, CleanupHolds DEF Time
<1>4. CASE StartGateway
  BY <1>4, NothingHeld DEF StartGateway, LimiterFresh, WInv
<1>5. ASSUME NEW s \in Sockets,
             \/ ConnectToGateway(s) \/ TimerFires(s) \/ Opens(s) \/ CloseEvent(s)
             \/ Break(s) \/ Dismissed(s)
      PROVE  UNCHANGED limiterVars
  BY <1>5 DEF ConnectToGateway, TimerFires, Opens, CloseEvent, Break, Dismissed, service
<1>6. ASSUME NEW s \in Sockets, HandleConnection(s) \/ ServeConnect(s)
      PROVE  UNCHANGED limiterVars \/ \E k \in Keys : CheckLimit(k)
  BY <1>6, KeysAreUsed DEF HandleConnection, ServeConnect, ValidateToken
<1>7. ASSUME NEW m \in Messages,
             HandleMessage(m) \/ HandleAppMention(m) \/ ServeChat(m) \/ Broadcast(m)
      PROVE  UNCHANGED limiterVars
  BY <1>7 DEF HandleMessage, HandleAppMention, SendToGateway, ServeChat, Broadcast, service
<1>8. ASSUME NEW c \in Calls, CallTimeout(c) \/ HandleResponse(c) \/ MethodNotFound(c)
      PROVE  UNCHANGED limiterVars
  BY <1>8 DEF CallTimeout, HandleResponse, MethodNotFound, service
<1>9. ASSUME Disconnect \/ StopGateway \/ SetupHandlers \/ UNCHANGED vars
      PROVE  UNCHANGED limiterVars
  BY <1>9 DEF Disconnect, StopGateway, SetupHandlers, vars, service
<1>10. CASE OtherConnection
  BY <1>10, <1>2, KeysAreUsed DEF OtherConnection
<1> QED
  BY <1>1, <1>2, <1>3, <1>4, <1>5, <1>6, <1>7, <1>8, <1>9, <1>10 DEF Next

\* Whatever connects, sends tokens, waits and is cleaned up: never do more attempts
\* of one address or one token pass one rate limiter within a window than its
\* limit.  A rate limiter is as old as the process of its gateway; nothing is said
\* of a window in which the gateway is started again, and there is nothing to say:
\* the new limiter knows of no earlier attempt.
THEOREM NoWindowExceeds == Spec => []WindowHeld
<1>1. Init => WInv
  BY InitHeld DEF Init
<1>2. WInv /\ [Next]_vars => WInv'
  BY NextHolds
<1>3. WInv => WindowHeld
  BY DEF WInv, Held, WindowHeld
<1> QED
  BY <1>1, <1>2, <1>3, PTL DEF Spec
================================================================================
