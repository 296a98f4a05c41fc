----------------------------- MODULE ApprovalStore -----------------------------
(***************************************************************************)
(* ApprovalStore (a map kept in a JSON file), ApprovalFlowManager (request,*)
(* answer, expiry) and the surfaces that show a request and its outcome.   *)
(*                                                                         *)
(* Every operation reads the file, replaces the shared map by what it read,*)
(* changes the map and writes it back; it waits at each file access, and   *)
(* other operations run meanwhile.  writeFile empties the file first.      *)
(*                                                                         *)
(* Definitions marked (fault) are plausible slips, as in TaskOrchestrator. *)
(***************************************************************************)
EXTENDS Naturals, FiniteSets

CONSTANTS
  Requests,
  Operations,  \* operations that may be under way at once
  SentTo,      \* surfaces with an adapter and a channel when a request is sent
  MaxBegun,    \* bound: operations ever begun
  MaxFaults    \* bound: restarts of the process and saves that fail

ASSUME BoundsType == {MaxBegun, MaxFaults} \subseteq Nat

Surfaces == {"discord", "slack"}

ASSUME SentToType == SentTo \in [Requests -> SUBSET Surfaces]

VARIABLES
  mem,        \* ApprovalStore.requests: the status of each request held
  loaded,     \* ApprovalStore.loaded
  file,       \* the file: what a reader of it gets, or Torn
  op,         \* the operations under way
  due,        \* requests whose expiresAt has passed
  message,    \* per surface: the message of a request and its reference
  said,       \* approval.resolved events so far: the last one and how many
  claim,      \* the answer that a Discord message calls recorded, and whether it was taken
  disturbed,  \* (history) requests a stale or failed write or a stale read has overwritten
  begun, faults

vars == <<mem, loaded, file, op, due, message, said, claim, disturbed, begun, faults>>

Verdicts == {"approved", "rejected"}
Outcomes == Verdicts \union {"expired"}
Status   == Outcomes \union {"absent", "pending"}
Contents == [Requests -> Status]
Empty    == [r \in Requests |-> "absent"]
Torn     == [r \in Requests |-> "torn"]  \* emptied or garbled: JSON.parse fails

Idle == [kind |-> "none", req |-> {}, verdict |-> "none", button |-> "none",
         stage |-> "idle", data |-> Empty, mixed |-> FALSE, on |-> {}]

\* button: the verdict on the Discord button that a response came from;
\* a "click" has the result of its response, which was taken or refused.
OpRecord == [kind : {"none", "request", "respond", "expire", "click"},
             req : SUBSET Requests, verdict : Verdicts \union {"none", "expired"},
             button : Verdicts \union {"none"},
             stage : {"idle", "read", "changed", "writing", "updating", "taken", "refused"},
             data : Contents, mixed : BOOLEAN, on : SUBSET Requests]

\* post: "seen" is shown before its reference is stored, "live" with it, "lost" without;
\* edits: the outcomes whose edit of the message is under way
MessageRecord == [post : {"none", "sending", "seen", "live", "lost", "done"},
                  edits : SUBSET Outcomes, shown : Outcomes \union {"none"}]

ClaimRecord == [says : Verdicts \union {"none"}, taken : BOOLEAN]

Unclaimed == [says |-> "none", taken |-> FALSE]

Unsent == [post |-> "none", edits |-> {}, shown |-> "none"]

TypeOK ==
  /\ mem \in Contents
  /\ loaded \in BOOLEAN
  /\ file \in Contents \union {Torn}
  /\ op \in [Operations -> OpRecord]
  /\ due \subseteq Requests
  /\ message \in [Surfaces -> [Requests -> MessageRecord]]
  /\ said \in [Requests -> [last : Verdicts \union {"none"}, times : 0 .. 2]]
  /\ claim \in [Requests -> ClaimRecord]
  /\ disturbed \subseteq Requests
  /\ begun \in 0 .. MaxBegun
  /\ faults \in 0 .. MaxFaults

Init ==
  /\ mem = Empty
  /\ loaded = FALSE
  /\ file = Empty  \* also stands for a missing file
  /\ op = [o \in Operations |-> Idle]
  /\ due = {}
  /\ message = [s \in Surfaces |-> [r \in Requests |-> Unsent]]
  /\ said = [r \in Requests |-> [last |-> "none", times |-> 0]]
  /\ claim = [r \in Requests |-> Unclaimed]
  /\ disturbed = {}
  /\ begun = 0
  /\ faults = 0

-----------------------------------------------------------------------------
(* The store                                                               *)

Writers == {o \in Operations : op[o].stage = "writing"}

\* what readFile and JSON.parse give; any failure gives an empty map
Parsed == IF file = Torn THEN Empty ELSE file

\* The operation starts by reading the file.
Begin(o, kind, S, verdict, button) ==
  /\ op[o].stage = "idle" /\ begun < MaxBegun
  /\ begun' = begun + 1
  /\ op' = [op EXCEPT ![o] = [kind |-> kind, req |-> S, verdict |-> verdict,
                              button |-> button, stage |-> "read", data |-> Parsed,
                              mixed |-> FALSE, on |-> {}]]
  /\ UNCHANGED <<mem, loaded, file, due, message, said, claim, disturbed, faults>>

\* load(): the map becomes what was read, then the change is made to it.
Load(o, change) ==
  /\ loaded' = TRUE
  /\ mem' = [r \in Requests |-> IF r \in DOMAIN change THEN change[r] ELSE op[o].data[r]]
  /\ disturbed' = disturbed \union
       (IF loaded THEN {r \in Requests : mem[r] # op[o].data[r]} ELSE {})

\* save(), up to the truncation by writeFile: the map as it is by then
Save(o) ==
  /\ op[o].stage = "changed"
  /\ op' = [p \in Operations |->
              IF p = o THEN [op[o] EXCEPT !.stage = "writing", !.data = mem,
                                          !.mixed = Writers # {}]
              ELSE IF p \in Writers THEN [op[p] EXCEPT !.mixed = TRUE] ELSE op[p]]
  /\ file' = Torn
  /\ UNCHANGED <<mem, loaded, due, message, said, claim, disturbed, begun, faults>>

\* Writes that overlap may leave the tail of the longer one behind.
Written(o) ==
  \/ /\ file' = op[o].data
     /\ disturbed' = disturbed \union {r \in Requests : op[o].data[r] # mem[r]}
  \/ /\ op[o].mixed
     /\ file' = Torn
     /\ disturbed' = Requests

\* What the file holds for r is in S, or is about to be written so.
OnFile(r, S) ==
  IF Writers = {} THEN file # Torn /\ file[r] \in S
  ELSE \A o \in Writers : op[o].data[r] \in S

\* save() rejects: the file could not be opened, or it stays as far as it was written.
\* The map keeps the change, the caller gets the error and tells nobody.
SaveFails(o) ==
  /\ faults < MaxFaults
  /\ faults' = faults + 1
  /\ \/ /\ op[o].stage = "changed"
        /\ UNCHANGED <<file, disturbed>>
     \/ /\ op[o].stage = "writing"
        /\ file' = Torn
        /\ disturbed' = Requests
  /\ op' = [op EXCEPT ![o] = Idle]
  /\ UNCHANGED <<mem, loaded, due, message, said, claim, begun>>

-----------------------------------------------------------------------------
(* ApprovalFlowManager                                                     *)

Known(r) == mem[r] # "absent" \/ \E s \in Surfaces : message[s][r].post # "none"

\* Ids are fresh: each request is made once.
Fresh(r) ==
  /\ ~Known(r) /\ Parsed[r] = "absent" /\ r \notin due \union disturbed
  /\ said[r].times = 0
  /\ \A o \in Operations : r \notin op[o].req

RequestApproval(o, r) == Fresh(r) /\ Begin(o, "request", {r}, "none", "none")

AddRequest(o, r) ==
  /\ op[o].stage = "read" /\ op[o].kind = "request" /\ op[o].req = {r}
  /\ Load(o, [x \in {r} |-> "pending"])
  /\ op' = [op EXCEPT ![o].stage = "changed"]
  /\ UNCHANGED <<file, due, message, said, claim, begun, faults>>

\* approval.respond, from any client of the gateway
Respond(o, r, v) == Known(r) /\ Begin(o, "respond", {r}, v, "none")

StartExpiry(o) == Begin(o, "expire", {}, "none", "none")

\* handleResponse returns: a Discord button gets the result, a refusal as well as an answer
\* that was taken; anybody else has nothing more to do with the message.
Returned(k, result) ==
  IF k.button = "none" THEN Idle
  ELSE [Idle EXCEPT !.kind = "click", !.req = k.req, !.button = k.button, !.stage = result]

\* (fault) the first answer is not looked for
AcceptAgain(o, r) == r \notin due

\* Not found, already resolved or expired?
Accepts(o, r) == op[o].data[r] = "pending" /\ r \notin due

\* (fault) the map is changed and the surfaces are told, but nothing is saved
AnswerUnsaved(o, r) ==
  /\ op[o].stage = "read" /\ op[o].kind = "respond" /\ op[o].req = {r}
  /\ Accepts(o, r)
  /\ Load(o, [x \in {r} |-> op[o].verdict])
  /\ op' = [op EXCEPT ![o].stage = "updating", ![o].on = {r}]
  /\ UNCHANGED <<file, due, message, said, claim, begun, faults>>

\* The request that was read gets its status.
UpdateStatus(o, r, status) ==
  /\ Load(o, [x \in {r} |-> status])
  /\ op' = [op EXCEPT ![o].stage = "changed", ![o].verdict = status]

HandleResponse(o, r) ==
  /\ op[o].stage = "read" /\ op[o].kind = "respond" /\ op[o].req = {r}
  /\ \/ Accepts(o, r) /\ UpdateStatus(o, r, op[o].verdict)
     \/ op[o].data[r] = "pending" /\ r \in due /\ UpdateStatus(o, r, "expired")
     \/ /\ ~Accepts(o, r) /\ op[o].data[r] # "pending"
        /\ Load(o, << >>)
        /\ op' = [op EXCEPT ![o] = Returned(@, "refused")]
  /\ UNCHANGED <<file, due, message, said, claim, begun, faults>>

\* (fault) the status text of an update is the status
OutcomeAsIs(status) == status

\* (fault) what is not rejected is approved
OutcomeOrApproved(status) == IF status = "rejected" THEN status ELSE "approved"

\* The status text of an update: what is neither approved nor rejected is expired.
Outcome(status) == IF status \in Verdicts THEN status ELSE "expired"

\* sendUpdate to every surface: only a message with a stored reference is edited
SendUpdate(r, status) ==
  message' = [s \in Surfaces |->
    IF message[s][r].post = "live"
    THEN [message[s] EXCEPT ![r].edits = @ \union {Outcome(status)}] ELSE message[s]]

\* sendRequest to every surface; one that is not configured does nothing
SendRequest(r) ==
  message' = [s \in Surfaces |-> IF s \in SentTo[r]
                THEN [message[s] EXCEPT ![r].post = "sending"] ELSE message[s]]

Expired(o) == {r \in due : op[o].data[r] = "pending"}

ExpirePending(o) ==
  /\ op[o].stage = "read" /\ op[o].kind = "expire"
  /\ Load(o, [r \in Expired(o) |-> "expired"])
  /\ op' = [op EXCEPT ![o] = IF Expired(o) = {} THEN Idle
                             ELSE [@ EXCEPT !.stage = "updating", !.req = Expired(o)]]
  /\ UNCHANGED <<file, due, message, said, claim, begun, faults>>

EditsDone(o) == \A s \in Surfaces, r \in op[o].on : message[s][r].edits = {}

\* One expired request after the other is looked up again and shown ...
ShowExpired(o, r) ==
  /\ op[o].stage = "updating" /\ op[o].kind = "expire" /\ r \in op[o].req
  /\ EditsDone(o)
  /\ op' = [op EXCEPT ![o].req = @ \ {r}, ![o].on = {r}]
  /\ IF mem[r] = "absent" THEN UNCHANGED message ELSE SendUpdate(r, mem[r])
  /\ UNCHANGED <<mem, loaded, file, due, said, claim, disturbed, begun, faults>>

\* ... and only then the change is saved.
SaveExpired(o) ==
  /\ op[o].stage = "updating" /\ op[o].kind = "expire" /\ op[o].req = {}
  /\ EditsDone(o)
  /\ op' = [op EXCEPT ![o].stage = "changed"]
  /\ UNCHANGED <<mem, loaded, file, due, message, said, claim, disturbed, begun, faults>>

\* The write has ended: a request is sent out, an answer is shown.
EndWrite(o) ==
  /\ op[o].stage = "writing"
  /\ Written(o)
  /\ \/ \E r \in op[o].req : /\ op[o].kind = "request"
                             /\ SendRequest(r)
                             /\ op' = [op EXCEPT ![o] = Idle]
     \/ \E r \in op[o].req : /\ op[o].verdict \in Verdicts
                             /\ SendUpdate(r, op[o].verdict)
                             /\ op' = [op EXCEPT ![o].stage = "updating", ![o].on = {r}]
     \/ /\ op[o].kind # "request" /\ op[o].verdict \notin Verdicts
        /\ op' = [op EXCEPT ![o] = Returned(@, "refused")]
        /\ UNCHANGED message
  /\ UNCHANGED <<mem, loaded, due, said, claim, begun, faults>>

\* handleResponse emits approval.resolved when all updates have settled.
Announce(o, r) ==
  /\ op[o].stage = "updating" /\ op[o].kind = "respond" /\ op[o].on = {r}
  /\ EditsDone(o)
  /\ said' = [said EXCEPT ![r] = [last |-> op[o].verdict,
                                  times |-> IF @.times = 0 THEN 1 ELSE 2]]
  /\ op' = [op EXCEPT ![o] = Returned(@, "taken")]
  /\ UNCHANGED <<mem, loaded, file, due, message, claim, disturbed, begun, faults>>

-----------------------------------------------------------------------------
(* Surfaces: Discord embeds and Slack blocks, time, crashes               *)

Turn(s, r, to) ==
  /\ message' = [message EXCEPT ![s][r] = to]
  /\ UNCHANGED <<mem, loaded, file, op, due, said, claim, disturbed, begun, faults>>

\* The message is on the surface, or could not be sent.
Post(s, r) ==
  /\ message[s][r].post = "sending"
  /\ \E p \in {"seen", "none"} : Turn(s, r, [message[s][r] EXCEPT !.post = p])

SendEmbed(r)  == Post("discord", r)
SendBlocks(r) == Post("slack", r)

\* The send call returns and messageStore gets the reference.
Refer(s, r) ==
  /\ message[s][r].post = "seen"
  /\ Turn(s, r, [message[s][r] EXCEPT !.post = "live"])

StoreMessageId(r) == Refer("discord", r)
StoreMessageTs(r) == Refer("slack", r)

\* An edit succeeds and the reference is dropped, or it fails.
Edit(s, r, outcome) ==
  /\ outcome \in message[s][r].edits
  /\ \/ Turn(s, r, [message[s][r] EXCEPT !.edits = @ \ {outcome}, !.shown = outcome,
                                         !.post = "done"])
     \/ Turn(s, r, [message[s][r] EXCEPT !.edits = @ \ {outcome}])

EditMessage(r, outcome)   == Edit("discord", r, outcome)
UpdateMessage(r, outcome) == Edit("slack", r, outcome)

Shows(s, r) == message[s][r].post \in {"seen", "live", "lost"}

\* a button that is on a surface, possibly clicked before the reference is stored;
\* once a Discord message says that an answer has been recorded it has none.
HandleInteraction(o, r, v) ==
  /\ Shows("discord", r) /\ claim[r].says = "none"
  /\ Known(r) /\ Begin(o, "respond", {r}, v, v)

HandleButtonInteraction(o, r, v) == Shows("slack", r) /\ Respond(o, r, v)

Clicked(o) == op[o].kind = "click"

\* interaction.update: whatever the result, the message says that the answer of the
\* button has been recorded.  The embed stays as it is.
UpdateInteraction(o, r) ==
  /\ Clicked(o) /\ op[o].req = {r}
  /\ claim' = [claim EXCEPT ![r] = [says |-> op[o].button, taken |-> op[o].stage = "taken"]]
  /\ op' = [op EXCEPT ![o] = Idle]
  /\ UNCHANGED <<mem, loaded, file, due, message, said, disturbed, begun, faults>>

\* The edit, or before it the call of the gateway, fails: the user alone is told.
InteractionFails(o) ==
  /\ Clicked(o)
  /\ op' = [op EXCEPT ![o] = Idle]
  /\ UNCHANGED <<mem, loaded, file, due, message, said, claim, disturbed, begun, faults>>

TimeOut(r) ==
  /\ r \notin due /\ mem[r] = "pending"
  /\ due' = due \union {r}
  /\ UNCHANGED <<mem, loaded, file, op, message, said, claim, disturbed, begun, faults>>

\* A write under way leaves the file empty; references are kept in memory only.
Crash ==
  /\ faults < MaxFaults
  /\ faults' = faults + 1
  /\ mem' = Empty
  /\ loaded' = FALSE
  /\ op' = [o \in Operations |-> Idle]
  /\ disturbed' = IF file = Torn THEN Requests ELSE disturbed
  /\ message' = [s \in Surfaces |-> [r \in Requests |->
                   [message[s][r] EXCEPT !.post = IF @ \in {"none", "done"} THEN @ ELSE "lost",
                                         !.edits = {}]]]
  /\ UNCHANGED <<file, due, said, claim, begun>>

StoreNext(o) ==
  \/ StartExpiry(o) \/ ExpirePending(o) \/ SaveExpired(o) \/ Save(o) \/ EndWrite(o)
  \/ SaveFails(o) \/ InteractionFails(o)
  \/ \E r \in Requests : \/ RequestApproval(o, r) \/ AddRequest(o, r)
                         \/ HandleResponse(o, r) \/ ShowExpired(o, r) \/ Announce(o, r)
                         \/ UpdateInteraction(o, r)
                         \/ \E v \in Verdicts : \/ Respond(o, r, v)
                                                \/ HandleInteraction(o, r, v)
                                                \/ HandleButtonInteraction(o, r, v)

SurfaceNext(r) ==
  \/ SendEmbed(r) \/ SendBlocks(r) \/ StoreMessageId(r) \/ StoreMessageTs(r)
  \/ \E outcome \in Outcomes : EditMessage(r, outcome) \/ UpdateMessage(r, outcome)

Next ==
  \/ \E o \in Operations : StoreNext(o)
  \/ \E r \in Requests : SurfaceNext(r) \/ TimeOut(r)
  \/ Crash

Spec == Init /\ [][Next]_vars

-----------------------------------------------------------------------------
(* Properties                                                              *)

\* No stale read or write has overwritten the state of r, and none is about to.
Undisturbed == {r \in Requests \ disturbed : \A o \in Writers : op[o].data[r] = mem[r]}

\* However many surfaces answer at once, and across restarts, approval.resolved
\* is emitted once for a request, unless a stale read or write of the file by
\* another operation has brought its pending state back.
OneVerdict == \A r \in Undisturbed : said[r].times < 2

\* What approval.resolved has announced survives a crash: the file already has
\* the announced answer when the listeners act on it.
AnnouncedIsOnFile == \A r \in Undisturbed : said[r].times > 0 => OnFile(r, {said[r].last})

\* What sendUpdate makes of a message is true: it shows Approved or Rejected only for
\* what the file holds, and Expired only for a request whose time is over and which
\* nobody answered.  A Discord message that calls an answer recorded is right if the
\* answer was taken; discord.ts:219 calls a refused one recorded as well.
ShownHolds ==
  \A r \in Undisturbed :
    /\ \A s \in Surfaces :
         /\ message[s][r].shown \in Verdicts => OnFile(r, {message[s][r].shown})
         /\ message[s][r].shown = "expired" => r \in due /\ OnFile(r, {"pending", "expired"})
    /\ claim[r].taken => OnFile(r, {claim[r].says})
=============================================================================
