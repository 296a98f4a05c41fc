-------------------------- MODULE ApprovalStoreProofs --------------------------
(***************************************************************************)
(* Proofs about the approval store and the surfaces, for any requests,     *)
(* operations and bounds: what was answered is answered once, on file      *)
(* before it is announced, and shown as it is on file.                     *)
(*                                                                         *)
(* None of the three is inductive.  The argument follows one request that  *)
(* no stale read or write has overwritten: what any operation has read of  *)
(* it is an earlier status of what the map and the file hold, so a status  *)
(* once decided is not decided again; an operation that has decided it, or *)
(* has told someone of it, finds it so in the map and, once the file is    *)
(* whole, in the file.                                                     *)
(***************************************************************************)
EXTENDS ApprovalStore, TLAPS

\* a is what b has been, or still is, when nothing is overwritten.
Upto(a, b) == a = b \/ a = "absent" \/ (a = "pending" /\ b # "absent")

\* An operation that is about to enter r, one that has given it a verdict, and
\* one that has expired it and is about to show so
Asking(o, r)    == op[o].kind = "request" /\ op[o].stage = "read" /\ r \in op[o].req
Answering(o, r) == /\ op[o].kind = "respond" /\ op[o].stage \in {"changed", "writing", "updating"}
                   /\ op[o].verdict \in Verdicts /\ r \in op[o].req
Expiring(o, r)  == op[o].kind = "expire" /\ op[o].stage = "updating" /\ r \in op[o].req

\* A click whose answer was taken, and which is about to say so
Clicking(o, r) == op[o].stage = "taken" /\ r \in op[o].req

\* Each kind of operation has the fields that belong to it.
Shaped(k) ==
  /\ k \in OpRecord
  /\ k.kind \in {"request", "expire"} => k.verdict = "none" /\ k.button = "none"
  /\ k.kind = "respond" => /\ k.verdict \in Outcomes /\ k.on \subseteq k.req
                           /\ k.stage \in {"read", "updating"} => k.verdict \in Verdicts
                           /\ k.verdict \in Verdicts => k.button \in {"none", k.verdict}
                           /\ \A x, y \in k.req : x = y
  /\ k.kind = "none" => k.stage = "idle"
  /\ k.stage \in {"taken", "refused"} => k.kind = "click" /\ k.button \in Verdicts
  /\ k.kind = "click" => k.stage \in {"taken", "refused"}

\* What an operation is that does nothing with the store any more.
Resting(k) == k.stage \in {"idle", "taken", "refused"} /\ k.data = Empty

Unanswered == {"pending", "expired"}

\* What the map and the file hold for r, while they hold anything, is in S.
Upheld(r, S) == (loaded => mem[r] \in S) /\ (file # Torn => file[r] \in S)

\* What a surface shows of r, or is about to
Signs(s, r) == message[s][r].edits \union {message[s][r].shown}

Backed(r, v) ==
  /\ v \in Verdicts => Upheld(r, {v})
  /\ v = "expired" => r \in due /\ Upheld(r, Unanswered)

\* What was read is an earlier status of what the file and the map hold.
Consistent(r) ==
  /\ Writers = {} => file # Torn
  /\ ~loaded => /\ mem[r] = "absent" /\ file # Torn
                /\ \A o \in Operations : /\ op[o].stage \in {"idle", "read"}
                                         /\ op[o].stage = "read" => op[o].data[r] = file[r]
  /\ loaded => /\ file # Torn => Upto(file[r], mem[r])
               /\ \A o \in Operations : op[o].stage # "idle" => Upto(op[o].data[r], mem[r])
  /\ file # Torn => \A o \in Operations : op[o].stage = "read" => Upto(op[o].data[r], file[r])

\* One operation at most enters r, and one at most answers it.
Engaged(r) ==
  \A o \in Operations :
    /\ Asking(o, r) => Upheld(r, {"absent"}) /\ \A p \in Operations : Asking(p, r) => p = o
    /\ Answering(o, r) => /\ loaded /\ mem[r] = op[o].verdict /\ said[r].times = 0
                          /\ op[o].stage = "updating" => Upheld(r, {op[o].verdict})
                          /\ \A p \in Operations : Answering(p, r) => p = o
    /\ Expiring(o, r) => loaded /\ mem[r] = "expired" /\ r \in due /\ Upheld(r, Unanswered)

Told(r) ==
  /\ said[r].times < 2
  /\ said[r].times > 0 => Upheld(r, {said[r].last})
  /\ claim[r].taken => Upheld(r, {claim[r].says})
  /\ \A o \in Operations : Clicking(o, r) => Upheld(r, {op[o].button})
  /\ \A s \in Surfaces : \A v \in Signs(s, r) : Backed(r, v)

Holds(r) == Consistent(r) /\ Engaged(r) /\ Told(r)

Spoken == \A r \in Requests : /\ said[r].times > 0 => said[r].last \in Verdicts
                              /\ claim[r].taken => claim[r].says \in Verdicts

Types == TypeOK /\ Spoken /\ \A o \in Operations : Shaped(op[o])

AInv == Types /\ \A r \in Requests \ disturbed : Holds(r)

-----------------------------------------------------------------------------
(* Types                                                                   *)

LEMMA Bounds == MaxBegun \in Nat /\ MaxFaults \in Nat
  BY BoundsType

LEMMA EmptyType == Empty \in Contents /\ \A r \in Requests : Empty[r] = "absent" /\ Torn[r] = "torn"
  BY DEF Empty, Torn, Contents, Status, Outcomes, Verdicts

\* Only a file without requests may be taken for a torn one.
LEMMA ParsedType ==
  ASSUME Types
  PROVE  /\ Parsed \in Contents
         /\ \A r \in Requests : Parsed[r] = IF file = Torn THEN "absent" ELSE file[r]
  BY EmptyType DEF Types, TypeOK, Parsed

LEMMA IdleShaped ==
  /\ Shaped(Idle) /\ Resting(Idle)
  /\ Idle.stage = "idle" /\ Idle.kind = "none" /\ Idle.req = {}
<1>1. Idle.kind = "none" /\ Idle.stage = "idle" /\ Idle.req = {} /\ Idle.data = Empty
  BY DEF Idle
<1>2. Idle \in OpRecord
  BY EmptyType DEF Idle, OpRecord
<1> QED
  BY <1>1, <1>2 DEF Shaped, Resting

\* What is left of an operation that has returned
LEMMA ReturnedShaped ==
  ASSUME NEW k, Shaped(k), NEW result \in {"taken", "refused"}
  PROVE  LET q == Returned(k, result) IN
         /\ Shaped(q) /\ Resting(q) /\ q.stage \in {"idle", result} /\ q.kind \in {"none", "click"}
         /\ q.stage = result => q.req = k.req /\ q.button = k.button /\ k.button # "none"
<1> DEFINE c == [Idle EXCEPT !.kind = "click", !.req = k.req, !.button = k.button, !.stage = result]
<1>1. CASE k.button = "none"
  BY <1>1, IdleShaped DEF Returned
<1>2. CASE k.button # "none"
  <2>1. k \in OpRecord /\ Returned(k, result) = c
    BY <1>2 DEF Shaped, Returned
  <2>2. k.req \in SUBSET Requests /\ k.button \in Verdicts
    BY <1>2, <2>1 DEF OpRecord
  <2>3. /\ c.kind = "click" /\ c.req = k.req /\ c.button = k.button /\ c.stage = result
        /\ c.data = Empty
    BY DEF Idle
  <2>4. c \in OpRecord
    BY <2>2, EmptyType DEF Idle, OpRecord
  <2> HIDE DEF c
  <2>5. Shaped(c) /\ Resting(c)
    BY <2>2, <2>3, <2>4 DEF Shaped, Resting
  <2> QED
    BY <1>2, <2>1, <2>3, <2>5
<1> QED
  BY <1>1, <1>2

\* The fields of an operation that moves on
LEMMA StageShaped ==
  ASSUME NEW k, Shaped(k), NEW st \in {"changed", "updating"},
         k.kind = "respond" => st = "changed" \/ k.verdict \in Verdicts,
         k.kind \notin {"none", "click"}
  PROVE  LET q == [k EXCEPT !.stage = st] IN
         /\ Shaped(q) /\ q.stage = st /\ q.kind = k.kind /\ q.req = k.req
         /\ q.verdict = k.verdict /\ q.data = k.data /\ q.on = k.on /\ q.button = k.button
<1> DEFINE q == [k EXCEPT !.stage = st]
<1>1. k \in OpRecord
  BY DEF Shaped
<1>2. /\ q \in OpRecord
      /\ q.stage = st /\ q.kind = k.kind /\ q.req = k.req
      /\ q.verdict = k.verdict /\ q.data = k.data /\ q.on = k.on /\ q.button = k.button
  BY <1>1 DEF OpRecord
<1> HIDE DEF q
<1>3. Shaped(q)
  BY <1>2 DEF Shaped
<1> QED
  BY <1>2, <1>3 DEF q

LEMMA OpType ==
  ASSUME Types, NEW o \in Operations, NEW k, Shaped(k), op' = [op EXCEPT ![o] = k]
  PROVE  /\ op' \in [Operations -> OpRecord]
         /\ op'[o] = k /\ \A p \in Operations \ {o} : op'[p] = op[p]
         /\ \A p \in Operations : Shaped(op'[p])
  BY DEF Types, TypeOK, Shaped

\* Between operations nothing but the operation changes.
LEMMA OpKeepsTypes ==
  ASSUME Types, NEW o \in Operations, NEW k, Shaped(k), op' = [op EXCEPT ![o] = k],
         mem' \in Contents, loaded' \in BOOLEAN, file' \in Contents \union {Torn},
         disturbed' \subseteq Requests, begun' \in 0 .. MaxBegun,
         message' \in [Surfaces -> [Requests -> MessageRecord]],
         UNCHANGED <<due, said, claim>>, faults' \in 0 .. MaxFaults
  PROVE  Types'
<1>1. op' \in [Operations -> OpRecord] /\ \A p \in Operations : Shaped(op'[p])
  BY OpType
<1>2. TypeOK'
  BY <1>1 DEF Types, TypeOK
<1>3. Spoken'
  BY DEF Types, Spoken
<1>4. \A p \in Operations : Shaped(op[p])'
  BY <1>1 DEF Shaped, OpRecord, Contents, Status, Outcomes, Verdicts
<1> QED
  BY <1>2, <1>3, <1>4 DEF Types

\* load() with a change leaves statuses in the map, and forgets no disturbance.
LEMMA LoadType ==
  ASSUME Types, NEW o \in Operations, NEW change, Load(o, change),
         \A r \in Requests : r \in DOMAIN change => change[r] \in Status
  PROVE  /\ mem' \in Contents /\ loaded' = TRUE
         /\ disturbed' \subseteq Requests /\ disturbed \subseteq disturbed'
         /\ \A r \in Requests :
              mem'[r] = IF r \in DOMAIN change THEN change[r] ELSE op[o].data[r]
         /\ \A r \in Requests \ disturbed' : loaded => mem[r] = op[o].data[r]
<1>1. op[o].data \in Contents
  BY DEF Types, TypeOK, OpRecord
<1>2. \A r \in Requests :
        (IF r \in DOMAIN change THEN change[r] ELSE op[o].data[r]) \in Status
  BY <1>1 DEF Contents
<1>3. mem' = [r \in Requests |-> IF r \in DOMAIN change THEN change[r] ELSE op[o].data[r]]
  BY DEF Load
<1>4. mem' \in Contents
  BY <1>2, <1>3 DEF Contents
<1>5. disturbed' = disturbed \union
        (IF loaded THEN {r \in Requests : mem[r] # op[o].data[r]} ELSE {})
  BY DEF Load
<1>6. \A r \in Requests \ disturbed' : loaded => mem[r] = op[o].data[r]
  BY <1>5
<1> QED
  BY <1>3, <1>4, <1>5, <1>6 DEF Load, Types, TypeOK

\* An edit under way is added to what the message may show.
LEMMA EditType ==
  ASSUME NEW k \in MessageRecord, NEW x \in Outcomes
  PROVE  LET q == [k EXCEPT !.edits = @ \union {x}] IN
         q \in MessageRecord /\ q.edits = k.edits \union {x} /\ q.shown = k.shown
  BY DEF MessageRecord

LEMMA OutcomeType == \A x : Outcome(x) \in Outcomes
  BY DEF Outcome, Outcomes, Verdicts

LEMMA SendUpdateType ==
  ASSUME Types, NEW r \in Requests, NEW x, SendUpdate(r, x)
  PROVE  /\ message' \in [Surfaces -> [Requests -> MessageRecord]]
         /\ \A s \in Surfaces, y \in Requests :
              /\ y # r => message'[s][y] = message[s][y]
              /\ message'[s][y].shown = message[s][y].shown
              /\ message'[s][y].edits \subseteq message[s][y].edits \union {Outcome(x)}
<1>1. ASSUME NEW s \in Surfaces
      PROVE  /\ message'[s] \in [Requests -> MessageRecord]
             /\ \A y \in Requests \ {r} : message'[s][y] = message[s][y]
             /\ message'[s][r].shown = message[s][r].shown
             /\ message'[s][r].edits \subseteq message[s][r].edits \union {Outcome(x)}
  <2> DEFINE q == [message[s][r] EXCEPT !.edits = @ \union {Outcome(x)}]
  <2>1. message[s] \in [Requests -> MessageRecord]
    BY DEF Types, TypeOK
  <2>2. /\ q \in MessageRecord /\ q.shown = message[s][r].shown
        /\ q.edits = message[s][r].edits \union {Outcome(x)}
    BY <2>1, OutcomeType, EditType
  <2>3. message'[s] = IF message[s][r].post = "live"
                      THEN [message[s] EXCEPT ![r] = q] ELSE message[s]
    BY DEF SendUpdate
  <2> HIDE DEF q
  <2>4. CASE message'[s] = [message[s] EXCEPT ![r] = q]
    BY <2>1, <2>2, <2>4
  <2>5. CASE message'[s] = message[s]
    BY <2>1, <2>5
  <2> QED
    BY <2>3, <2>4, <2>5
<1>2. \A s \in Surfaces : message'[s] \in [Requests -> MessageRecord]
  BY <1>1
<1>3. message' \in [Surfaces -> [Requests -> MessageRecord]]
  BY <1>2 DEF SendUpdate
<1>4. ASSUME NEW s \in Surfaces, NEW y \in Requests
      PROVE  /\ y # r => message'[s][y] = message[s][y]
             /\ message'[s][y].shown = message[s][y].shown
             /\ message'[s][y].edits \subseteq message[s][y].edits \union {Outcome(x)}
  <2>1. CASE y = r
    BY <1>1, <2>1
  <2>2. CASE y # r
    BY <1>1, <2>2
  <2> QED
    BY <2>1, <2>2
<1> QED
  BY <1>3, <1>4

\* Signs of a message that changes only in where it is
LEMMA PostType ==
  ASSUME NEW k \in MessageRecord,
         NEW p \in {"none", "sending", "seen", "live", "lost", "done"}
  PROVE  LET q == [k EXCEPT !.post = p] IN
         q \in MessageRecord /\ q.edits = k.edits /\ q.shown = k.shown
  BY DEF MessageRecord

LEMMA SendRequestType ==
  ASSUME Types, NEW r \in Requests, SendRequest(r)
  PROVE  /\ message' \in [Surfaces -> [Requests -> MessageRecord]]
         /\ \A s \in Surfaces, y \in Requests :
              message'[s][y].shown = message[s][y].shown /\ message'[s][y].edits = message[s][y].edits
<1>1. ASSUME NEW s \in Surfaces
      PROVE  /\ message'[s] \in [Requests -> MessageRecord]
             /\ \A y \in Requests : /\ message'[s][y].shown = message[s][y].shown
                                    /\ message'[s][y].edits = message[s][y].edits
  <2> DEFINE q == [message[s][r] EXCEPT !.post = "sending"]
  <2>1. message[s] \in [Requests -> MessageRecord]
    BY DEF Types, TypeOK
  <2>2. q \in MessageRecord /\ q.shown = message[s][r].shown /\ q.edits = message[s][r].edits
    BY <2>1, PostType
  <2>3. message'[s] = IF s \in SentTo[r] THEN [message[s] EXCEPT ![r] = q] ELSE message[s]
    BY DEF SendRequest
  <2> HIDE DEF q
  <2>4. CASE message'[s] = [message[s] EXCEPT ![r] = q]
    BY <2>1, <2>2, <2>4
  <2>5. CASE message'[s] = message[s]
    BY <2>1, <2>5
  <2> QED
    BY <2>3, <2>4, <2>5
<1>2. message' \in [Surfaces -> [Requests -> MessageRecord]]
  BY <1>1 DEF SendRequest
<1> QED
  BY <1>1, <1>2

LEMMA TurnType ==
  ASSUME Types, NEW s \in Surfaces, NEW r \in Requests, NEW k \in MessageRecord, Turn(s, r, k)
  PROVE  /\ message' \in [Surfaces -> [Requests -> MessageRecord]]
         /\ message'[s][r] = k
         /\ \A z \in Surfaces, y \in Requests :
              z # s \/ y # r => message'[z][y] = message[z][y]
<1> DEFINE f == [message[s] EXCEPT ![r] = k]
<1>1. message[s] \in [Requests -> MessageRecord] /\ message \in [Surfaces -> [Requests -> MessageRecord]]
  BY DEF Types, TypeOK
<1>2. /\ f \in [Requests -> MessageRecord] /\ f[r] = k
      /\ \A y \in Requests \ {r} : f[y] = message[s][y]
  BY <1>1
<1>3. message' = [message EXCEPT ![s] = f]
  BY DEF Turn
<1> HIDE DEF f
<1> QED
  BY <1>1, <1>2, <1>3

-----------------------------------------------------------------------------
(* What a step keeps of one request                                        *)

LEMMA UptoFollows ==
  ASSUME NEW a, NEW b, NEW c, Upto(a, b), Upto(b, c)
  PROVE  Upto(a, c)
  BY DEF Upto

\* load() finds the status that is on file, and the one that was in the map.
LEMMA Current ==
  ASSUME Types, NEW r \in Requests, Consistent(r),
         NEW o \in Operations, op[o].stage = "read", loaded => mem[r] = op[o].data[r]
  PROVE  /\ file # Torn => file[r] = op[o].data[r]
         /\ \A S : Upheld(r, S) => op[o].data[r] \in S
<1>1. CASE loaded
  <2>1. file # Torn => Upto(file[r], op[o].data[r]) /\ Upto(op[o].data[r], file[r])
    BY <1>1 DEF Consistent
  <2>2. file # Torn => file[r] = op[o].data[r]
    BY <2>1 DEF Upto
  <2> QED
    BY <1>1, <2>2 DEF Upheld
<1>2. CASE ~loaded
  <2>1. file # Torn /\ op[o].data[r] = file[r]
    BY <1>2 DEF Consistent
  <2> QED
    BY <2>1 DEF Upheld
<1> QED
  BY <1>1, <1>2

LEMMA LoadConsistent ==
  ASSUME Types, NEW r \in Requests, Consistent(r),
         NEW o \in Operations, op[o].stage = "read", loaded => mem[r] = op[o].data[r],
         Upto(op[o].data[r], mem'[r]), loaded' = TRUE, file' = file,
         \A p \in Operations \ {o} : op'[p] = op[p],
         \/ Resting(op'[o])
         \/ op'[o].stage \in {"changed", "updating"} /\ op'[o].data = op[o].data
  PROVE  Consistent(r)'
<1>1. file # Torn => file[r] = op[o].data[r]
  BY Current
<1>2. Writers' = {} => Writers = {}
  BY DEF Writers
<1>3. (Writers = {} => file # Torn)'
  BY <1>2 DEF Consistent
<1>4. file # Torn => Upto(file[r], mem'[r])
  BY <1>1
<1>5. ASSUME NEW p \in Operations, op[p].stage # "idle"
      PROVE  Upto(op[p].data[r], mem'[r])
  <2>1. Upto(op[p].data[r], op[o].data[r])
    <3>1. CASE loaded
      BY <1>5, <3>1 DEF Consistent
    <3>2. CASE ~loaded
      BY <1>5, <3>2 DEF Consistent, Upto
    <3> QED
      BY <3>1, <3>2
  <2> QED
    BY <2>1, UptoFollows
<1>6. ASSUME NEW p \in Operations, op'[p].stage # "idle"
      PROVE  Upto(op'[p].data[r], mem'[r])
  <2>1. CASE Resting(op'[o]) /\ p = o
    BY <2>1, EmptyType DEF Resting, Upto
  <2>2. CASE ~(Resting(op'[o]) /\ p = o)
    BY <1>5, <1>6, <2>2
  <2> QED
    BY <2>1, <2>2
<1>7. ASSUME file # Torn, NEW p \in Operations, op'[p].stage = "read"
      PROVE  Upto(op'[p].data[r], file[r])
  <2>1. p # o /\ op'[p] = op[p]
    BY <1>7 DEF Resting
  <2> QED
    BY <1>7, <2>1 DEF Consistent
<1> QED
  BY <1>3, <1>4, <1>6, <1>7 DEF Consistent

\* An operation that has loaded moves on, or ends.
LEMMA MoveConsistent ==
  ASSUME NEW r \in Requests, Consistent(r), UNCHANGED <<mem, loaded, file>>,
         NEW o \in Operations, op[o].stage = "updating",
         \A p \in Operations \ {o} : op'[p] = op[p],
         \/ Resting(op'[o])
         \/ op'[o].stage \in {"changed", "updating"} /\ op'[o].data = op[o].data
  PROVE  Consistent(r)'
<1>1. Writers' = {} => Writers = {}
  BY DEF Writers
<1>2. loaded
  BY DEF Consistent
<1>3. \A p \in Operations : op'[p].stage # "idle" =>
         \/ op[p].stage # "idle" /\ op'[p].data = op[p].data
         \/ op'[p].data[r] = "absent"
  BY EmptyType DEF Resting
<1>4. \A p \in Operations : op'[p].stage = "read" => op'[p] = op[p]
  BY DEF Resting
<1>5. \A p \in Operations : op'[p].stage # "idle" => Upto(op'[p].data[r], mem[r])
  BY <1>2, <1>3 DEF Consistent, Upto
<1> QED
  BY <1>1, <1>2, <1>4, <1>5 DEF Consistent

\* What is in the map and on file stays there, but for a request that expires.
Kept(r) ==
  /\ \A v \in Verdicts : Upheld(r, {v}) => Upheld(r, {v})'
  /\ Upheld(r, Unanswered) /\ r \in due => Upheld(r, Unanswered)'
  /\ due \subseteq due'

LEMMA ToldStill ==
  ASSUME Types, NEW r \in Requests, Told(r), Kept(r), said'[r] = said[r],
         claim'[r] = claim[r] \/ (claim'[r].taken => Upheld(r, {claim[r].says})'),
         \A o \in Operations : Clicking(o, r)' => Clicking(o, r) /\ op'[o].button = op[o].button,
         \A s \in Surfaces : \A v \in Signs(s, r)' : v \in Signs(s, r) \/ Backed(r, v)'
  PROVE  Told(r)'
<1>1. /\ said[r].times > 0 => said[r].last \in Verdicts
      /\ claim[r].taken => claim[r].says \in Verdicts
      /\ \A o \in Operations : Clicking(o, r) => op[o].button \in Verdicts
  <2>1. \A o \in Operations : Shaped(op[o])
    BY DEF Types
  <2>2. \A o \in Operations : Clicking(o, r) => op[o].button \in Verdicts
    BY <2>1 DEF Shaped, Clicking
  <2> QED
    BY <2>2 DEF Types, Spoken
<1>2. /\ (said[r].times < 2)' /\ (said[r].times > 0 => Upheld(r, {said[r].last}))'
      /\ (claim[r].taken => Upheld(r, {claim[r].says}))'
  BY <1>1 DEF Told, Kept, Upheld
<1>5. ASSUME NEW o \in Operations, Clicking(o, r)'
      PROVE  Upheld(r, {op[o].button})'
  <2>1. Clicking(o, r) /\ op'[o].button = op[o].button /\ op[o].button \in Verdicts
    BY <1>1, <1>5
  <2>2. Upheld(r, {op[o].button})
    BY <2>1 DEF Told
  <2>3. \A v \in Verdicts : Upheld(r, {v}) => Upheld(r, {v})'
    BY DEF Kept
  <2>4. PICK b \in Verdicts : b = op[o].button
    BY <2>1
  <2>5. Upheld(r, {b})'
    BY <2>2, <2>3, <2>4
  <2> QED
    BY <2>1, <2>4, <2>5 DEF Upheld
<1>3. ASSUME NEW v, Backed(r, v)
      PROVE  Backed(r, v)'
  BY <1>3 DEF Backed, Kept, Upheld
<1>4. ASSUME NEW s \in Surfaces, NEW v \in Signs(s, r)'
      PROVE  Backed(r, v)'
  BY <1>3 DEF Told
<1> QED
  BY <1>2, <1>4, <1>5 DEF Told

\* No operation begins to enter, answer or expire r, and the map keeps it.
LEMMA EngagedStill ==
  ASSUME Types, NEW r \in Requests, Engaged(r), Kept(r), said'[r] = said[r],
         loaded => loaded' /\ mem'[r] = mem[r],
         \A p \in Operations :
           /\ Asking(p, r)' => Asking(p, r) /\ Upheld(r, {"absent"})'
           /\ Answering(p, r)' => /\ Answering(p, r) /\ op'[p].verdict = op[p].verdict
                                  /\ op'[p].stage = "updating" =>
                                       op[p].stage = "updating" \/ Upheld(r, {op[p].verdict})'
           /\ Expiring(p, r)' => Expiring(p, r)
  PROVE  Engaged(r)'
<1> SUFFICES ASSUME NEW o \in Operations
             PROVE  /\ Asking(o, r)' => /\ Upheld(r, {"absent"})'
                                        /\ \A p \in Operations : Asking(p, r)' => p = o
                    /\ Answering(o, r)' =>
                         /\ loaded' /\ mem'[r] = op'[o].verdict /\ said'[r].times = 0
                         /\ op'[o].stage = "updating" => Upheld(r, {op[o].verdict})'
                         /\ \A p \in Operations : Answering(p, r)' => p = o
                    /\ Expiring(o, r)' => /\ loaded' /\ mem'[r] = "expired" /\ r \in due'
                                          /\ Upheld(r, Unanswered)'
  BY DEF Engaged
<1>1. Asking(o, r)' => /\ Upheld(r, {"absent"})'
                       /\ \A p \in Operations : Asking(p, r)' => p = o
  BY DEF Engaged
<1>2. ASSUME Answering(o, r)'
      PROVE  /\ loaded' /\ mem'[r] = op'[o].verdict /\ said'[r].times = 0
             /\ op'[o].stage = "updating" => Upheld(r, {op[o].verdict})'
             /\ \A p \in Operations : Answering(p, r)' => p = o
  <2>1. Answering(o, r) /\ op'[o].verdict = op[o].verdict
    BY <1>2
  <2>2. /\ loaded /\ mem[r] = op[o].verdict /\ said[r].times = 0
        /\ op[o].stage = "updating" => Upheld(r, {op[o].verdict})
        /\ \A p \in Operations : Answering(p, r) => p = o
    BY <2>1 DEF Engaged
  <2>3. op[o].verdict \in Verdicts
    BY <2>1 DEF Answering
  <2>4. op'[o].stage = "updating" => Upheld(r, {op[o].verdict})'
    BY <1>2, <2>1, <2>2, <2>3 DEF Kept
  <2> QED
    BY <2>1, <2>2, <2>4
<1>3. ASSUME Expiring(o, r)'
      PROVE  loaded' /\ mem'[r] = "expired" /\ r \in due' /\ Upheld(r, Unanswered)'
  <2>1. loaded /\ mem[r] = "expired" /\ r \in due /\ Upheld(r, Unanswered)
    BY <1>3 DEF Engaged
  <2> QED
    BY <2>1 DEF Kept
<1> QED
  BY <1>1, <1>2, <1>3

-----------------------------------------------------------------------------
(* The operations, one step after the other                                *)

\* The operation that begins is the only one that changes; it has read the file.
LEMMA BeginKeeps ==
  ASSUME AInv, NEW o \in Operations, NEW kind, NEW S, NEW verdict, NEW button,
         Begin(o, kind, S, verdict, button),
         S \subseteq Requests,
         \/ kind = "request" /\ verdict = "none" /\ button = "none" /\ \A r \in S : Fresh(r)
         \/ kind = "respond" /\ verdict \in Verdicts /\ button \in {"none", verdict}
            /\ \A x, y \in S : x = y
         \/ kind = "expire" /\ verdict = "none" /\ button = "none"
  PROVE  AInv'
<1> DEFINE k == [kind |-> kind, req |-> S, verdict |-> verdict, button |-> button, stage |-> "read",
                 data |-> Parsed, mixed |-> FALSE, on |-> {}]
<1>1. Types /\ Parsed \in Contents
  BY ParsedType DEF AInv
<1>2. /\ Shaped(k) /\ k.kind = kind /\ k.req = S /\ k.verdict = verdict /\ k.stage = "read"
      /\ k.data = Parsed
  BY <1>1 DEF Shaped, OpRecord, Outcomes
<1>3. op' = [op EXCEPT ![o] = k] /\ op[o].stage = "idle"
  BY DEF Begin
<1> HIDE DEF k
<1>4. op'[o] = k /\ \A p \in Operations \ {o} : op'[p] = op[p]
  BY <1>1, <1>2, <1>3, OpType
<1>5. begun' \in 0 .. MaxBegun /\ faults' \in 0 .. MaxFaults
  BY <1>1, Bounds DEF Begin, Types, TypeOK
<1>6. Types'
  <2>1. UNCHANGED <<mem, loaded, file, due, message, said, claim, disturbed, faults>>
    BY DEF Begin
  <2> QED
    BY <1>1, <1>2, <1>3, <1>5, <2>1, OpKeepsTypes DEF Types, TypeOK
<1>7. ASSUME NEW r \in Requests \ disturbed'
      PROVE  Holds(r)'
  <2>1. UNCHANGED <<mem, loaded, file, due, message, said, claim, disturbed>>
    BY DEF Begin
  <2>2. Consistent(r) /\ Engaged(r) /\ Told(r)
    BY <1>7, <2>1 DEF AInv, Holds
  <2>3. Parsed[r] = IF file = Torn THEN "absent" ELSE file[r]
    BY <1>1, ParsedType
  <2>4. Consistent(r)'
    <3>1. Writers' = {} => Writers = {}
      BY <1>3, <1>4 DEF Writers
    <3>2. ~loaded => op'[o].data[r] = file[r]
      BY <1>2, <1>4, <2>2, <2>3 DEF Consistent
    <3>3. file # Torn => Upto(op'[o].data[r], file[r])
      BY <1>2, <1>4, <2>3 DEF Upto
    <3>4. loaded => Upto(op'[o].data[r], mem[r])
      BY <1>2, <1>4, <2>2, <2>3 DEF Consistent, Upto
    <3> QED
      BY <1>2, <1>4, <2>1, <2>2, <3>1, <3>2, <3>3, <3>4 DEF Consistent
  <2>5. Told(r)'
    <3>1. \A p \in Operations : Clicking(p, r)' => Clicking(p, r) /\ op'[p] = op[p]
      BY <1>2, <1>4 DEF Clicking
    <3> QED
      BY <2>1, <2>2, <3>1 DEF Told, Signs, Backed, Upheld
  <2>6. Engaged(r)'
    <3>1. ASSUME NEW p \in Operations \ {o}
          PROVE  /\ Asking(p, r)' <=> Asking(p, r)
                 /\ Answering(p, r)' <=> Answering(p, r)
                 /\ Expiring(p, r)' <=> Expiring(p, r)
                 /\ op'[p] = op[p]
      BY <1>4, <3>1 DEF Asking, Answering, Expiring
    <3>2. ~Answering(o, r)' /\ ~Expiring(o, r)' /\ (Asking(o, r)' => kind = "request" /\ r \in S)
      BY <1>2, <1>4 DEF Asking, Answering, Expiring
    <3>3. \A X : Upheld(r, X)' <=> Upheld(r, X)
      BY <2>1 DEF Upheld
    <3>4. Asking(o, r)' => /\ Upheld(r, {"absent"}) /\ \A p \in Operations : ~Asking(p, r)
      <4> SUFFICES ASSUME Asking(o, r)'
                   PROVE  Upheld(r, {"absent"}) /\ \A p \in Operations : ~Asking(p, r)
        OBVIOUS
      <4>1. Fresh(r)
        BY <3>2 DEF Verdicts
      <4> QED
        BY <4>1, <2>3 DEF Fresh, Known, Upheld, Asking
    <3>5. ASSUME NEW p \in Operations \ {o}
          PROVE  /\ Asking(p, r)' => /\ Upheld(r, {"absent"})'
                                     /\ \A q \in Operations : Asking(q, r)' => q = p
                 /\ Answering(p, r)' =>
                      /\ loaded' /\ mem'[r] = op'[p].verdict /\ said'[r].times = 0
                      /\ op'[p].stage = "updating" => Upheld(r, {op[p].verdict})'
                      /\ \A q \in Operations : Answering(q, r)' => q = p
                 /\ Expiring(p, r)' => /\ loaded' /\ mem'[r] = "expired" /\ r \in due'
                                       /\ Upheld(r, Unanswered)'
      <4>1. Asking(p, r)' => /\ Upheld(r, {"absent"})'
                             /\ \A q \in Operations : Asking(q, r)' => q = p
        BY <2>2, <3>1, <3>3, <3>4, <3>5 DEF Engaged
      <4>2. ASSUME Answering(p, r)'
            PROVE  /\ loaded' /\ mem'[r] = op'[p].verdict /\ said'[r].times = 0
                   /\ op'[p].stage = "updating" => Upheld(r, {op[p].verdict})'
                   /\ \A q \in Operations : Answering(q, r)' => q = p
        <5>1. /\ loaded /\ mem[r] = op[p].verdict /\ said[r].times = 0
              /\ op[p].stage = "updating" => Upheld(r, {op[p].verdict})
              /\ \A q \in Operations : Answering(q, r) => q = p
          BY <2>2, <3>1, <3>5, <4>2 DEF Engaged
        <5>2. op'[p].stage = "updating" => Upheld(r, {op[p].verdict})'
          BY <3>1, <3>3, <3>5, <5>1
        <5> QED
          BY <2>1, <3>1, <3>2, <3>5, <5>1, <5>2
      <4>3. Expiring(p, r)' => /\ loaded' /\ mem'[r] = "expired" /\ r \in due'
                               /\ Upheld(r, Unanswered)'
        BY <2>1, <2>2, <3>1, <3>3, <3>5 DEF Engaged, Unanswered
      <4> QED
        BY <4>1, <4>2, <4>3
    <3>6. Asking(o, r)' => /\ Upheld(r, {"absent"})'
                           /\ \A q \in Operations : Asking(q, r)' => q = o
      BY <3>1, <3>3, <3>4
    <3> QED
      BY <3>2, <3>5, <3>6 DEF Engaged
  <2> QED
    BY <2>4, <2>5, <2>6 DEF Holds
<1> QED
  BY <1>6, <1>7 DEF AInv

\* Signs of every message are left alone.
LEMMA NoNewSigns ==
  ASSUME NEW r \in Requests, message' = message
  PROVE  \A s \in Surfaces : \A v \in Signs(s, r)' : v \in Signs(s, r) \/ Backed(r, v)'
  BY DEF Signs

\* Who has read that r is still open finds that nobody has decided it.
LEMMA OpenMeansFree ==
  ASSUME Types, NEW r \in Requests, Consistent(r), Engaged(r), Told(r),
         NEW o \in Operations, op[o].stage = "read", loaded => mem[r] = op[o].data[r],
         op[o].data[r] \in {"absent", "pending"}
  PROVE  /\ \A p \in Operations : ~Answering(p, r) /\ ~Expiring(p, r)
         /\ op[o].data[r] = "pending" => \A p \in Operations : ~Asking(p, r)
         /\ said[r].times = 0
<1>1. \A S : Upheld(r, S) => op[o].data[r] \in S
  BY Current
<1>2. \A p \in Operations : ~Answering(p, r) /\ ~Expiring(p, r)
  BY DEF Engaged, Answering, Verdicts
<1>3. op[o].data[r] = "pending" => \A p \in Operations : ~Asking(p, r)
  BY <1>1 DEF Engaged
<1>4. said[r].times = 0
  <2>1. said[r].times > 0 => said[r].last \in Verdicts /\ Upheld(r, {said[r].last})
    BY DEF Types, Spoken, Told
  <2>2. said[r].times > 0 => op[o].data[r] \in Verdicts
    BY <1>1, <2>1
  <2>3. said[r].times \in 0 .. 2
    BY DEF Types, TypeOK
  <2> QED
    BY <2>2, <2>3 DEF Verdicts
<1> QED
  BY <1>2, <1>3, <1>4

\* The first step of an operation: load(), and a change of what was read.
LEMMA LoadKeeps ==
  ASSUME AInv, NEW o \in Operations, op[o].stage = "read", NEW change, Load(o, change),
         \A r \in Requests : r \in DOMAIN change => change[r] \in Status,
         NEW k, Shaped(k), op' = [op EXCEPT ![o] = k],
         \/ Resting(k) /\ k.stage # "taken"
         \/ k.stage \in {"changed", "updating"} /\ k.data = op[o].data,
         UNCHANGED <<file, due, message, said, claim, begun, faults>>,
         \A r \in Requests : r \in DOMAIN change =>
           \/ Asking(o, r) /\ change[r] = "pending"
           \/ op[o].data[r] = "pending" /\ change[r] \in Verdicts /\ r \notin due
           \/ op[o].data[r] = "pending" /\ change[r] = "expired",
         \A r \in Requests : Answering(o, r)' =>
           r \in DOMAIN change /\ change[r] = k.verdict /\ k.stage = "changed",
         \A r \in Requests : Expiring(o, r)' =>
           r \in DOMAIN change /\ change[r] = "expired" /\ r \in due
  PROVE  AInv'
<1>1. Types
  BY DEF AInv
<1>2. /\ mem' \in Contents /\ loaded' = TRUE
      /\ disturbed' \subseteq Requests /\ disturbed \subseteq disturbed'
      /\ \A r \in Requests :
           mem'[r] = IF r \in DOMAIN change THEN change[r] ELSE op[o].data[r]
      /\ \A r \in Requests \ disturbed' : loaded => mem[r] = op[o].data[r]
  BY <1>1, LoadType
<1>3. op'[o] = k /\ \A p \in Operations \ {o} : op'[p] = op[p]
  BY <1>1, OpType
<1>4. Types'
  BY <1>1, <1>2, OpKeepsTypes DEF Types, TypeOK
<1>5. ASSUME NEW r \in Requests \ disturbed'
      PROVE  Holds(r)'
  <2>1. /\ Consistent(r) /\ Engaged(r) /\ Told(r) /\ (loaded => mem[r] = op[o].data[r])
        /\ mem'[r] = IF r \in DOMAIN change THEN change[r] ELSE op[o].data[r]
    BY <1>2 DEF AInv, Holds
  <2>2. /\ file # Torn => file[r] = op[o].data[r]
        /\ \A S : Upheld(r, S) => op[o].data[r] \in S
    BY <1>1, <2>1, Current
  <2>3. ASSUME NEW S, mem'[r] \in S, op[o].data[r] \in S
        PROVE  Upheld(r, S)'
    BY <2>2, <2>3 DEF Upheld
  <2>4. /\ \A p \in Operations \ {o} : /\ Asking(p, r)' <=> Asking(p, r)
                                       /\ Answering(p, r)' <=> Answering(p, r)
                                       /\ Expiring(p, r)' <=> Expiring(p, r)
        /\ ~Asking(o, r)' /\ ~Clicking(o, r)'
    BY <1>3 DEF Asking, Answering, Expiring, Clicking, Resting
  <2>5. UNCHANGED <<due, said, claim>> /\ said'[r] = said[r] /\ claim'[r] = claim[r] /\ due \subseteq due'
    OBVIOUS
  <2>6. \A s \in Surfaces : \A v \in Signs(s, r)' : v \in Signs(s, r) \/ Backed(r, v)'
    BY NoNewSigns
  <2>9. \A p \in Operations : Clicking(p, r)' => Clicking(p, r) /\ op'[p].button = op[p].button
    BY <1>3, <2>4 DEF Clicking
  <2>7. CASE r \notin DOMAIN change
    <3>1. \A S : Upheld(r, S) => Upheld(r, S)'
      BY <2>1, <2>2, <2>3, <2>7
    <3>2. Kept(r)
      BY <2>5, <3>1 DEF Kept
    <3>3. Consistent(r)'
      <4>1. Upto(op[o].data[r], mem'[r])
        BY <2>1, <2>7 DEF Upto
      <4> QED
        BY <1>1, <1>2, <1>3, <2>1, <4>1, LoadConsistent
    <3>4. Told(r)'
      BY <1>1, <2>1, <2>5, <2>6, <2>9, <3>2, ToldStill
    <3>5. ASSUME NEW p \in Operations
          PROVE  /\ Asking(p, r)' => Asking(p, r) /\ Upheld(r, {"absent"})'
                 /\ Answering(p, r)' => Answering(p, r) /\ op'[p] = op[p]
                 /\ Expiring(p, r)' => Expiring(p, r)
      <4>1. CASE p = o
        BY <2>4, <2>7, <4>1
      <4>2. CASE p # o
        BY <1>3, <2>1, <2>4, <3>1, <4>2 DEF Engaged
      <4> QED
        BY <4>1, <4>2
    <3>6. loaded => loaded' /\ mem'[r] = mem[r]
      BY <1>2, <2>1, <2>7
    <3>7. Engaged(r)'
      BY <1>1, <2>1, <2>5, <3>2, <3>5, <3>6, EngagedStill
    <3> QED
      BY <3>3, <3>4, <3>7 DEF Holds
  <2>8. CASE r \in DOMAIN change
    <3>1. \/ Asking(o, r) /\ mem'[r] = "pending"
          \/ op[o].data[r] = "pending" /\ mem'[r] \in Verdicts /\ r \notin due
          \/ op[o].data[r] = "pending" /\ mem'[r] = "expired"
      BY <2>1, <2>8
    <3>2. Asking(o, r) => /\ op[o].data[r] = "absent"
                          /\ \A p \in Operations \ {o} : ~Asking(p, r)
      BY <2>1, <2>2 DEF Engaged
    <3>3. op[o].data[r] \in {"absent", "pending"}
      BY <3>1, <3>2
    <3>4. /\ \A p \in Operations : ~Answering(p, r) /\ ~Expiring(p, r)
          /\ op[o].data[r] = "pending" => \A p \in Operations : ~Asking(p, r)
          /\ said[r].times = 0
      BY <1>1, <2>1, <3>3, OpenMeansFree
    <3>5. \A p \in Operations : ~Asking(p, r)'
      BY <2>4, <3>1, <3>2, <3>4
    <3>6. \A p \in Operations \ {o} : ~Answering(p, r)' /\ ~Expiring(p, r)'
      BY <2>4, <3>4
    <3>7. Consistent(r)'
      <4>1. Upto(op[o].data[r], mem'[r])
        BY <3>1, <3>2 DEF Upto, Verdicts
      <4> QED
        BY <1>1, <1>2, <1>3, <2>1, <4>1, LoadConsistent
    <3>8. Kept(r)
      <4>1. \A v \in Verdicts : ~Upheld(r, {v})
        BY <2>2, <3>3 DEF Verdicts
      <4>2. ASSUME Upheld(r, Unanswered), r \in due
            PROVE  Upheld(r, Unanswered)'
        <5>1. op[o].data[r] \in Unanswered
          BY <2>2, <4>2
        <5>2. mem'[r] \in Unanswered
          BY <3>1, <3>2, <4>2, <5>1 DEF Unanswered
        <5> QED
          BY <2>3, <5>1, <5>2
      <4> QED
        BY <2>5, <4>1, <4>2 DEF Kept
    <3>9. Told(r)'
      BY <1>1, <2>1, <2>5, <2>6, <2>9, <3>8, ToldStill
    <3>10. Engaged(r)'
      <4>1. Answering(o, r)' => /\ loaded' /\ mem'[r] = op'[o].verdict /\ said'[r].times = 0
                                /\ op'[o].stage # "updating"
        BY <1>2, <1>3, <2>1, <2>5, <2>8, <3>4
      <4>2. Expiring(o, r)' => /\ loaded' /\ mem'[r] = "expired" /\ r \in due'
                               /\ Upheld(r, Unanswered)'
        <5> SUFFICES ASSUME Expiring(o, r)'
                     PROVE  /\ loaded' /\ mem'[r] = "expired" /\ r \in due'
                            /\ Upheld(r, Unanswered)'
          OBVIOUS
        <5>1. mem'[r] = "expired" /\ r \in due'
          BY <2>1, <2>5, <2>8
        <5>2. op[o].data[r] = "pending"
          BY <3>1, <5>1 DEF Verdicts
        <5> QED
          BY <1>2, <2>3, <5>1, <5>2 DEF Unanswered
      <4> QED
        BY <3>5, <3>6, <4>1, <4>2 DEF Engaged
    <3> QED
      BY <3>7, <3>9, <3>10 DEF Holds
  <2> QED
    BY <2>7, <2>8
<1> QED
  BY <1>4, <1>5 DEF AInv

LEMMA NoChange == DOMAIN << >> = {}
  OBVIOUS

LEMMA AddRequestKeeps ==
  ASSUME AInv, NEW o \in Operations, NEW r \in Requests, AddRequest(o, r)
  PROVE  AInv'
<1> DEFINE k == [op[o] EXCEPT !.stage = "changed"]
           change == [x \in {r} |-> "pending"]
<1>1. op[o].stage = "read" /\ op[o].kind = "request" /\ op[o].req = {r} /\ Shaped(op[o])
  BY DEF AddRequest, AInv, Types
<1>2. /\ Shaped(k) /\ k.stage = "changed" /\ k.kind = "request" /\ k.data = op[o].data
  BY <1>1, StageShaped
<1>3. Types /\ op' = [op EXCEPT ![o] = k]
  BY DEF AddRequest, AInv
<1>4. /\ Load(o, change) /\ UNCHANGED <<file, due, message, said, claim, begun, faults>>
      /\ \A x \in Requests : x \in DOMAIN change => x = r /\ change[x] = "pending"
  BY DEF AddRequest
<1> HIDE DEF k, change
<1>5. op'[o] = k
  BY <1>2, <1>3, OpType
<1>6. \A x \in Requests : x \in DOMAIN change => Asking(o, x) /\ change[x] = "pending"
  BY <1>1, <1>4 DEF Asking
<1>7. \A x \in Requests : ~Answering(o, x)' /\ ~Expiring(o, x)'
  BY <1>2, <1>5 DEF Answering, Expiring
<1>8. \A x \in Requests : x \in DOMAIN change => change[x] \in Status
  BY <1>4 DEF Status
<1> QED
  BY <1>1, <1>2, <1>3, <1>4, <1>6, <1>7, <1>8, LoadKeeps

\* The verdict of an answer is what its update gives the request.
LEMMA UpdateKeeps ==
  ASSUME AInv, NEW o \in Operations, NEW r \in Requests, NEW x \in Outcomes,
         op[o].stage = "read", op[o].kind = "respond", op[o].req = {r},
         op[o].data[r] = "pending", x \in Verdicts => x = op[o].verdict /\ r \notin due, UpdateStatus(o, r, x),
         UNCHANGED <<file, due, message, said, claim, begun, faults>>
  PROVE  AInv'
<1> DEFINE k == [op[o] EXCEPT !.stage = "changed", !.verdict = x]
           change == [y \in {r} |-> x]
<1>1. Types /\ Shaped(op[o])
  BY DEF AInv, Types
<1>2. op[o] \in OpRecord /\ op[o].on \subseteq op[o].req
  BY <1>1 DEF Shaped
<1>3. /\ k \in OpRecord /\ k.stage = "changed" /\ k.kind = "respond" /\ k.data = op[o].data
      /\ k.verdict = x /\ k.req = {r} /\ k.on = op[o].on /\ k.button = op[o].button
  BY <1>2 DEF OpRecord, Outcomes
<1>4. Shaped(k)
  BY <1>1, <1>2, <1>3 DEF Shaped, Verdicts
<1>5. op' = [op EXCEPT ![o] = k] /\ Load(o, change)
  BY <1>2 DEF UpdateStatus, OpRecord
<1>6. \A y \in Requests : (y \in DOMAIN change <=> y = r) /\ (y \in DOMAIN change => change[y] = x)
  OBVIOUS
<1> HIDE DEF k, change
<1>7. op'[o] = k
  BY <1>1, <1>4, <1>5, OpType
<1>8. \A y \in Requests : Answering(o, y)' =>
         y \in DOMAIN change /\ change[y] = k.verdict /\ k.stage = "changed"
  BY <1>3, <1>6, <1>7 DEF Answering
<1>9. \A y \in Requests : ~Expiring(o, y)'
  BY <1>3, <1>7 DEF Expiring
<1>10. \A y \in Requests : y \in DOMAIN change => change[y] \in Status
  BY <1>6 DEF Status
<1>11. \A y \in Requests : y \in DOMAIN change =>
         \/ op[o].data[y] = "pending" /\ change[y] \in Verdicts /\ y \notin due
         \/ op[o].data[y] = "pending" /\ change[y] = "expired"
  BY <1>6 DEF Outcomes
<1> QED
  BY <1>3, <1>4, <1>5, <1>8, <1>9, <1>10, <1>11, LoadKeeps

LEMMA HandleResponseKeeps ==
  ASSUME AInv, NEW o \in Operations, NEW r \in Requests, HandleResponse(o, r)
  PROVE  AInv'
<1>1. /\ op[o].stage = "read" /\ op[o].kind = "respond" /\ op[o].req = {r} /\ Shaped(op[o])
      /\ UNCHANGED <<file, due, message, said, claim, begun, faults>>
  BY DEF HandleResponse, AInv, Types
<1>2. op[o].verdict \in Verdicts
  BY <1>1 DEF Shaped
<1>3. CASE Accepts(o, r) /\ UpdateStatus(o, r, op[o].verdict)
  BY <1>1, <1>2, <1>3, UpdateKeeps DEF Accepts, Outcomes
<1>4. CASE op[o].data[r] = "pending" /\ r \in due /\ UpdateStatus(o, r, "expired")
  BY <1>1, <1>4, UpdateKeeps DEF Outcomes, Verdicts
<1>5. CASE Load(o, << >>) /\ op' = [op EXCEPT ![o] = Returned(@, "refused")]
  <2> DEFINE change == << >>
             k == Returned(op[o], "refused")
  <2>1. Load(o, change) /\ \A y \in Requests : y \notin DOMAIN change
    BY <1>5, NoChange
  <2>2. Shaped(k) /\ Resting(k) /\ k.stage # "taken" /\ k.kind \in {"none", "click"}
    BY <1>1, ReturnedShaped
  <2>3. op' = [op EXCEPT ![o] = k]
    BY <1>5
  <2> HIDE DEF change, k
  <2>4. op'[o] = k
    BY <2>2, <2>3, OpType DEF AInv
  <2>5. \A y \in Requests : ~Answering(o, y)' /\ ~Expiring(o, y)'
    BY <2>2, <2>4 DEF Answering, Expiring
  <2> QED
    BY <1>1, <2>1, <2>2, <2>3, <2>5, LoadKeeps
<1> QED
  BY <1>3, <1>4, <1>5 DEF HandleResponse

LEMMA ExpirePendingKeeps ==
  ASSUME AInv, NEW o \in Operations, ExpirePending(o)
  PROVE  AInv'
<1> DEFINE change == [r \in Expired(o) |-> "expired"]
           moved == [op[o] EXCEPT !.stage = "updating", !.req = Expired(o)]
           k == IF Expired(o) = {} THEN Idle ELSE moved
<1>1. /\ op[o].stage = "read" /\ op[o].kind = "expire" /\ Shaped(op[o])
      /\ UNCHANGED <<file, due, message, said, claim, begun, faults>>
  BY DEF ExpirePending, AInv, Types
<1>2. /\ Types /\ due \subseteq Requests /\ op[o] \in OpRecord /\ op[o].verdict = "none"
      /\ op[o].button = "none"
  BY <1>1 DEF AInv, Types, TypeOK, Shaped
<1>3. /\ Expired(o) \subseteq Requests
      /\ \A r \in Expired(o) : r \in due /\ op[o].data[r] = "pending"
  BY <1>2 DEF Expired
<1>4. Load(o, change) /\ \A r \in Requests : /\ r \in DOMAIN change <=> r \in Expired(o)
                                             /\ r \in DOMAIN change => change[r] = "expired"
  BY DEF ExpirePending
<1>5. /\ moved \in OpRecord /\ moved.stage = "updating" /\ moved.kind = "expire"
      /\ moved.req = Expired(o) /\ moved.data = op[o].data /\ moved.verdict = "none"
      /\ moved.button = "none"
  BY <1>1, <1>2, <1>3 DEF OpRecord
<1>6. Shaped(moved)
  BY <1>5 DEF Shaped
<1>7. op' = [op EXCEPT ![o] = k]
  BY <1>2 DEF ExpirePending, OpRecord, Types, TypeOK
<1> HIDE DEF change, moved
<1>8. /\ Shaped(k) /\ \/ Resting(k) /\ k.stage # "taken"
                      \/ k.stage \in {"changed", "updating"} /\ k.data = op[o].data
  BY <1>5, <1>6, IdleShaped
<1>9. /\ k.kind # "respond"
      /\ k.kind = "expire" => k.req = Expired(o)
  BY <1>5, IdleShaped
<1> HIDE DEF k
<1>10. op'[o] = k
  BY <1>2, <1>7, <1>8, OpType
<1>11. \A r \in Requests : ~Answering(o, r)' /\ (Expiring(o, r)' => r \in Expired(o))
  BY <1>9, <1>10 DEF Answering, Expiring
<1>12. \A r \in Requests : Expiring(o, r)' => r \in DOMAIN change /\ change[r] = "expired" /\ r \in due
  BY <1>3, <1>4, <1>11
<1>13. \A r \in Requests : r \in DOMAIN change =>
         change[r] \in Status /\ op[o].data[r] = "pending" /\ change[r] = "expired"
  BY <1>3, <1>4 DEF Status, Outcomes
<1> QED
  BY <1>1, <1>4, <1>7, <1>8, <1>11, <1>12, <1>13, LoadKeeps

\* writeFile empties the file; what it will write is the map of that moment.
LEMMA SaveKeeps ==
  ASSUME AInv, NEW o \in Operations, Save(o)
  PROVE  AInv'
<1>1. /\ op[o].stage = "changed" /\ file' = Torn /\ Types
      /\ UNCHANGED <<mem, loaded, due, message, said, claim, disturbed, begun, faults>>
  BY DEF Save, AInv
<1>2. ASSUME NEW p \in Operations
      PROVE  /\ op'[p] \in OpRecord /\ op'[p].kind = op[p].kind /\ op'[p].req = op[p].req
             /\ op'[p].verdict = op[p].verdict /\ op'[p].on = op[p].on /\ op'[p].button = op[p].button
             /\ p = o => op'[p].stage = "writing" /\ op'[p].data = mem
             /\ p # o => op'[p].stage = op[p].stage /\ op'[p].data = op[p].data
  <2>1. op[p] \in OpRecord /\ mem \in Contents /\ (Writers # {}) \in BOOLEAN
    BY <1>1 DEF Types, TypeOK
  <2>2. op'[p] = IF p = o THEN [op[o] EXCEPT !.stage = "writing", !.data = mem,
                                             !.mixed = Writers # {}]
                 ELSE IF p \in Writers THEN [op[p] EXCEPT !.mixed = TRUE] ELSE op[p]
    BY DEF Save
  <2>3. CASE p = o
    BY <2>1, <2>2, <2>3 DEF OpRecord
  <2>4. CASE p # o /\ p \in Writers
    <3>1. op'[p] = [op[p] EXCEPT !.mixed = TRUE]
      BY <2>2, <2>4
    <3> QED
      BY <2>1, <2>4, <3>1 DEF OpRecord
  <2>5. CASE p # o /\ p \notin Writers
    BY <2>1, <2>2, <2>5
  <2> QED
    BY <2>3, <2>4, <2>5
<1>3. \A p \in Operations : Shaped(op'[p])
  <2> SUFFICES ASSUME NEW p \in Operations PROVE Shaped(op'[p])
    OBVIOUS
  <2>1. Shaped(op[p])
    BY <1>1 DEF Types
  <2> QED
    BY <1>1, <1>2, <2>1 DEF Shaped
<1>4. Types'
  <2>1. op' \in [Operations -> OpRecord]
    BY <1>2 DEF Save
  <2>2. TypeOK'
    BY <1>1, <2>1 DEF Types, TypeOK
  <2>3. Spoken'
    BY <1>1 DEF Types, Spoken
  <2>4. \A p \in Operations : Shaped(op[p])'
    BY <1>3 DEF Shaped, OpRecord, Contents, Status, Outcomes, Verdicts
  <2> QED
    BY <2>2, <2>3, <2>4 DEF Types
<1>5. ASSUME NEW r \in Requests \ disturbed'
      PROVE  Holds(r)'
  <2>1. Consistent(r) /\ Engaged(r) /\ Told(r)
    BY <1>1 DEF AInv, Holds
  <2>2. loaded
    BY <1>1, <2>1 DEF Consistent
  <2>3. \A S : Upheld(r, S) => Upheld(r, S)'
    BY <1>1 DEF Upheld
  <2>4. Kept(r)
    BY <1>1, <2>3 DEF Kept
  <2>5. Told(r)'
    <3>1. \A s \in Surfaces : \A v \in Signs(s, r)' : v \in Signs(s, r) \/ Backed(r, v)'
      BY <1>1, NoNewSigns
    <3>2. \A p \in Operations : Clicking(p, r)' => Clicking(p, r) /\ op'[p].button = op[p].button
      BY <1>2 DEF Clicking
    <3> QED
      BY <1>1, <2>1, <2>4, <3>1, <3>2, ToldStill
  <2>6. Consistent(r)'
    <3>1. o \in Writers'
      BY <1>2 DEF Writers
    <3>2. ASSUME NEW p \in Operations, op'[p].stage # "idle"
          PROVE  Upto(op'[p].data[r], mem[r])
      <4>1. CASE p = o
        BY <1>2, <4>1 DEF Upto
      <4>2. CASE p # o
        BY <1>2, <2>1, <2>2, <3>2, <4>2 DEF Consistent
      <4> QED
        BY <4>1, <4>2
    <3> QED
      BY <1>1, <2>2, <3>1, <3>2 DEF Consistent
  <2>7. Engaged(r)'
    <3>1. ASSUME NEW p \in Operations
          PROVE  /\ Asking(p, r)' => Asking(p, r) /\ Upheld(r, {"absent"})'
                 /\ Answering(p, r)' => /\ Answering(p, r) /\ op'[p].verdict = op[p].verdict
                                        /\ op'[p].stage = "updating" => op[p].stage = "updating"
                 /\ Expiring(p, r)' => Expiring(p, r)
      <4>1. Asking(p, r)' => Asking(p, r)
        BY <1>2 DEF Asking
      <4>2. Asking(p, r) => Upheld(r, {"absent"})'
        BY <2>1, <2>3 DEF Engaged
      <4>3. Answering(p, r)' => /\ Answering(p, r) /\ op'[p].verdict = op[p].verdict
                                /\ op'[p].stage = "updating" => op[p].stage = "updating"
        BY <1>1, <1>2 DEF Answering
      <4>4. Expiring(p, r)' => Expiring(p, r)
        BY <1>2 DEF Expiring
      <4> QED
        BY <4>1, <4>2, <4>3, <4>4
    <3> QED
      BY <1>1, <2>1, <2>4, <3>1, EngagedStill
  <2> QED
    BY <2>5, <2>6, <2>7 DEF Holds
<1> QED
  BY <1>4, <1>5 DEF AInv

\* The write ends: if nothing has changed since, map and file are one again.
LEMMA EndWriteKeeps ==
  ASSUME AInv, NEW o \in Operations, EndWrite(o)
  PROVE  AInv'
<1>1. /\ op[o].stage = "writing" /\ Types /\ Shaped(op[o])
      /\ UNCHANGED <<mem, loaded, due, said, claim, begun, faults>>
  BY DEF EndWrite, AInv, Types
<1>2. /\ disturbed \subseteq disturbed' /\ disturbed' \subseteq Requests
      /\ file' \in Contents \union {Torn}
      /\ \A r \in Requests \ disturbed' : file' = op[o].data /\ op[o].data[r] = mem[r]
  <2>1. op[o].data \in Contents /\ disturbed \subseteq Requests
    BY <1>1 DEF Types, TypeOK, OpRecord
  <2> QED
    BY <2>1 DEF EndWrite, Written
<1>3. PICK k : /\ op' = [op EXCEPT ![o] = k] /\ Shaped(k)
               /\ \/ Resting(k) /\ k.stage # "taken" /\ k.kind \in {"none", "click"}
                  \/ k.stage = "updating" /\ k.data = op[o].data /\ k.kind = op[o].kind
                     /\ k.kind # "expire"
                     /\ k.req = op[o].req /\ k.verdict = op[o].verdict
               /\ message' \in [Surfaces -> [Requests -> MessageRecord]]
               /\ \A s \in Surfaces, y \in Requests :
                    /\ message'[s][y].shown = message[s][y].shown
                    /\ message'[s][y].edits \subseteq message[s][y].edits \union
                         {v \in Verdicts : v = op[o].verdict /\ y \in op[o].req}
  <2>1. op[o] \in OpRecord /\ op[o].req \subseteq Requests
    BY <1>1 DEF Shaped, OpRecord
  <2>2. CASE \E r \in op[o].req : /\ op[o].kind = "request"
                                  /\ SendRequest(r)
                                  /\ op' = [op EXCEPT ![o] = Idle]
    <3> PICK r \in op[o].req : SendRequest(r) /\ op' = [op EXCEPT ![o] = Idle]
      BY <2>2
    <3>1. r \in Requests
      BY <2>1
    <3>2. /\ message' \in [Surfaces -> [Requests -> MessageRecord]]
          /\ \A s \in Surfaces, y \in Requests :
               /\ message'[s][y].shown = message[s][y].shown
               /\ message'[s][y].edits = message[s][y].edits
      BY <1>1, <3>1, SendRequestType
    <3> QED
      BY <3>2, IdleShaped
  <2>3. CASE \E r \in op[o].req :
               /\ op[o].verdict \in Verdicts
               /\ SendUpdate(r, op[o].verdict)
               /\ op' = [op EXCEPT ![o].stage = "updating", ![o].on = {r}]
    <3> PICK r \in op[o].req : /\ op[o].verdict \in Verdicts
                               /\ SendUpdate(r, op[o].verdict)
                               /\ op' = [op EXCEPT ![o].stage = "updating", ![o].on = {r}]
      BY <2>3
    <3> DEFINE q == [op[o] EXCEPT !.stage = "updating", !.on = {r}]
    <3>1. r \in Requests /\ op[o].kind = "respond" /\ Outcome(op[o].verdict) = op[o].verdict
      BY <1>1, <2>1 DEF Shaped, OpRecord, Outcome, Verdicts
    <3>2. /\ q \in OpRecord /\ q.stage = "updating" /\ q.data = op[o].data
          /\ q.kind = "respond" /\ q.req = op[o].req /\ q.verdict = op[o].verdict /\ q.on = {r}
          /\ q.button = op[o].button
      BY <2>1, <3>1 DEF OpRecord
    <3>3. op' = [op EXCEPT ![o] = q]
      BY <2>1 DEF OpRecord
    <3> HIDE DEF q
    <3>4. Shaped(q)
      BY <1>1, <3>1, <3>2 DEF Shaped, Outcomes
    <3>5. /\ message' \in [Surfaces -> [Requests -> MessageRecord]]
          /\ \A s \in Surfaces, y \in Requests :
               /\ y # r => message'[s][y] = message[s][y]
               /\ message'[s][y].shown = message[s][y].shown
               /\ message'[s][y].edits \subseteq message[s][y].edits \union {op[o].verdict}
      BY <1>1, <3>1, SendUpdateType
    <3>6. ASSUME NEW s \in Surfaces, NEW y \in Requests
          PROVE  message'[s][y].edits \subseteq message[s][y].edits \union
                   {v \in Verdicts : v = op[o].verdict /\ y \in op[o].req}
      <4>1. CASE y = r
        BY <3>5, <4>1
      <4>2. CASE y # r
        BY <3>5, <4>2
      <4> QED
        BY <4>1, <4>2
    <3> QED
      BY <3>1, <3>2, <3>3, <3>4, <3>5, <3>6
  <2>4. CASE op' = [op EXCEPT ![o] = Returned(@, "refused")] /\ UNCHANGED message
    BY <1>1, <2>4, ReturnedShaped DEF Types, TypeOK
  <2> QED
    BY <2>2, <2>3, <2>4 DEF EndWrite
<1>4. op'[o] = k /\ \A p \in Operations \ {o} : op'[p] = op[p]
  BY <1>1, <1>3, OpType
<1>5. Types'
  BY <1>1, <1>2, <1>3, OpKeepsTypes DEF Types, TypeOK
<1>6. ASSUME NEW r \in Requests \ disturbed'
      PROVE  Holds(r)'
  <2>1. Consistent(r) /\ Engaged(r) /\ Told(r) /\ file' = op[o].data /\ file'[r] = mem[r]
    BY <1>2 DEF AInv, Holds
  <2>2. loaded /\ op[o].data \in Contents /\ file' # Torn
    <3>1. op[o].data \in Contents
      BY <1>1 DEF Types, TypeOK, OpRecord
    <3> QED
      BY <1>1, <2>1, <3>1, EmptyType DEF Consistent, Contents, Status, Outcomes, Verdicts
  <2>3. \A S : Upheld(r, S) => Upheld(r, S)'
    BY <1>1, <2>1, <2>2 DEF Upheld
  <2>4. \A S : mem[r] \in S => Upheld(r, S)'
    BY <1>1, <2>1 DEF Upheld
  <2>5. Kept(r)
    BY <1>1, <2>3 DEF Kept
  <2>6. Answering(o, r) => mem[r] = op[o].verdict
    BY <2>1 DEF Engaged
  <2>7. ASSUME op[o].verdict \in Verdicts, r \in op[o].req
        PROVE  Answering(o, r)
    BY <1>1, <2>7 DEF Answering, Shaped, OpRecord, Verdicts
  <2>8. Told(r)'
    <3>2. \A p \in Operations : Clicking(p, r)' => Clicking(p, r) /\ op'[p].button = op[p].button
      BY <1>3, <1>4 DEF Clicking
    <3>1. ASSUME NEW s \in Surfaces, NEW v \in Signs(s, r)', v \notin Signs(s, r)
          PROVE  Backed(r, v)'
      <4>1. v \in Verdicts /\ v = op[o].verdict /\ r \in op[o].req
        BY <1>3, <3>1 DEF Signs
      <4>2. Upheld(r, {v})'
        BY <2>4, <2>6, <2>7, <4>1
      <4> QED
        BY <4>1, <4>2 DEF Backed, Verdicts
    <3> QED
      BY <1>1, <2>1, <2>5, <3>1, <3>2, ToldStill
  <2>9. Consistent(r)'
    <3>1. ASSUME NEW p \in Operations, op'[p].stage # "idle"
          PROVE  Upto(op'[p].data[r], mem[r])
      <4>1. \/ op[p].stage # "idle" /\ op'[p].data = op[p].data
            \/ op'[p].data[r] = "absent"
        BY <1>1, <1>3, <1>4, <3>1, EmptyType DEF Resting
      <4> QED
        BY <2>1, <2>2, <4>1 DEF Consistent, Upto
    <3> QED
      BY <1>1, <2>1, <2>2, <3>1 DEF Consistent, Upto
  <2>10. Engaged(r)'
    <3>1. ASSUME NEW p \in Operations
          PROVE  /\ Asking(p, r)' => Asking(p, r) /\ Upheld(r, {"absent"})'
                 /\ Answering(p, r)' => /\ Answering(p, r) /\ op'[p].verdict = op[p].verdict
                                        /\ op'[p].stage = "updating" =>
                                             op[p].stage = "updating" \/ Upheld(r, {op[p].verdict})'
                 /\ Expiring(p, r)' => Expiring(p, r)
      <4>1. CASE p # o
        <5>1. op'[p] = op[p]
          BY <1>4, <4>1
        <5>2. Asking(p, r) => Upheld(r, {"absent"})'
          BY <2>1, <2>3 DEF Engaged
        <5> QED
          BY <5>1, <5>2 DEF Asking, Answering, Expiring
      <4>2. CASE p = o
        <5>1. ~Asking(o, r)'
          BY <1>3, <1>4 DEF Asking
        <5>2. Answering(o, r)' => Answering(o, r) /\ op'[o].verdict = op[o].verdict
          BY <1>1, <1>3, <1>4 DEF Answering
        <5>3. Answering(o, r)' => Upheld(r, {op[o].verdict})'
          BY <2>4, <2>6, <5>2
        <5>4. ~Expiring(o, r)'
          BY <1>3, <1>4 DEF Expiring
        <5> QED
          BY <4>2, <5>1, <5>2, <5>3, <5>4
      <4> QED
        BY <4>1, <4>2
    <3> QED
      BY <1>1, <2>1, <2>2, <2>5, <3>1, EngagedStill
  <2> QED
    BY <2>8, <2>9, <2>10 DEF Holds
<1> QED
  BY <1>5, <1>6 DEF AInv

\* The store does not change, and no operation begins to enter, answer or expire r.
LEMMA SteadyKeeps ==
  ASSUME Types, NEW r \in Requests, Engaged(r), Told(r),
         UNCHANGED <<mem, loaded, file>>, due \subseteq due', said'[r] = said[r],
         claim'[r] = claim[r] \/ (claim'[r].taken => Upheld(r, {claim[r].says})'),
         \A p \in Operations :
           /\ Asking(p, r)' => Asking(p, r)
           /\ Answering(p, r)' => op'[p] = op[p]
           /\ Expiring(p, r)' => Expiring(p, r)
           /\ Clicking(p, r)' => op'[p] = op[p],
         \A s \in Surfaces : \A v \in Signs(s, r)' : v \in Signs(s, r) \/ Backed(r, v)'
  PROVE  Engaged(r)' /\ Told(r)'
<1>1. \A S : Upheld(r, S) => Upheld(r, S)'
  BY DEF Upheld
<1>2. Kept(r)
  BY <1>1 DEF Kept
<1>3. ASSUME NEW p \in Operations
      PROVE  /\ Asking(p, r)' => Asking(p, r) /\ Upheld(r, {"absent"})'
             /\ Answering(p, r)' => Answering(p, r) /\ op'[p] = op[p]
             /\ Expiring(p, r)' => Expiring(p, r)
             /\ Clicking(p, r)' => Clicking(p, r) /\ op'[p].button = op[p].button
  <2>1. Asking(p, r) => Upheld(r, {"absent"})'
    BY <1>1 DEF Engaged
  <2>2. Answering(p, r)' => Answering(p, r)
    BY DEF Answering
  <2>3. Clicking(p, r)' => Clicking(p, r) /\ op'[p].button = op[p].button
    BY DEF Clicking
  <2> QED
    BY <2>1, <2>2, <2>3
<1> QED
  BY <1>2, <1>3, ToldStill, EngagedStill

\* An expired request is shown as expired, as long as the map says so.
LEMMA ShowExpiredKeeps ==
  ASSUME AInv, NEW o \in Operations, NEW r \in Requests, ShowExpired(o, r)
  PROVE  AInv'
<1> DEFINE k == [op[o] EXCEPT !.req = @ \ {r}, !.on = {r}]
<1>1. /\ op[o].stage = "updating" /\ op[o].kind = "expire" /\ r \in op[o].req
      /\ Types /\ Shaped(op[o])
      /\ UNCHANGED <<mem, loaded, file, due, said, claim, disturbed, begun, faults>>
  BY DEF ShowExpired, AInv, Types
<1>2. op[o] \in OpRecord /\ op[o].verdict = "none" /\ op[o].button = "none"
  BY <1>1 DEF Shaped
<1>3. /\ k \in OpRecord /\ k.stage = "updating" /\ k.kind = "expire" /\ k.data = op[o].data
      /\ k.verdict = "none" /\ k.button = "none" /\ k.req = op[o].req \ {r}
  BY <1>1, <1>2 DEF OpRecord
<1>4. Shaped(k)
  BY <1>3 DEF Shaped
<1>5. op' = [op EXCEPT ![o] = k]
  BY <1>2 DEF ShowExpired, OpRecord
<1> HIDE DEF k
<1>6. op'[o] = k /\ \A p \in Operations \ {o} : op'[p] = op[p]
  BY <1>1, <1>4, <1>5, OpType
<1>7. /\ message' \in [Surfaces -> [Requests -> MessageRecord]]
      /\ \A s \in Surfaces, y \in Requests :
           /\ y # r => message'[s][y] = message[s][y]
           /\ message'[s][y].shown = message[s][y].shown
           /\ message'[s][y].edits \subseteq message[s][y].edits \union {Outcome(mem[r])}
  <2>1. CASE UNCHANGED message
    BY <1>1, <2>1 DEF Types, TypeOK
  <2>2. CASE SendUpdate(r, mem[r])
    BY <1>1, <2>2, SendUpdateType
  <2> QED
    BY <2>1, <2>2 DEF ShowExpired
<1>8. Types'
  BY <1>1, <1>4, <1>5, <1>7, OpKeepsTypes DEF Types, TypeOK
<1>9. ASSUME NEW y \in Requests \ disturbed'
      PROVE  Holds(y)'
  <2>1. Consistent(y) /\ Engaged(y) /\ Told(y)
    BY <1>1 DEF AInv, Holds
  <2>2. ASSUME NEW s \in Surfaces, NEW v \in Signs(s, y)', v \notin Signs(s, y)
        PROVE  Backed(y, v)'
    <3>1. y = r /\ v = Outcome(mem[r])
      BY <1>7, <2>2 DEF Signs
    <3>2. mem[r] = "expired" /\ r \in due /\ Upheld(r, Unanswered)
      BY <1>1, <2>1, <3>1 DEF Engaged, Expiring
    <3>3. v = "expired"
      BY <3>1, <3>2 DEF Outcome, Verdicts
    <3> QED
      BY <1>1, <3>1, <3>2, <3>3 DEF Backed, Upheld, Verdicts
  <2>3. \A p \in Operations :
          /\ Asking(p, y)' => Asking(p, y)
          /\ Answering(p, y)' => op'[p] = op[p]
          /\ Expiring(p, y)' => Expiring(p, y)
          /\ Clicking(p, y)' => op'[p] = op[p]
    BY <1>1, <1>3, <1>6 DEF Asking, Answering, Expiring, Clicking
  <2>4. Engaged(y)' /\ Told(y)'
    BY <1>1, <2>1, <2>2, <2>3, SteadyKeeps
  <2>5. Consistent(y)'
    BY <1>1, <1>3, <1>6, <2>1, MoveConsistent
  <2> QED
    BY <2>4, <2>5 DEF Holds
<1> QED
  BY <1>8, <1>9 DEF AInv

LEMMA SaveExpiredKeeps ==
  ASSUME AInv, NEW o \in Operations, SaveExpired(o)
  PROVE  AInv'
<1> DEFINE k == [op[o] EXCEPT !.stage = "changed"]
<1>1. /\ op[o].stage = "updating" /\ op[o].kind = "expire" /\ Types /\ Shaped(op[o])
      /\ UNCHANGED <<mem, loaded, file, due, message, said, claim, disturbed, begun, faults>>
  BY DEF SaveExpired, AInv, Types
<1>2. /\ Shaped(k) /\ k.stage = "changed" /\ k.kind = "expire" /\ k.data = op[o].data
  BY <1>1, StageShaped
<1>3. op' = [op EXCEPT ![o] = k]
  BY DEF SaveExpired
<1> HIDE DEF k
<1>4. op'[o] = k /\ \A p \in Operations \ {o} : op'[p] = op[p]
  BY <1>1, <1>2, <1>3, OpType
<1>5. Types'
  BY <1>1, <1>2, <1>3, OpKeepsTypes DEF Types, TypeOK
<1>6. ASSUME NEW y \in Requests \ disturbed'
      PROVE  Holds(y)'
  <2>1. Consistent(y) /\ Engaged(y) /\ Told(y)
    BY <1>1 DEF AInv, Holds
  <2>2. \A p \in Operations :
          /\ Asking(p, y)' => Asking(p, y)
          /\ Answering(p, y)' => op'[p] = op[p]
          /\ Expiring(p, y)' => Expiring(p, y)
          /\ Clicking(p, y)' => op'[p] = op[p]
    BY <1>2, <1>4 DEF Asking, Answering, Expiring, Clicking
  <2>3. Engaged(y)' /\ Told(y)'
    BY <1>1, <2>1, <2>2, NoNewSigns, SteadyKeeps
  <2>4. Consistent(y)'
    BY <1>1, <1>2, <1>4, <2>1, MoveConsistent
  <2> QED
    BY <2>3, <2>4 DEF Holds
<1> QED
  BY <1>5, <1>6 DEF AInv

\* The one that has answered says so: nobody else has, or will.
LEMMA AnnounceKeeps ==
  ASSUME AInv, NEW o \in Operations, NEW r \in Requests, Announce(o, r)
  PROVE  AInv'
<1>1. /\ op[o].stage = "updating" /\ op[o].kind = "respond" /\ op[o].on = {r}
      /\ Types /\ Shaped(op[o]) /\ op' = [op EXCEPT ![o] = Returned(@, "taken")]
      /\ UNCHANGED <<mem, loaded, file, due, message, claim, disturbed, begun, faults>>
  BY DEF Announce, AInv, Types
<1>2. op[o].verdict \in Verdicts /\ Answering(o, r)
  BY <1>1 DEF Shaped, Answering
<1> DEFINE k == Returned(op[o], "taken")
<1>7. /\ Shaped(k) /\ Resting(k) /\ k.stage \in {"idle", "taken"} /\ k.kind \in {"none", "click"}
      /\ k.stage = "taken" => k.req = op[o].req /\ k.button = op[o].button /\ k.button # "none"
  BY <1>1, ReturnedShaped
<1>8. op' = [op EXCEPT ![o] = k]
  BY <1>1
<1> HIDE DEF k
<1>9. k.stage = "taken" => k.button = op[o].verdict /\ \A y \in k.req : y = r
  BY <1>1, <1>2, <1>7 DEF Shaped
<1>3. /\ \A y \in Requests \ {r} : said'[y] = said[y]
      /\ said'[r].last = op[o].verdict /\ said'[r].times = IF said[r].times = 0 THEN 1 ELSE 2
      /\ said' \in [Requests -> [last : Verdicts \union {"none"}, times : 0 .. 2]]
  <2> DEFINE q == [last |-> op[o].verdict, times |-> IF said[r].times = 0 THEN 1 ELSE 2]
  <2>1. q \in [last : Verdicts \union {"none"}, times : 0 .. 2]
    BY <1>2
  <2>2. said' = [said EXCEPT ![r] = q]
    BY DEF Announce
  <2>3. q.last = op[o].verdict /\ q.times = IF said[r].times = 0 THEN 1 ELSE 2
    OBVIOUS
  <2> HIDE DEF q
  <2> QED
    BY <1>1, <2>1, <2>2, <2>3 DEF Types, TypeOK
<1>4. /\ op' \in [Operations -> OpRecord] /\ op'[o] = k
      /\ \A p \in Operations \ {o} : op'[p] = op[p]
      /\ \A p \in Operations : Shaped(op'[p])
  BY <1>1, <1>7, <1>8, OpType
<1>5. Types'
  <2>1. TypeOK'
    BY <1>1, <1>3, <1>4 DEF Types, TypeOK
  <2>2. Spoken'
    BY <1>1, <1>2, <1>3 DEF Types, Spoken
  <2>3. \A p \in Operations : Shaped(op[p])'
    BY <1>4 DEF Shaped, OpRecord, Contents, Status, Outcomes, Verdicts
  <2> QED
    BY <2>1, <2>2, <2>3 DEF Types
<1>6. ASSUME NEW y \in Requests \ disturbed'
      PROVE  Holds(y)'
  <2>1. Consistent(y) /\ Engaged(y) /\ Told(y)
    BY <1>1 DEF AInv, Holds
  <2>2. Consistent(y)'
    BY <1>1, <1>4, <1>7, <2>1, MoveConsistent
  <2>3. /\ \A p \in Operations \ {o} : op'[p] = op[p]
        /\ ~Asking(o, y)' /\ ~Answering(o, y)' /\ ~Expiring(o, y)'
        /\ Clicking(o, y)' => y = r /\ op'[o].button = op[o].verdict
    BY <1>4, <1>7, <1>9 DEF Asking, Answering, Expiring, Clicking
  <2>4. CASE y # r
    <3>1. \A p \in Operations :
            /\ Asking(p, y)' => Asking(p, y)
            /\ Answering(p, y)' => op'[p] = op[p]
            /\ Expiring(p, y)' => Expiring(p, y)
            /\ Clicking(p, y)' => op'[p] = op[p]
      BY <2>3, <2>4 DEF Asking, Answering, Expiring
    <3>2. Engaged(y)' /\ Told(y)'
      BY <1>1, <1>3, <2>1, <2>4, <3>1, NoNewSigns, SteadyKeeps
    <3> QED
      BY <2>2, <3>2 DEF Holds
  <2>5. CASE y = r
    <3>1. /\ said[r].times = 0 /\ Upheld(r, {op[o].verdict})
          /\ \A p \in Operations \ {o} : ~Answering(p, r)
      BY <1>1, <1>2, <2>1, <2>5 DEF Engaged
    <3>2. \A S : Upheld(r, S) <=> Upheld(r, S)'
      BY <1>1 DEF Upheld
    <3>3. \A p \in Operations : ~Answering(p, r)'
      BY <2>3, <2>5, <3>1 DEF Answering
    <3>4. \A p \in Operations : /\ Asking(p, r)' => Asking(p, r)
                                /\ Expiring(p, r)' => Expiring(p, r)
      BY <2>3, <2>5 DEF Asking, Expiring
    <3>5. Engaged(r)'
      <4>1. ASSUME NEW p \in Operations
            PROVE  /\ Asking(p, r)' => /\ Upheld(r, {"absent"})'
                                       /\ \A q \in Operations : Asking(q, r)' => q = p
                   /\ Expiring(p, r)' => /\ loaded' /\ mem'[r] = "expired" /\ r \in due'
                                         /\ Upheld(r, Unanswered)'
        BY <1>1, <2>1, <2>5, <3>2, <3>4 DEF Engaged
      <4> QED
        BY <3>3, <4>1 DEF Engaged
    <3>6. Told(r)'
      <4>1. said'[r].times = 1 /\ said'[r].last = op[o].verdict
        BY <1>3, <3>1
      <4>2. (\A s \in Surfaces : \A v \in Signs(s, r) : Backed(r, v))'
        BY <1>1, <2>1, <2>5 DEF Told, Signs, Backed, Upheld
      <4>3. ASSUME NEW p \in Operations, Clicking(p, r)'
            PROVE  Upheld(r, {op[p].button})'
        <5>1. CASE p = o
          BY <1>1, <2>3, <2>5, <3>1, <4>3, <5>1 DEF Upheld
        <5>2. CASE p # o
          <6>1. op'[p] = op[p] /\ Clicking(p, r)
            BY <1>4, <4>3, <5>2 DEF Clicking
          <6> QED
            BY <1>1, <2>1, <2>5, <6>1 DEF Told, Upheld
        <5> QED
          BY <5>1, <5>2
      <4>4. claim'[r].taken => Upheld(r, {claim[r].says})'
        BY <1>1, <2>1, <2>5 DEF Told, Upheld
      <4> QED
        BY <3>1, <3>2, <4>1, <4>2, <4>3, <4>4 DEF Told
    <3> QED
      BY <2>2, <2>5, <3>5, <3>6 DEF Holds
  <2> QED
    BY <2>4, <2>5
<1> QED
  BY <1>5, <1>6 DEF AInv

\* An operation is over: its caller has got an error, or the edit is done or has failed.
\* Only the click of an answer that was taken leaves a claim that is to be true.
LEMMA StopKeeps ==
  ASSUME AInv, NEW o \in Operations, op[o].stage # "writing", op' = [op EXCEPT ![o] = Idle],
         UNCHANGED <<mem, loaded, file, due, message, said, disturbed, begun>>,
         faults' \in 0 .. MaxFaults, claim' \in [Requests -> ClaimRecord],
         \A r \in Requests :
           \/ claim'[r] = claim[r]
           \/ claim'[r].taken => Clicking(o, r) /\ claim'[r].says = op[o].button
  PROVE  AInv'
<1>1. Types /\ Shaped(op[o])
  BY DEF AInv, Types
<1>2. op'[o] = Idle /\ \A p \in Operations \ {o} : op'[p] = op[p]
  BY <1>1, IdleShaped, OpType
<1>3. Types'
  <2>1. op' \in [Operations -> OpRecord] /\ \A p \in Operations : Shaped(op'[p])
    BY <1>1, IdleShaped, OpType
  <2>2. TypeOK'
    BY <1>1, <2>1 DEF Types, TypeOK
  <2>4. \A r \in Requests : Clicking(o, r) => op[o].button \in Verdicts
    BY <1>1 DEF Clicking, Shaped
  <2>5. Spoken'
    BY <1>1, <2>4 DEF Types, Spoken
  <2>6. \A p \in Operations : Shaped(op[p])'
    BY <2>1 DEF Shaped, OpRecord, Contents, Status, Outcomes, Verdicts
  <2> QED
    BY <2>2, <2>5, <2>6 DEF Types
<1>4. ASSUME NEW r \in Requests \ disturbed'
      PROVE  Holds(r)'
  <2>1. Consistent(r) /\ Engaged(r) /\ Told(r)
    BY DEF AInv, Holds
  <2>2. \A p \in Operations :
          /\ Asking(p, r)' => Asking(p, r)
          /\ Answering(p, r)' => op'[p] = op[p]
          /\ Expiring(p, r)' => Expiring(p, r)
          /\ Clicking(p, r)' => op'[p] = op[p]
    BY <1>2, IdleShaped DEF Asking, Answering, Expiring, Clicking
  <2>3. claim'[r] = claim[r] \/ (claim'[r].taken => Upheld(r, {claim[r].says})')
    BY <2>1 DEF Told, Upheld
  <2>4. Engaged(r)' /\ Told(r)'
    BY <1>1, <2>1, <2>2, <2>3, NoNewSigns, SteadyKeeps
  <2>5. Consistent(r)'
    <3>1. Writers' = Writers
      BY <1>2, IdleShaped DEF Writers
    <3>2. \A p \in Operations : op'[p].stage # "idle" => op'[p] = op[p]
      BY <1>2, IdleShaped
    <3>3. \A p \in Operations : op'[p].stage = "read" => op'[p] = op[p]
      BY <1>2, IdleShaped
    <3>4. \A p \in Operations : op'[p].stage \in {"idle", op[p].stage}
      BY <1>2, IdleShaped
    <3> QED
      BY <2>1, <3>1, <3>2, <3>3, <3>4 DEF Consistent
  <2> QED
    BY <2>4, <2>5 DEF Holds
<1> QED
  BY <1>3, <1>4 DEF AInv

\* A write that fails takes the file with it, and every request is disturbed.
LEMMA SaveFailsKeeps ==
  ASSUME AInv, NEW o \in Operations, SaveFails(o)
  PROVE  AInv'
<1>1. /\ Types /\ op' = [op EXCEPT ![o] = Idle] /\ faults' \in 0 .. MaxFaults
      /\ UNCHANGED <<mem, loaded, due, message, said, claim, begun>>
  BY Bounds DEF SaveFails, AInv, Types, TypeOK
<1>2. CASE op[o].stage = "changed" /\ UNCHANGED <<file, disturbed>>
  BY <1>1, <1>2, StopKeeps DEF Types, TypeOK
<1>3. CASE op[o].stage = "writing" /\ file' = Torn /\ disturbed' = Requests
  <2>1. Types'
    BY <1>1, <1>3, IdleShaped, OpKeepsTypes DEF Types, TypeOK
  <2> QED
    BY <1>3, <2>1 DEF AInv
<1> QED
  BY <1>2, <1>3 DEF SaveFails

LEMMA ClickKeeps ==
  ASSUME AInv, NEW o \in Operations,
         InteractionFails(o) \/ \E r \in Requests : UpdateInteraction(o, r)
  PROVE  AInv'
<1>1. Types /\ Shaped(op[o])
  BY DEF AInv, Types
<1>2. CASE InteractionFails(o)
  BY <1>1, <1>2, StopKeeps DEF InteractionFails, Clicked, Shaped, Types, TypeOK
<1>3. ASSUME NEW r \in Requests, UpdateInteraction(o, r)
      PROVE  AInv'
  <2> DEFINE c == [says |-> op[o].button, taken |-> op[o].stage = "taken"]
  <2>1. op[o].kind = "click" /\ op[o].req = {r} /\ op[o].stage \in {"taken", "refused"}
    BY <1>1, <1>3 DEF UpdateInteraction, Clicked, Shaped
  <2>2. c \in ClaimRecord /\ c.says = op[o].button /\ (c.taken => Clicking(o, r))
    BY <1>1, <2>1 DEF Shaped, OpRecord, ClaimRecord, Clicking
  <2>3. claim' = [claim EXCEPT ![r] = c]
    BY <1>3 DEF UpdateInteraction
  <2> HIDE DEF c
  <2>4. /\ claim' \in [Requests -> ClaimRecord] /\ claim'[r] = c
        /\ \A y \in Requests \ {r} : claim'[y] = claim[y]
    BY <1>1, <2>2, <2>3 DEF Types, TypeOK
  <2>5. \A y \in Requests :
          \/ claim'[y] = claim[y]
          \/ claim'[y].taken => Clicking(o, y) /\ claim'[y].says = op[o].button
    BY <2>2, <2>4
  <2> QED
    BY <1>1, <1>3, <2>1, <2>4, <2>5, StopKeeps DEF UpdateInteraction, Types, TypeOK
<1> QED
  BY <1>2, <1>3

-----------------------------------------------------------------------------
(* Surfaces, time, crashes                                                *)

\* Nothing but the messages and the time changes.
LEMMA StoreUntouched ==
  ASSUME AInv, UNCHANGED <<mem, loaded, file, op, said, claim, disturbed, begun, faults>>,
         due' \subseteq Requests, due \subseteq due',
         message' \in [Surfaces -> [Requests -> MessageRecord]],
         \A r \in Requests, s \in Surfaces : Signs(s, r)' \subseteq Signs(s, r)
  PROVE  AInv'
<1>1. Types'
  <2>1. TypeOK'
    BY DEF AInv, Types, TypeOK
  <2>2. Spoken'
    BY DEF AInv, Types, Spoken
  <2>3. \A p \in Operations : Shaped(op[p])'
    BY DEF AInv, Types, Shaped, OpRecord, Contents, Status, Outcomes, Verdicts
  <2> QED
    BY <2>1, <2>2, <2>3 DEF Types
<1>2. ASSUME NEW r \in Requests \ disturbed'
      PROVE  Holds(r)'
  <2>1. Types /\ Consistent(r) /\ Engaged(r) /\ Told(r)
    BY DEF AInv, Holds
  <2>2. Consistent(r)'
    BY <2>1 DEF Consistent, Writers
  <2>3. \A p \in Operations :
          /\ Asking(p, r)' => Asking(p, r)
          /\ Answering(p, r)' => op'[p] = op[p]
          /\ Expiring(p, r)' => Expiring(p, r)
          /\ Clicking(p, r)' => op'[p] = op[p]
    BY DEF Asking, Answering, Expiring, Clicking
  <2>4. \A s \in Surfaces : \A v \in Signs(s, r)' : v \in Signs(s, r) \/ Backed(r, v)'
    OBVIOUS
  <2>5. Engaged(r)' /\ Told(r)'
    BY <2>1, <2>3, <2>4, SteadyKeeps
  <2> QED
    BY <2>2, <2>5 DEF Holds
<1> QED
  BY <1>1, <1>2 DEF AInv

LEMMA TurnKeeps ==
  ASSUME AInv, NEW s \in Surfaces, NEW r \in Requests, NEW k \in MessageRecord, Turn(s, r, k),
         k.edits \union {k.shown} \subseteq Signs(s, r)
  PROVE  AInv'
<1>1. /\ message' \in [Surfaces -> [Requests -> MessageRecord]]
      /\ message'[s][r] = k
      /\ \A z \in Surfaces, y \in Requests : z # s \/ y # r => message'[z][y] = message[z][y]
  BY TurnType DEF AInv
<1>2. ASSUME NEW y \in Requests, NEW z \in Surfaces
      PROVE  Signs(z, y)' \subseteq Signs(z, y)
  <2>1. CASE z = s /\ y = r
    BY <1>1, <2>1 DEF Signs
  <2>2. CASE z # s \/ y # r
    BY <1>1, <2>2 DEF Signs
  <2> QED
    BY <2>1, <2>2
<1>3. UNCHANGED <<mem, loaded, file, op, due, said, claim, disturbed, begun, faults>>
  BY DEF Turn
<1>4. due' \subseteq Requests /\ due \subseteq due'
  BY <1>3 DEF AInv, Types, TypeOK
<1> QED
  BY <1>1, <1>2, <1>3, <1>4, StoreUntouched

LEMMA MessageType ==
  ASSUME Types, NEW s \in Surfaces, NEW r \in Requests
  PROVE  /\ message[s][r] \in MessageRecord
         /\ Signs(s, r) = message[s][r].edits \union {message[s][r].shown}
  BY DEF Types, TypeOK, Signs

LEMMA PostKeeps ==
  ASSUME AInv, NEW s \in Surfaces, NEW r \in Requests, Post(s, r) \/ Refer(s, r)
  PROVE  AInv'
<1>1. PICK p \in {"seen", "none", "live"} : Turn(s, r, [message[s][r] EXCEPT !.post = p])
  <2>1. CASE Post(s, r)
    BY <2>1 DEF Post
  <2>2. CASE Refer(s, r)
    BY <2>2 DEF Refer
  <2> QED
    BY <2>1, <2>2
<1> DEFINE k == [message[s][r] EXCEPT !.post = p]
<1>2. k \in MessageRecord /\ k.edits \union {k.shown} \subseteq Signs(s, r)
  <2>1. /\ message[s][r] \in MessageRecord /\ p \in {"none", "sending", "seen", "live", "lost", "done"}
        /\ Signs(s, r) = message[s][r].edits \union {message[s][r].shown}
    BY MessageType DEF AInv
  <2>2. k \in MessageRecord /\ k.edits = message[s][r].edits /\ k.shown = message[s][r].shown
    BY <2>1, PostType
  <2> QED
    BY <2>1, <2>2
<1> HIDE DEF k
<1>3. Turn(s, r, k)
  BY <1>1 DEF k
<1> QED
  BY <1>2, <1>3, TurnKeeps

\* What an edit shows is what it was started for.
LEMMA EditKeeps ==
  ASSUME AInv, NEW s \in Surfaces, NEW r \in Requests, NEW outcome \in Outcomes,
         Edit(s, r, outcome)
  PROVE  AInv'
<1> DEFINE shows == [message[s][r] EXCEPT !.edits = @ \ {outcome}, !.shown = outcome,
                                          !.post = "done"]
           fails == [message[s][r] EXCEPT !.edits = @ \ {outcome}]
<1>1. /\ message[s][r] \in MessageRecord /\ outcome \in message[s][r].edits
      /\ Signs(s, r) = message[s][r].edits \union {message[s][r].shown}
  BY MessageType DEF AInv, Edit
<1>2. /\ shows \in MessageRecord /\ shows.shown = outcome
      /\ shows.edits = message[s][r].edits \ {outcome}
      /\ fails \in MessageRecord /\ fails.shown = message[s][r].shown
      /\ fails.edits = message[s][r].edits \ {outcome}
  BY <1>1 DEF MessageRecord
<1>3. Turn(s, r, shows) \/ Turn(s, r, fails)
  BY DEF Edit
<1> HIDE DEF shows, fails
<1>4. /\ shows.edits \union {shows.shown} \subseteq Signs(s, r)
      /\ fails.edits \union {fails.shown} \subseteq Signs(s, r)
  BY <1>1, <1>2
<1> QED
  BY <1>2, <1>3, <1>4, TurnKeeps

LEMMA TimeOutKeeps ==
  ASSUME AInv, NEW r \in Requests, TimeOut(r)
  PROVE  AInv'
<1>1. /\ UNCHANGED <<mem, loaded, file, op, message, said, claim, disturbed, begun, faults>>
      /\ due' = due \union {r}
  BY DEF TimeOut
<1>2. /\ due' \subseteq Requests /\ due \subseteq due'
      /\ message' \in [Surfaces -> [Requests -> MessageRecord]]
  BY <1>1 DEF AInv, Types, TypeOK
<1>3. \A y \in Requests, s \in Surfaces : Signs(s, y)' \subseteq Signs(s, y)
  BY <1>1 DEF Signs
<1> QED
  BY <1>1, <1>2, <1>3, StoreUntouched

\* After a restart the file is all there is: what was decided is in it.
LEMMA CrashKeeps ==
  ASSUME AInv, Crash
  PROVE  AInv'
<1>1. /\ Types /\ mem' = Empty /\ loaded' = FALSE /\ op' = [o \in Operations |-> Idle]
      /\ disturbed' = IF file = Torn THEN Requests ELSE disturbed
      /\ UNCHANGED <<file, due, said, claim, begun>> /\ faults < MaxFaults /\ faults' = faults + 1
  BY DEF Crash, AInv
<1>2. /\ message' \in [Surfaces -> [Requests -> MessageRecord]]
      /\ \A r \in Requests, s \in Surfaces : Signs(s, r)' \subseteq Signs(s, r)
  <2>1. ASSUME NEW s \in Surfaces, NEW r \in Requests
        PROVE  message'[s][r] \in MessageRecord /\ Signs(s, r)' \subseteq Signs(s, r)
    <3> DEFINE p == IF message[s][r].post \in {"none", "done"} THEN message[s][r].post ELSE "lost"
               k == [message[s][r] EXCEPT !.post = p, !.edits = {}]
    <3>1. message'[s][r] = k
      BY <1>1, MessageType DEF Crash, MessageRecord
    <3>2. p \in {"none", "done", "lost"}
      OBVIOUS
    <3> HIDE DEF p
    <3>3. k \in MessageRecord /\ k.edits = {} /\ k.shown = message[s][r].shown
      BY <1>1, <3>2, MessageType DEF MessageRecord
    <3> QED
      BY <3>1, <3>3 DEF Signs
  <2> QED
    BY <2>1 DEF Crash
<1>3. /\ op' \in [Operations -> OpRecord]
      /\ \A o \in Operations : op'[o] = Idle /\ Shaped(op'[o])
  BY <1>1, IdleShaped DEF Shaped
<1>4. Types'
  <2>1. faults' \in 0 .. MaxFaults
    BY <1>1, Bounds DEF Types, TypeOK
  <2>2. TypeOK'
    BY <1>1, <1>2, <1>3, <2>1, EmptyType DEF Types, TypeOK
  <2>3. Spoken'
    BY <1>1 DEF Types, Spoken
  <2>4. \A o \in Operations : Shaped(op[o])'
    BY <1>3 DEF Shaped, OpRecord, Contents, Status, Outcomes, Verdicts
  <2> QED
    BY <2>2, <2>3, <2>4 DEF Types
<1>5. ASSUME NEW r \in Requests \ disturbed'
      PROVE  Holds(r)'
  <2>1. /\ file # Torn /\ Consistent(r) /\ Engaged(r) /\ Told(r)
        /\ mem'[r] = "absent"
    BY <1>1, EmptyType DEF AInv, Holds
  <2>2. \A S : Upheld(r, S) => Upheld(r, S)'
    BY <1>1 DEF Upheld
  <2>3. Kept(r)
    BY <1>1, <2>2 DEF Kept
  <2>4. Consistent(r)'
    BY <1>1, <1>3, <2>1, IdleShaped DEF Consistent
  <2>5. Engaged(r)'
    BY <1>3, IdleShaped DEF Engaged, Asking, Answering, Expiring
  <2>6. Told(r)'
    <3>1. \A s \in Surfaces : \A v \in Signs(s, r)' : v \in Signs(s, r) \/ Backed(r, v)'
      BY <1>2
    <3>2. \A o \in Operations : ~Clicking(o, r)'
      BY <1>3, IdleShaped DEF Clicking
    <3> QED
      BY <1>1, <2>1, <2>3, <3>1, <3>2, ToldStill
  <2> QED
    BY <2>4, <2>5, <2>6 DEF Holds
<1> QED
  BY <1>4, <1>5 DEF AInv

-----------------------------------------------------------------------------
(* The invariant, and what follows from it                                 *)

LEMMA InitHolds ==
  ASSUME Init
  PROVE  AInv
<1>1. /\ op \in [Operations -> OpRecord]
      /\ \A o \in Operations : op[o] = Idle /\ Shaped(op[o])
  BY IdleShaped DEF Init, Shaped
<1>2. /\ message \in [Surfaces -> [Requests -> MessageRecord]]
      /\ \A s \in Surfaces, r \in Requests : Signs(s, r) = {"none"}
  <2>1. Unsent \in MessageRecord /\ Unsent.edits = {} /\ Unsent.shown = "none"
    BY DEF Unsent, MessageRecord
  <2> QED
    BY <2>1 DEF Init, Signs
<1>3. TypeOK
  <2>1. said \in [Requests -> [last : Verdicts \union {"none"}, times : 0 .. 2]]
    BY DEF Init
  <2>2. begun \in 0 .. MaxBegun /\ faults \in 0 .. MaxFaults
    BY Bounds DEF Init
  <2>3. claim \in [Requests -> ClaimRecord]
    BY DEF Init, Unclaimed, ClaimRecord
  <2> QED
    BY <1>1, <1>2, <2>1, <2>2, <2>3, EmptyType DEF Init, TypeOK
<1>4. Types
  <2>1. Spoken
    BY DEF Spoken, Init, Unclaimed
  <2> QED
    BY <1>1, <1>3, <2>1 DEF Types
<1>5. ASSUME NEW r \in Requests
      PROVE  Holds(r)
  <2>1. loaded = FALSE /\ mem[r] = "absent" /\ file # Torn
    BY EmptyType DEF Init
  <2>2. Consistent(r)
    BY <1>1, <2>1, IdleShaped DEF Consistent
  <2>3. Engaged(r)
    BY <1>1, IdleShaped DEF Engaged, Asking, Answering, Expiring
  <2>4. Told(r)
    <3>1. ~claim[r].taken
      BY DEF Init, Unclaimed
    <3>2. \A o \in Operations : ~Clicking(o, r)
      BY <1>1, IdleShaped DEF Clicking
    <3> QED
      BY <1>2, <3>1, <3>2 DEF Init, Told, Backed, Verdicts
  <2> QED
    BY <2>2, <2>3, <2>4 DEF Holds
<1> QED
  BY <1>4, <1>5 DEF AInv

LEMMA StoreNextKeeps ==
  ASSUME AInv, NEW o \in Operations, StoreNext(o)
  PROVE  AInv'
<1>1. CASE StartExpiry(o)
  BY <1>1, BeginKeeps DEF StartExpiry
<1>2. CASE ExpirePending(o)
  BY <1>2, ExpirePendingKeeps
<1>3. CASE SaveExpired(o)
  BY <1>3, SaveExpiredKeeps
<1>4. CASE Save(o)
  BY <1>4, SaveKeeps
<1>5. CASE EndWrite(o)
  BY <1>5, EndWriteKeeps
<1>7. CASE SaveFails(o)
  BY <1>7, SaveFailsKeeps
<1>8. CASE InteractionFails(o)
  BY <1>8, ClickKeeps
<1>6. ASSUME NEW r \in Requests,
             \/ RequestApproval(o, r) \/ AddRequest(o, r)
             \/ HandleResponse(o, r) \/ ShowExpired(o, r) \/ Announce(o, r)
             \/ UpdateInteraction(o, r)
             \/ \E v \in Verdicts : \/ Respond(o, r, v)
                                    \/ HandleInteraction(o, r, v)
                                    \/ HandleButtonInteraction(o, r, v)
      PROVE  AInv'
  <2>1. CASE RequestApproval(o, r)
    BY <2>1, BeginKeeps DEF RequestApproval
  <2>2. CASE AddRequest(o, r)
    BY <2>2, AddRequestKeeps
  <2>3. CASE HandleResponse(o, r)
    BY <2>3, HandleResponseKeeps
  <2>4. CASE ShowExpired(o, r)
    BY <2>4, ShowExpiredKeeps
  <2>5. CASE Announce(o, r)
    BY <2>5, AnnounceKeeps
  <2>6. ASSUME NEW v \in Verdicts,
               Respond(o, r, v) \/ HandleInteraction(o, r, v) \/ HandleButtonInteraction(o, r, v)
        PROVE  AInv'
    BY <2>6, BeginKeeps DEF Respond, HandleInteraction, HandleButtonInteraction
  <2>7. CASE UpdateInteraction(o, r)
    BY <2>7, ClickKeeps
  <2> QED
    BY <1>6, <2>1, <2>2, <2>3, <2>4, <2>5, <2>6, <2>7
<1> QED
  BY <1>1, <1>2, <1>3, <1>4, <1>5, <1>6, <1>7, <1>8 DEF StoreNext

LEMMA SurfaceNextKeeps ==
  ASSUME AInv, NEW r \in Requests, SurfaceNext(r)
  PROVE  AInv'
<1>1. "discord" \in Surfaces /\ "slack" \in Surfaces
  BY DEF Surfaces
<1>2. CASE SendEmbed(r) \/ SendBlocks(r) \/ StoreMessageId(r) \/ StoreMessageTs(r)
  BY <1>1, <1>2, PostKeeps DEF SendEmbed, SendBlocks, StoreMessageId, StoreMessageTs
<1>3. ASSUME NEW outcome \in Outcomes, EditMessage(r, outcome) \/ UpdateMessage(r, outcome)
      PROVE  AInv'
  BY <1>1, <1>3, EditKeeps DEF EditMessage, UpdateMessage
<1> QED
  BY <1>2, <1>3 DEF SurfaceNext

LEMMA NextKeeps ==
  ASSUME AInv, [Next]_vars
  PROVE  AInv'
<1>1. CASE \E o \in Operations : StoreNext(o)
  BY <1>1, StoreNextKeeps
<1>2. CASE \E r \in Requests : SurfaceNext(r) \/ TimeOut(r)
  BY <1>2, SurfaceNextKeeps, TimeOutKeeps
<1>3. CASE Crash
  BY <1>3, CrashKeeps
<1>4. CASE UNCHANGED vars
  <2>1. due' \subseteq Requests /\ due \subseteq due'
        /\ message' \in [Surfaces -> [Requests -> MessageRecord]]
        /\ UNCHANGED <<mem, loaded, file, op, said, claim, disturbed, begun, faults, message>>
    BY <1>4 DEF vars, AInv, Types, TypeOK
  <2>2. \A r \in Requests, s \in Surfaces : Signs(s, r)' \subseteq Signs(s, r)
    BY <2>1 DEF Signs
  <2> QED
    BY <2>1, <2>2, StoreUntouched
<1> QED
  BY <1>1, <1>2, <1>3, <1>4 DEF Next

LEMMA AlwaysHolds == Spec => []AInv
  BY InitHolds, NextKeeps, PTL DEF Spec

\* What the map and the file hold of an undisturbed request is on file in the end.
LEMMA UpheldOnFile ==
  ASSUME AInv, NEW r \in Undisturbed, NEW S, Upheld(r, S)
  PROVE  OnFile(r, S)
<1>1. Consistent(r) /\ r \in Requests
  BY DEF AInv, Undisturbed, Holds
<1>2. CASE Writers = {}
  BY <1>1, <1>2 DEF OnFile, Consistent, Upheld
<1>3. CASE Writers # {}
  <2>1. ASSUME NEW w \in Writers
        PROVE  op[w].data[r] \in S
    <3>1. loaded
      BY <1>1, <2>1 DEF Consistent, Writers
    <3> QED
      BY <3>1 DEF Undisturbed, Upheld
  <2> QED
    BY <1>3, <2>1 DEF OnFile
<1> QED
  BY <1>2, <1>3

\* Every variable of the store keeps its type, and no bound is exceeded.
THEOREM StoreTyped == Spec => []TypeOK
<1>1. AInv => TypeOK
  BY DEF AInv, Types
<1> QED
  BY <1>1, AlwaysHolds, PTL

\* handleResponse emits approval.resolved once for a request, whoever answers it
\* and from however many surfaces, across restarts and while its time runs out,
\* unless the file was read or written over a newer state of it.
THEOREM OneVerdictEach == Spec => []OneVerdict
<1>1. AInv => OneVerdict
  BY DEF AInv, Holds, Told, OneVerdict, Undisturbed
<1> QED
  BY <1>1, AlwaysHolds, PTL

\* When handleResponse emits approval.resolved, save() has put the answer on file,
\* where every later write and every restart leave it.
THEOREM AnnouncedStaysOnFile == Spec => []AnnouncedIsOnFile
<1>1. ASSUME AInv
      PROVE  AnnouncedIsOnFile
  <2>1. ASSUME NEW r \in Undisturbed, said[r].times > 0
        PROVE  Upheld(r, {said[r].last})
    BY <1>1, <2>1 DEF AInv, Holds, Told, Undisturbed
  <2> QED
    BY <1>1, <2>1, UpheldOnFile DEF AnnouncedIsOnFile
<1> QED
  BY <1>1, AlwaysHolds, PTL

\* sendUpdate makes a Discord embed or a Slack message say Approved or Rejected only
\* when the file does, and Expired only of a request that is over and was not answered;
\* and an answer that was taken is on file when the Discord handler calls it recorded.
\* Of a refused answer nothing is said: that handler calls it recorded too.
THEOREM ShownIsTrue == Spec => []ShownHolds
<1>1. ASSUME AInv
      PROVE  ShownHolds
  <2>1. ASSUME NEW r \in Undisturbed, NEW s \in Surfaces
        PROVE  /\ message[s][r].shown \in Verdicts => Upheld(r, {message[s][r].shown})
               /\ message[s][r].shown = "expired" => r \in due /\ Upheld(r, Unanswered)
    <3>1. Backed(r, message[s][r].shown)
      BY <1>1, <2>1 DEF AInv, Holds, Told, Undisturbed, Signs
    <3> QED
      BY <3>1 DEF Backed
  <2>2. \A r \in Undisturbed : claim[r].taken => Upheld(r, {claim[r].says})
    BY <1>1 DEF AInv, Holds, Told, Undisturbed
  <2> QED
    BY <1>1, <2>1, <2>2, UpheldOnFile DEF ShownHolds, Unanswered
<1> QED
  BY <1>1, AlwaysHolds, PTL
-----------------------------------------------------------------------------
(* What disturbs a request                                                 *)

\* Map and file for operation o while no other runs beside it, no crash cuts a write
\* short and no save fails: they agree, but for a change that o is about to write.
Serial(o) ==
  /\ op[o].stage \in {"idle", "read", "taken", "refused"} => file # Torn /\ (loaded => mem = file)
  /\ op[o].stage = "read" => op[o].data = file
  /\ op[o].stage = "changed" => file # Torn /\ loaded
  /\ op[o].stage = "writing" => op[o].data = mem /\ ~op[o].mixed /\ loaded
  /\ op[o].stage = "updating" => file # Torn /\ loaded /\ (op[o].kind = "respond" => mem = file)

DInv ==
  /\ disturbed = {}
  /\ Operations = {} => file # Torn
  /\ \A o \in Operations : Serial(o)

LEMMA WholeIsNotTorn ==
  ASSUME Requests # {}, NEW contents \in Contents
  PROVE  contents # Torn
<1>1. PICK r \in Requests : TRUE
  OBVIOUS
<1>2. contents[r] \in Status /\ Torn[r] = "torn"
  BY EmptyType DEF Contents
<1> QED
  BY <1>2 DEF Status, Outcomes, Verdicts

LEMMA StoreStepSerial ==
  ASSUME Requests # {}, Types, NEW o \in Operations, Serial(o), \A p \in Operations : p = o,
         disturbed = {}, StoreNext(o), ~SaveFails(o)
  PROVE  Serial(o)' /\ disturbed' = {}
<1> DEFINE k == op[o]
<1>1. /\ op \in [Operations -> OpRecord] /\ k \in OpRecord /\ Shaped(k) /\ k.data \in Contents
      /\ mem \in Contents /\ loaded \in BOOLEAN /\ DOMAIN mem = Requests
  BY DEF Types, TypeOK, OpRecord, Contents
\* load() without and with a change finds the map as it was read.
<1>2. ASSUME NEW change, Load(o, change), k.stage = "read"
      PROVE  /\ disturbed' = {} /\ loaded'
             /\ (\A r \in Requests : r \notin DOMAIN change) => mem' = file
  <2>1. k.data = file /\ (loaded => mem = file) /\ file \in Contents
    BY <1>1, <1>2 DEF Serial
  <2>2. disturbed' = {}
    BY <1>2, <2>1 DEF Load
  <2>3. ASSUME \A r \in Requests : r \notin DOMAIN change
        PROVE  mem' = file
    <3>1. mem' = [r \in Requests |-> file[r]]
      BY <1>2, <2>1, <2>3 DEF Load
    <3> QED
      BY <2>1, <3>1 DEF Contents
  <2> QED
    BY <1>2, <2>2, <2>3 DEF Load
<1>3. ASSUME NEW q, op' = [op EXCEPT ![o] = q]
      PROVE  op'[o] = q
  BY <1>1, <1>3
<1>4. ASSUME NEW kind, NEW S, NEW v, NEW button, Begin(o, kind, S, v, button)
      PROVE  Serial(o)' /\ disturbed' = {}
  <2>1. k.stage = "idle" /\ file # Torn /\ (loaded => mem = file) /\ UNCHANGED <<mem, loaded, file, disturbed>>
    BY <1>4 DEF Begin, Serial
  <2>2. op'[o].stage = "read" /\ op'[o].data = file
    BY <1>1, <1>4, <2>1 DEF Begin, Parsed
  <2> QED
    BY <2>1, <2>2 DEF Serial
<1>5. CASE StartExpiry(o)
  BY <1>4, <1>5 DEF StartExpiry
<1>6. ASSUME NEW r \in Requests,
             \/ RequestApproval(o, r)
             \/ \E v \in Verdicts : \/ Respond(o, r, v) \/ HandleInteraction(o, r, v)
                                    \/ HandleButtonInteraction(o, r, v)
      PROVE  Serial(o)' /\ disturbed' = {}
  BY <1>4, <1>6 DEF RequestApproval, Respond, HandleInteraction, HandleButtonInteraction
<1>7. CASE ExpirePending(o)
  <2>1. k.stage = "read" /\ k.kind = "expire" /\ UNCHANGED file /\ file # Torn
    BY <1>7 DEF ExpirePending, Serial
  <2>2. /\ disturbed' = {} /\ loaded'
        /\ Expired(o) = {} => mem' = file
    <3>1. Load(o, [r \in Expired(o) |-> "expired"])
      BY <1>7 DEF ExpirePending
    <3> QED
      BY <1>2, <2>1, <3>1
  <2>3. CASE Expired(o) = {}
    <3>1. op'[o] = Idle
      BY <1>1, <1>7, <2>3 DEF ExpirePending
    <3> QED
      BY <2>1, <2>2, <2>3, <3>1, IdleShaped DEF Serial
  <2>4. CASE Expired(o) # {}
    <3>1. op'[o] = [k EXCEPT !.stage = "updating", !.req = Expired(o)]
      BY <1>1, <1>7, <2>4 DEF ExpirePending
    <3>2. op'[o].stage = "updating" /\ op'[o].kind = "expire"
      BY <1>1, <2>1, <3>1 DEF OpRecord
    <3> QED
      BY <2>1, <2>2, <3>2 DEF Serial
  <2> QED
    BY <2>3, <2>4
<1>8. CASE SaveExpired(o)
  <2>1. k.stage = "updating" /\ UNCHANGED <<mem, loaded, file, disturbed>> /\ file # Torn /\ loaded
    BY <1>8 DEF SaveExpired, Serial
  <2>2. op'[o].stage = "changed"
    BY <1>1, <1>8 DEF SaveExpired, OpRecord
  <2> QED
    BY <2>1, <2>2 DEF Serial
<1>9. CASE Save(o)
  <2>1. k.stage = "changed" /\ UNCHANGED <<mem, loaded, disturbed>> /\ loaded
    BY <1>9 DEF Save, Serial
  <2>2. Writers = {}
    BY <2>1 DEF Writers
  <2>3. op'[o].stage = "writing" /\ op'[o].data = mem /\ ~op'[o].mixed
    BY <1>1, <1>9, <2>2 DEF Save, OpRecord
  <2> QED
    BY <2>1, <2>3 DEF Serial
<1>10. CASE EndWrite(o)
  <2>1. k.stage = "writing" /\ UNCHANGED <<mem, loaded>> /\ k.data = mem /\ ~k.mixed /\ loaded
    BY <1>10 DEF EndWrite, Serial
  <2>2. file' = mem /\ disturbed' = {}
    BY <1>10, <2>1 DEF EndWrite, Written
  <2>3. mem # Torn
    BY <1>1, WholeIsNotTorn
  <2>4. op'[o].stage \in {"idle", "updating", "refused"}
    <3>1. op' = [op EXCEPT ![o] = Returned(@, "refused")] => op'[o].stage \in {"idle", "refused"}
      BY <1>1, ReturnedShaped
    <3> QED
      BY <1>1, <1>10, <3>1, IdleShaped DEF EndWrite, OpRecord
  <2> QED
    BY <2>1, <2>2, <2>3, <2>4 DEF Serial
<1>11. ASSUME NEW r \in Requests, AddRequest(o, r)
       PROVE  Serial(o)' /\ disturbed' = {}
  <2>1. k.stage = "read" /\ UNCHANGED file /\ file # Torn
    BY <1>11 DEF AddRequest, Serial
  <2>2. disturbed' = {} /\ loaded'
    BY <1>2, <1>11, <2>1 DEF AddRequest
  <2>3. op'[o].stage = "changed"
    BY <1>1, <1>11 DEF AddRequest, OpRecord
  <2> QED
    BY <2>1, <2>2, <2>3 DEF Serial
<1>12. ASSUME NEW r \in Requests, HandleResponse(o, r)
       PROVE  Serial(o)' /\ disturbed' = {}
  <2>1. k.stage = "read" /\ UNCHANGED file /\ file # Torn
    BY <1>12 DEF HandleResponse, Serial
  <2>2. ASSUME NEW status, UpdateStatus(o, r, status)
        PROVE  Serial(o)' /\ disturbed' = {}
    <3>1. disturbed' = {} /\ loaded'
      BY <1>2, <2>1, <2>2 DEF UpdateStatus
    <3>2. op'[o].stage = "changed"
      BY <1>1, <2>2 DEF UpdateStatus, OpRecord
    <3> QED
      BY <2>1, <3>1, <3>2 DEF Serial
  <2>3. ASSUME Load(o, << >>), op' = [op EXCEPT ![o] = Returned(@, "refused")]
        PROVE  Serial(o)' /\ disturbed' = {}
    <3>1. disturbed' = {} /\ mem' = file
      BY <1>2, <2>1, <2>3, NoChange
    <3>2. op'[o].stage \in {"idle", "refused"}
      BY <1>1, <2>3, ReturnedShaped
    <3> QED
      BY <2>1, <3>1, <3>2 DEF Serial
  <2> QED
    BY <1>12, <2>2, <2>3 DEF HandleResponse
<1>13. ASSUME NEW r \in Requests, ShowExpired(o, r)
       PROVE  Serial(o)' /\ disturbed' = {}
  <2>1. /\ k.stage = "updating" /\ k.kind = "expire" /\ UNCHANGED <<mem, loaded, file, disturbed>>
        /\ file # Torn /\ loaded
    BY <1>13 DEF ShowExpired, Serial
  <2>2. op'[o].stage = "updating" /\ op'[o].kind = "expire"
    BY <1>1, <1>13, <2>1 DEF ShowExpired, OpRecord
  <2> QED
    BY <2>1, <2>2 DEF Serial
<1>14. ASSUME NEW r \in Requests, Announce(o, r)
       PROVE  Serial(o)' /\ disturbed' = {}
  <2>1. k.stage = "updating" /\ k.kind = "respond" /\ UNCHANGED <<mem, loaded, file, disturbed>>
    BY <1>14 DEF Announce
  <2>2. file # Torn /\ mem = file
    BY <2>1 DEF Serial
  <2>3. op'[o].stage \in {"idle", "taken"}
    BY <1>1, <1>14, ReturnedShaped DEF Announce
  <2> QED
    BY <2>1, <2>2, <2>3 DEF Serial
<1>15. CASE InteractionFails(o) \/ \E r \in Requests : UpdateInteraction(o, r)
  <2>1. /\ k.stage \in {"taken", "refused"} /\ UNCHANGED <<mem, loaded, file, disturbed>>
        /\ op' = [op EXCEPT ![o] = Idle]
    BY <1>1, <1>15 DEF InteractionFails, UpdateInteraction, Clicked, Shaped
  <2>2. op'[o].stage = "idle"
    BY <1>1, <2>1, IdleShaped
  <2> QED
    BY <2>1, <2>2 DEF Serial
<1> QED
  BY <1>5, <1>6, <1>7, <1>8, <1>9, <1>10, <1>11, <1>12, <1>13, <1>14, <1>15 DEF StoreNext

LEMMA InitDInv == Requests # {} /\ Init => DInv
<1> SUFFICES ASSUME Requests # {}, Init
             PROVE  DInv
  OBVIOUS
<1>1. file # Torn
  BY EmptyType, WholeIsNotTorn DEF Init
<1>2. \A o \in Operations : op[o].stage = "idle"
  BY IdleShaped DEF Init
<1> QED
  BY <1>1, <1>2 DEF Init, DInv, Serial

LEMMA NextDInv ==
  ASSUME Requests # {}, \A o, p \in Operations : o = p,
         Types, DInv, [Next]_vars, [Crash => file # Torn]_vars,
         [\A o \in Operations : ~SaveFails(o)]_vars
  PROVE  DInv'
<1>1. CASE UNCHANGED <<mem, loaded, file, op, disturbed>>
  BY <1>1 DEF DInv, Serial
<1>2. ASSUME NEW o \in Operations, StoreNext(o), ~UNCHANGED vars
      PROVE  DInv'
  <2>1. Serial(o)' /\ disturbed' = {}
    BY <1>2, StoreStepSerial DEF DInv
  <2>2. \A p \in Operations : p = o
    OBVIOUS
  <2> QED
    BY <2>1, <2>2 DEF DInv
<1>3. ASSUME NEW r \in Requests, SurfaceNext(r) \/ TimeOut(r)
      PROVE  DInv'
  BY <1>1, <1>3 DEF SurfaceNext, TimeOut, SendEmbed, SendBlocks, StoreMessageId, StoreMessageTs,
                    EditMessage, UpdateMessage, Post, Refer, Edit, Turn
<1>4. CASE UNCHANGED vars
  BY <1>1, <1>4 DEF vars
<1>5. CASE Crash /\ ~UNCHANGED vars
  <2>1. file # Torn /\ UNCHANGED file /\ disturbed' = {} /\ ~loaded'
    BY <1>5 DEF Crash, DInv
  <2>2. \A o \in Operations : op'[o].stage = "idle"
    BY <1>5, IdleShaped DEF Crash
  <2> QED
    BY <2>1, <2>2 DEF DInv, Serial
<1> QED
  BY <1>2, <1>3, <1>4, <1>5 DEF Next

\* What the three properties except is caused by the reloads of the shared map and
\* by nothing else: while operations do not overlap, no crash cuts a write short
\* and no save fails, no request is disturbed, however often the manager starts again,
\* and each of them is among those the properties speak of.
THEOREM OnlyRacesDisturb ==
  ASSUME \A o, p \in Operations : o = p
  PROVE  Spec /\ [][Crash => file # Torn]_vars /\ [][\A o \in Operations : ~SaveFails(o)]_vars
           => [](Undisturbed = Requests)
<1>1. CASE Requests = {}
  <2>1. Undisturbed = Requests
    BY <1>1 DEF Undisturbed
  <2> QED
    BY <2>1, PTL
<1>2. CASE Requests # {}
  <2>1. Init => DInv
    BY <1>2, InitDInv
  <2>2. AInv /\ DInv /\ [Next]_vars /\ [Crash => file # Torn]_vars
          /\ [\A o \in Operations : ~SaveFails(o)]_vars => DInv'
    BY <1>2, NextDInv DEF AInv
  <2>3. DInv => Undisturbed = Requests
    BY DEF DInv, Serial, Undisturbed, Writers
  <2> QED
    BY <2>1, <2>2, <2>3, AlwaysHolds, PTL DEF Spec
<1> QED
  BY <1>1, <1>2
================================================================================
