------------------------------ MODULE NodesProofs ------------------------------
(***************************************************************************)
(* Proofs about Nodes for any users, sockets, codes, calls and limits, and *)
(* for both values of Shared and Routed.                                   *)
(*                                                                         *)
(* The invariant falls in two halves: WaitInv is about the requests,       *)
(* NodeInv about nodes, codes and counts. Most actions change one half     *)
(* only. NoneWaitsOffline relates the two.                                 *)
(***************************************************************************)
EXTENDS Nodes, FiniteSetTheorems, TLAPS

Call == [stage : Stages, node : Ids \union {0}, tries : 0 .. MaxRetries]

\* A call that has begun names a node.
Aimed == \A o \in Calls : call[o].stage # "idle" => call[o].node \in Ids

WaitInv ==
  /\ call \in [Calls -> Call]
  /\ pending \subseteq Calls
  /\ WaitersTracked
  /\ Aimed

NodeInv ==
  /\ codes \in [Codes -> Users \union {"unused", "gone"}]
  /\ node \in [Ids -> NodeRecord]
  /\ counts \in [Users -> Nat]
  /\ CountsAgree

IInv ==
  /\ socket \in [Sockets -> {"new", "open", "gone"}]
  /\ sweeping \in BOOLEAN
  /\ WaitInv
  /\ NodeInv
  /\ NoneWaitsOffline

-----------------------------------------------------------------------------
(* Calls and requests                                                      *)

\* An attempt that failed is followed by a sleep or by the end of the call.
LEMMA FailedRests ==
  ASSUME NEW k \in Call, NEW retryable \in BOOLEAN
  PROVE  /\ Failed(k, retryable) \in Call
         /\ Failed(k, retryable).stage \in {"resting", "failed"}
         /\ Failed(k, retryable).node = k.node
<1>1. MaxRetries \in Nat
  BY BoundsType
<1>2. k.stage \in Stages /\ k.tries \in 0 .. MaxRetries
  BY DEF Call
<1>3. CASE retryable /\ k.tries < MaxRetries
  <2>1. Failed(k, retryable) = [k EXCEPT !.stage = "resting", !.tries = @ + 1]
    BY <1>3 DEF Failed, Rest
  <2>2. k.tries + 1 \in 0 .. MaxRetries
    BY <1>1, <1>2, <1>3
  <2> QED
    BY <2>1, <2>2 DEF Call, Stages
<1>4. CASE ~(retryable /\ k.tries < MaxRetries)
  <2>1. Failed(k, retryable) = [k EXCEPT !.stage = "failed"]
    BY <1>4 DEF Failed
  <2> QED
    BY <2>1 DEF Call, Stages
<1> QED
  BY <1>3, <1>4

\* Rejected requests leave both maps together.
LEMMA RejectKeeps ==
  ASSUME WaitInv, NEW C \in SUBSET pending, NEW retryable \in BOOLEAN, Reject(C, retryable)
  PROVE  /\ WaitInv'
         /\ pending' = pending \ C
         /\ \A o \in pending' : call'[o] = call[o]
<1>1. \A o \in C : o \in Calls /\ call[o] \in Call /\ call[o].stage = "waiting"
  BY DEF WaitInv, WaitersTracked
<1>2. \A o \in C : /\ call'[o] = Failed(call[o], retryable)
                   /\ call'[o] \in Call /\ call'[o].stage \in {"resting", "failed"}
                   /\ call'[o].node = call[o].node
  BY <1>1, FailedRests DEF Reject
<1>3. \A o \in Calls \ C : call'[o] = call[o]
  BY DEF Reject
<1>4. call' \in [Calls -> Call]
  BY <1>2, <1>3 DEF Reject, WaitInv
<1>5. pending' = pending \ C /\ stamped' = pending'
  BY DEF Reject, WaitInv, WaitersTracked
<1>6. pending' = {o \in Calls : call'[o].stage = "waiting"}
  BY <1>2, <1>3, <1>5 DEF WaitInv, WaitersTracked
<1>7. Aimed'
  BY <1>1, <1>2, <1>3 DEF WaitInv, Aimed
<1> QED
  BY <1>3, <1>4, <1>5, <1>6, <1>7 DEF WaitInv, WaitersTracked

\* A request is sent for a paired node only, and enters both maps.
LEMMA SendKeeps ==
  ASSUME WaitInv, NEW o \in Calls, NEW k \in Call, k.node \in Ids,
         call[o].stage # "waiting", SendAndWait(o, k)
  PROVE  /\ WaitInv'
         /\ \A c \in pending' : \/ c \in pending /\ call'[c] = call[c]
                                \/ Paired(call'[c].node)
<1>1. o \notin pending
  BY DEF WaitInv, WaitersTracked
<1>2. CASE CreatePendingRequest(o, k) /\ Paired(k.node)
  <2> DEFINE sent == [k EXCEPT !.stage = "waiting"]
  <2>1. sent \in Call /\ sent.stage = "waiting" /\ sent.node = k.node
    BY DEF Call, Stages
  <2>2. call' = [call EXCEPT ![o] = sent]
    BY <1>2 DEF CreatePendingRequest
  <2>3. call' \in [Calls -> Call] /\ call'[o] = sent
        /\ \A c \in Calls \ {o} : call'[c] = call[c]
    BY <2>1, <2>2 DEF WaitInv
  <2>4. pending' = pending \union {o} /\ stamped' = pending'
    BY <1>2 DEF CreatePendingRequest, WaitInv, WaitersTracked
  <2>5. pending' = {c \in Calls : call'[c].stage = "waiting"}
    BY <2>1, <2>3, <2>4 DEF WaitInv, WaitersTracked
  <2>6. Aimed'
    BY <2>1, <2>3 DEF WaitInv, Aimed
  <2> QED
    BY <1>1, <1>2, <2>1, <2>3, <2>4, <2>5, <2>6 DEF WaitInv, WaitersTracked
<1>3. CASE \E retryable \in BOOLEAN : AttemptFails(o, k, retryable)
  <2> PICK retryable \in BOOLEAN : AttemptFails(o, k, retryable)
    BY <1>3
  <2>1. /\ Failed(k, retryable) \in Call
        /\ Failed(k, retryable).stage \in {"resting", "failed"}
        /\ Failed(k, retryable).node \in Ids
    BY FailedRests
  <2>2. call' = [call EXCEPT ![o] = Failed(k, retryable)] /\ pending' = pending
        /\ stamped' = stamped
    BY DEF AttemptFails
  <2>3. call' \in [Calls -> Call] /\ call'[o] = Failed(k, retryable)
        /\ \A c \in Calls \ {o} : call'[c] = call[c]
    BY <2>1, <2>2 DEF WaitInv
  <2>4. pending' = {c \in Calls : call'[c].stage = "waiting"}
    BY <1>1, <2>1, <2>2, <2>3 DEF WaitInv, WaitersTracked
  <2>5. Aimed'
    BY <2>1, <2>3 DEF WaitInv, Aimed
  <2> QED
    BY <1>1, <2>2, <2>3, <2>4, <2>5 DEF WaitInv, WaitersTracked
<1> QED
  BY <1>2, <1>3 DEF SendAndWait

LEMMA BeginKeeps ==
  ASSUME WaitInv, NEW o \in Calls, NEW targets \in SUBSET Ids, Begin(o, targets)
  PROVE  /\ WaitInv'
         /\ \A c \in pending' : \/ c \in pending /\ call'[c] = call[c]
                                \/ Paired(call'[c].node)
<1> PICK n \in targets : SendAndWait(o, [call[o] EXCEPT !.node = n])
  BY DEF Begin
<1> DEFINE k == [call[o] EXCEPT !.node = n]
<1>1. k \in Call /\ k.node \in Ids /\ call[o].stage # "waiting"
  BY DEF Begin, WaitInv, Call
<1>2. SendAndWait(o, k)
  OBVIOUS
<1> HIDE DEF k
<1> QED
  BY <1>1, <1>2, SendKeeps

\* An answer ends the wait, or makes the call rest or fail.
LEMMA ResponseKeeps ==
  ASSUME WaitInv, NEW o \in Calls, HandleNodeResponse(o)
  PROVE  /\ WaitInv'
         /\ \A c \in pending' : c \in pending /\ call'[c] = call[c]
<1>1. call[o] \in Call /\ call[o].stage = "waiting" /\ call[o].node \in Ids
  BY DEF HandleNodeResponse, WaitInv, WaitersTracked, Aimed
<1>2. \E k \in Call : /\ call' = [call EXCEPT ![o] = k]
                      /\ k.stage # "waiting" /\ k.node = call[o].node
  <2>1. CASE call' = [call EXCEPT ![o].stage = "ok"]
    <3> DEFINE k == [call[o] EXCEPT !.stage = "ok"]
    <3>1. k \in Call /\ k.stage # "waiting" /\ k.node = call[o].node
      BY <1>1 DEF Call, Stages
    <3> QED
      BY <2>1, <3>1
  <2>2. CASE \E retryable \in BOOLEAN : call' = [call EXCEPT ![o] = Failed(@, retryable)]
    <3> PICK retryable \in BOOLEAN : call' = [call EXCEPT ![o] = Failed(call[o], retryable)]
      BY <2>2
    <3> QED
      BY <1>1, FailedRests
  <2> QED
    BY <2>1, <2>2 DEF HandleNodeResponse
<1> PICK k \in Call : /\ call' = [call EXCEPT ![o] = k]
                      /\ k.stage # "waiting" /\ k.node = call[o].node
  BY <1>2
<1>3. call' \in [Calls -> Call] /\ call'[o] = k /\ \A c \in Calls \ {o} : call'[c] = call[c]
  BY DEF WaitInv
<1>4. pending' = pending \ {o} /\ stamped' = pending'
  BY DEF HandleNodeResponse, WaitInv, WaitersTracked
<1>5. pending' = {c \in Calls : call'[c].stage = "waiting"}
  BY <1>3, <1>4 DEF WaitInv, WaitersTracked
<1>6. Aimed'
  BY <1>1, <1>3 DEF WaitInv, Aimed
<1> QED
  BY <1>3, <1>4, <1>5, <1>6 DEF WaitInv, WaitersTracked

-----------------------------------------------------------------------------
(* Nodes, codes and counts                                                 *)

LEMMA NodesFinite ==
  ASSUME NEW u
  PROVE  NodesOf(u) \in SUBSET Ids /\ IsFiniteSet(NodesOf(u)) /\ Cardinality(NodesOf(u)) \in Nat
<1>1. IsFiniteSet(Ids)
  BY BoundsType, FS_Interval DEF Ids
<1>2. NodesOf(u) \in SUBSET Ids
  BY DEF NodesOf, Live
<1> QED
  BY <1>1, <1>2, FS_Subset, FS_CardinalityType

\* Steps that keep the owner, the name and the existence of every node keep
\* what a user has.
LEMMA SameNodes ==
  ASSUME NodeInv, counts' = counts,
         codes' \in [Codes -> Users \union {"unused", "gone"}],
         node' \in [Ids -> NodeRecord],
         \A n \in Ids : /\ node'[n].user = node[n].user /\ node'[n].name = node[n].name
                        /\ (n \in Live)' <=> n \in Live
  PROVE  NodeInv'
<1>1. \A u \in Users : NodesOf(u)' = NodesOf(u)
  BY DEF NodesOf, Live
<1>2. ASSUME NEW u \in Users
      PROVE  /\ counts'[u] = Cardinality(NodesOf(u)')
             /\ \A m, n \in NodesOf(u)' : node'[m].name = node'[n].name => m = n
  <2>1. \A m, n \in NodesOf(u) : node[m].name = node[n].name => m = n
    BY DEF NodeInv, CountsAgree
  <2>2. \A m \in NodesOf(u) : node'[m].name = node[m].name
    BY DEF NodesOf, Live
  <2>3. counts[u] = Cardinality(NodesOf(u))
    BY DEF NodeInv, CountsAgree
  <2> QED
    BY <1>1, <2>1, <2>2, <2>3
<1>3. CountsAgree'
  BY <1>2 DEF CountsAgree
<1> QED
  BY <1>3 DEF NodeInv

LEMMA NodesUntouched ==
  ASSUME NodeInv, UNCHANGED pairing
  PROVE  NodeInv'
<1>1. codes' = codes /\ node' = node /\ counts' = counts
  BY DEF pairing
<1>2. \A n \in Ids : (n \in Live)' <=> n \in Live
  BY <1>1 DEF Live
<1> QED
  BY <1>1, <1>2, SameNodes DEF NodeInv

\* A code is spent for whatever it is worth.
LEMMA SpentCode ==
  ASSUME NodeInv, NEW c \in Codes, SpendCode(c)
  PROVE  codes' \in [Codes -> Users \union {"unused", "gone"}] /\ codes'[c] = "gone"
BY DEF NodeInv, SpendCode

LEMMA RepairKeeps ==
  ASSUME NodeInv, NEW c \in OpenCodes, NEW s \in Sockets, NEW name \in Names,
         NEW can \in Capabilities, Repair(c, s, name, can), SpendCode(c)
  PROVE  /\ NodeInv'
         /\ \A n \in Ids : node'[n] = node[n] \/ node'[n].status = "paired"
<1> PICK n \in SameName(codes[c], name) :
      /\ node' = [node EXCEPT ![n].socket = s, ![n].status = "paired", ![n].can = can]
      /\ UNCHANGED counts
  BY DEF Repair
<1> DEFINE r == [node[n] EXCEPT !.socket = s, !.status = "paired", !.can = can]
<1>1. n \in Ids /\ n \in Live /\ node[n] \in NodeRecord
  BY DEF SameName, NodesOf, Live, NodeInv
<1>2. /\ r \in NodeRecord /\ r.status = "paired"
      /\ r.user = node[n].user /\ r.name = node[n].name
  BY <1>1, CapabilitiesType DEF NodeRecord, Status
<1>3. node' = [node EXCEPT ![n] = r]
  OBVIOUS
<1> HIDE DEF r
<1>4. node' \in [Ids -> NodeRecord] /\ node'[n] = r /\ \A m \in Ids \ {n} : node'[m] = node[m]
  BY <1>1, <1>2, <1>3 DEF NodeInv
<1>5. \A m \in Ids : /\ node'[m].user = node[m].user /\ node'[m].name = node[m].name
                     /\ (m \in Live)' <=> m \in Live
  BY <1>1, <1>2, <1>4 DEF Live
<1>6. c \in Codes
  BY DEF OpenCodes
<1>7. NodeInv'
  BY <1>4, <1>5, <1>6, SpentCode, SameNodes
<1> QED
  BY <1>2, <1>4, <1>7

LEMMA PairKeeps ==
  ASSUME NodeInv, NEW c \in OpenCodes, NEW s \in Sockets, NEW name \in Names,
         NEW can \in Capabilities, Pair(c, s, name, can), SpendCode(c)
  PROVE  /\ NodeInv'
         /\ \A n \in Ids : node'[n] = node[n] \/ node'[n].status = "paired"
<1> PICK u \in Users : u = codes[c]
  BY DEF OpenCodes
<1> DEFINE r == [status |-> "paired", user |-> u, name |-> name,
                 socket |-> s, can |-> can, consent |-> FALSE]
<1> PICK n \in NextId : node' = [node EXCEPT ![n] = r]
  BY DEF Pair
<1>1. n \in Ids /\ n \notin Live
  BY DEF NextId, Oldest, Live
<1>2. u \in Users /\ c \in Codes
  BY DEF OpenCodes
<1>3. r \in NodeRecord
  BY <1>2, CapabilitiesType DEF NodeRecord, Status
<1>4. node' \in [Ids -> NodeRecord] /\ node'[n] = r /\ \A m \in Ids \ {n} : node'[m] = node[m]
  BY <1>1, <1>3 DEF NodeInv
<1>5. counts' = [counts EXCEPT ![u] = @ + 1]
  BY DEF Pair
<1>6. counts' \in [Users -> Nat] /\ counts'[u] = counts[u] + 1
      /\ \A v \in Users \ {u} : counts'[v] = counts[v]
  BY <1>2, <1>5 DEF NodeInv
<1>7. \A m \in Ids : (m \in Live)' <=> m \in Live \/ m = n
  BY <1>1, <1>4 DEF Live
<1>8. NodesOf(u)' = NodesOf(u) \union {n} /\ n \notin NodesOf(u)
  BY <1>1, <1>4, <1>7 DEF NodesOf, Live
<1>9. \A v \in Users \ {u} : NodesOf(v)' = NodesOf(v)
  BY <1>1, <1>4, <1>7 DEF NodesOf, Live
<1>10. \A v \in Users : counts'[v] = Cardinality(NodesOf(v)')
  <2>1. Cardinality(NodesOf(u)') = Cardinality(NodesOf(u)) + 1
    BY <1>8, NodesFinite, FS_AddElement
  <2>2. \A v \in Users : counts[v] = Cardinality(NodesOf(v))
    BY DEF NodeInv, CountsAgree
  <2> QED
    BY <1>2, <1>6, <1>9, <2>1, <2>2
<1>11. ASSUME NEW v \in Users, NEW l \in NodesOf(v)', NEW m \in NodesOf(v)',
              node'[l].name = node'[m].name
       PROVE  l = m
  <2>1. SameName(u, name) = {}
    BY DEF Pair
  <2>2. \A k \in NodesOf(u) : node[k].name # name
    BY <2>1 DEF SameName
  <2>3. \A k \in Ids : k # n => node'[k] = node[k]
    BY <1>4
  <2>4. node'[n].name = name
    BY <1>4
  <2>5. \A i, j \in NodesOf(v) : node[i].name = node[j].name => i = j
    BY DEF NodeInv, CountsAgree
  <2>6. l \in Ids /\ m \in Ids /\ NodesOf(v) \subseteq Ids
    BY DEF NodesOf, Live
  <2>7. CASE v = u
    <3>1. l \in NodesOf(u) \union {n} /\ m \in NodesOf(u) \union {n}
      BY <1>8, <2>7
    <3>2. \A k \in NodesOf(u) : k # n /\ k \in Ids /\ node'[k] = node[k]
      BY <1>8, <2>3, <2>6, <2>7
    <3> QED
      BY <1>11, <2>2, <2>4, <2>5, <2>7, <3>1, <3>2
  <2>8. CASE v # u
    <3>1. l \in NodesOf(v) /\ m \in NodesOf(v)
      BY <1>9, <2>8
    <3>2. l # n /\ m # n
      BY <1>1, <3>1 DEF NodesOf
    <3> QED
      BY <1>11, <2>3, <2>5, <2>6, <3>1, <3>2
  <2> QED
    BY <2>7, <2>8
<1>12. CountsAgree'
  BY <1>10, <1>11 DEF CountsAgree
<1>13. NodeInv'
  BY <1>2, <1>4, <1>6, <1>12, SpentCode DEF NodeInv
<1> QED
  BY <1>4, <1>13

\* Each node that expires lowers the count of its user by one.
LEMMA ExpiryKeeps ==
  ASSUME NodeInv, CleanupExpired
  PROVE  /\ NodeInv'
         /\ \A n \in Ids : node'[n] = node[n] \/ node'[n].status = "removed"
<1> PICK expired \in SUBSET OpenCodes, old \in SUBSET Live :
      /\ codes' = [c \in Codes |-> IF c \in expired THEN "gone" ELSE codes[c]]
      /\ node' = [n \in Ids |-> IF n \in old THEN [node[n] EXCEPT !.status = "removed"]
                                            ELSE node[n]]
      /\ counts' = [u \in Users |-> counts[u] - Cardinality({n \in old : node[n].user = u})]
  BY DEF CleanupExpired
<1>1. old \subseteq Ids
  BY DEF Live
<1>2. ASSUME NEW n \in old
      PROVE  /\ node'[n] \in NodeRecord /\ node'[n].status = "removed"
             /\ node'[n].user = node[n].user /\ node'[n].name = node[n].name
  <2>1. node'[n] = [node[n] EXCEPT !.status = "removed"] /\ node[n] \in NodeRecord
    BY <1>1 DEF NodeInv
  <2> QED
    BY <2>1 DEF NodeRecord, Status
<1>3. \A n \in Ids \ old : node'[n] = node[n]
  OBVIOUS
<1>4. node' \in [Ids -> NodeRecord]
  BY <1>2, <1>3 DEF NodeInv
<1>5. codes' \in [Codes -> Users \union {"unused", "gone"}]
  BY DEF NodeInv
<1>6. ASSUME NEW u \in Users
      PROVE  /\ NodesOf(u)' = NodesOf(u) \ old
             /\ counts'[u] = Cardinality(NodesOf(u)') /\ counts'[u] \in Nat
  <2>1. NodesOf(u)' = NodesOf(u) \ old
    BY <1>1, <1>2, <1>3 DEF NodesOf, Live
  <2>2. {n \in old : node[n].user = u} = NodesOf(u) \intersect old
    BY DEF NodesOf
  <2>3. Cardinality(NodesOf(u) \ old) =
          Cardinality(NodesOf(u)) - Cardinality(NodesOf(u) \intersect old)
    BY NodesFinite, FS_Difference
  <2>4. counts[u] = Cardinality(NodesOf(u))
    BY DEF NodeInv, CountsAgree
  <2>5. counts'[u] = Cardinality(NodesOf(u)')
    BY <2>1, <2>2, <2>3, <2>4
  <2>6. Cardinality(NodesOf(u) \ old) \in Nat
    BY NodesFinite, FS_Difference, FS_CardinalityType
  <2> QED
    BY <2>1, <2>5, <2>6
<1>7. counts' \in [Users -> Nat]
  BY <1>6
<1>8. CountsAgree'
  <2>1. \A u \in Users : \A l, m \in NodesOf(u) : node[l].name = node[m].name => l = m
    BY DEF NodeInv, CountsAgree
  <2>2. \A u \in Users : \A m \in NodesOf(u) \ old : node'[m] = node[m]
    BY <1>3 DEF NodesOf, Live
  <2>3. ASSUME NEW u \in Users, NEW l \in NodesOf(u)', NEW m \in NodesOf(u)',
               node'[l].name = node'[m].name
        PROVE  l = m
    <3>1. l \in NodesOf(u) \ old /\ m \in NodesOf(u) \ old
      BY <1>6
    <3>2. node'[l] = node[l] /\ node'[m] = node[m]
      BY <2>2, <3>1
    <3> QED
      BY <2>1, <2>3, <3>1, <3>2
  <2> QED
    BY <1>6, <2>3 DEF CountsAgree
<1> QED
  BY <1>2, <1>3, <1>4, <1>5, <1>7, <1>8 DEF NodeInv

-----------------------------------------------------------------------------
(* The invariant                                                           *)

LEMMA InitOK == Init => IInv
<1> SUFFICES ASSUME Init PROVE IInv
  OBVIOUS
<1>1. WaitInv
  BY BoundsType DEF Init, WaitInv, WaitersTracked, Aimed, Call, Stages
<1>2. NodeInv
  <2>1. node \in [Ids -> NodeRecord]
    BY DEF Init, Unborn, NodeRecord, Status
  <2>2. \A u \in Users : NodesOf(u) = {}
    BY DEF Init, NodesOf, Live, Unborn
  <2>3. CountsAgree
    BY <2>2, FS_EmptySet DEF CountsAgree, Init
  <2> QED
    BY <2>1, <2>3 DEF Init, NodeInv
<1> QED
  BY <1>1, <1>2 DEF Init, IInv, NoneWaitsOffline

\* Requests that were pending before wait for nodes of which none went offline.
LEMMA SameRequests ==
  ASSUME IInv, pending' = pending, call' = call, stamped' = stamped,
         \A n \in Ids : node'[n].status = "offline" => node[n].status = "offline"
  PROVE  WaitInv' /\ NoneWaitsOffline'
<1>1. \A o \in pending : call[o].node \in Ids
  BY DEF IInv, WaitInv, WaitersTracked, Aimed
<1>2. WaitInv'
  BY DEF IInv, WaitInv, WaitersTracked, Aimed
<1> QED
  BY <1>1, <1>2 DEF IInv, NoneWaitsOffline

\* Steps that only begin, repeat or end calls
LEMMA SameNodesWait ==
  ASSUME IInv, WaitInv', UNCHANGED <<socket, pairing, sweeping>>,
         \A c \in pending' : \/ c \in pending /\ call'[c] = call[c]
                             \/ Paired(call'[c].node)
  PROVE  IInv'
<1>1. NodeInv'
  BY NodesUntouched DEF IInv
<1>2. \A c \in pending' : node[call'[c].node].status # "offline"
  BY DEF IInv, NoneWaitsOffline, Paired, Live
<1>3. NoneWaitsOffline'
  BY <1>2 DEF NoneWaitsOffline, pairing
<1> QED
  BY <1>1, <1>3 DEF IInv

LEMMA RejectStep ==
  ASSUME IInv, NEW C \in SUBSET pending, NEW retryable \in BOOLEAN, Reject(C, retryable),
         UNCHANGED <<socket, pairing>>, sweeping' \in BOOLEAN
  PROVE  IInv'
<1>1. WaitInv' /\ pending' \subseteq pending /\ \A o \in pending' : call'[o] = call[o]
  BY RejectKeeps DEF IInv
<1>2. NodeInv'
  BY NodesUntouched DEF IInv
<1>3. NoneWaitsOffline'
  BY <1>1 DEF IInv, NoneWaitsOffline, pairing
<1> QED
  BY <1>1, <1>2, <1>3 DEF IInv

LEMMA PairingStep ==
  ASSUME IInv, UNCHANGED <<socket, waiting, sweeping>>, NodeInv',
         \A n \in Ids : node'[n].status = "offline" => node[n].status = "offline"
  PROVE  IInv'
<1>1. WaitInv' /\ NoneWaitsOffline'
  BY SameRequests DEF waiting
<1> QED
  BY <1>1 DEF IInv

LEMMA ConsentKeeps ==
  ASSUME IInv, NEW n \in Ids, NEW granted \in BOOLEAN, SetConsent(n, granted)
  PROVE  IInv'
<1> DEFINE r == [node[n] EXCEPT !.consent = granted]
<1>1. node[n] \in NodeRecord
  BY DEF IInv, NodeInv
<1>2. /\ r \in NodeRecord /\ r.status = node[n].status
      /\ r.user = node[n].user /\ r.name = node[n].name
  BY <1>1 DEF NodeRecord
<1>3. node' = [node EXCEPT ![n] = r]
  BY DEF SetConsent
<1> HIDE DEF r
<1>4. node' \in [Ids -> NodeRecord]
      /\ \A m \in Ids : /\ node'[m].user = node[m].user /\ node'[m].name = node[m].name
                        /\ node'[m].status = node[m].status
  BY <1>2, <1>3 DEF IInv, NodeInv
<1>5. \A m \in Ids : (m \in Live)' <=> m \in Live
  BY <1>4 DEF Live
<1>6. codes' = codes /\ counts' = counts
  BY DEF SetConsent
<1>7. NodeInv'
  BY <1>4, <1>5, <1>6, SameNodes DEF IInv, NodeInv
<1> QED
  BY <1>4, <1>7, PairingStep DEF SetConsent

LEMMA CloseKeeps ==
  ASSUME IInv, NEW s \in Sockets, Close(s)
  PROVE  IInv'
<1> DEFINE hit == OnSocket(s)
           C == {o \in pending : call[o].node \in hit}
<1>1. hit \subseteq Live /\ hit \subseteq Ids
  BY DEF OnSocket, Oldest, Live
<1>2. C \in SUBSET pending /\ Reject(C, FALSE)
  BY DEF Close
<1>3. /\ WaitInv' /\ pending' = pending \ C
      /\ \A o \in pending' : call'[o] = call[o]
  BY <1>2, RejectKeeps DEF IInv
<1>4. node' = [n \in Ids |-> IF n \in hit THEN [node[n] EXCEPT !.status = "offline"] ELSE node[n]]
  BY DEF Close, MarkOffline
<1>5. \A n \in Ids \ hit : node'[n] = node[n]
  BY <1>4
<1>6. ASSUME NEW n \in hit
      PROVE  /\ node'[n] \in NodeRecord /\ node'[n].status = "offline"
             /\ node'[n].user = node[n].user /\ node'[n].name = node[n].name
  <2>1. node'[n] = [node[n] EXCEPT !.status = "offline"] /\ node[n] \in NodeRecord
    BY <1>1, <1>4 DEF IInv, NodeInv
  <2> QED
    BY <2>1 DEF NodeRecord, Status
<1> HIDE DEF hit
<1>7. node' \in [Ids -> NodeRecord]
  BY <1>4, <1>5, <1>6 DEF IInv, NodeInv
<1>8. \A n \in Ids : /\ node'[n].user = node[n].user /\ node'[n].name = node[n].name
                     /\ (n \in Live)' <=> n \in Live
  BY <1>1, <1>5, <1>6 DEF Live
<1>9. codes' = codes /\ counts' = counts
  BY DEF Close
<1>10. NodeInv'
  BY <1>7, <1>8, <1>9, SameNodes DEF IInv, NodeInv
<1>11. NoneWaitsOffline'
  <2>1. \A o \in pending' : o \in pending /\ call[o].node \in Ids \ hit
    BY <1>3 DEF IInv, WaitInv, WaitersTracked, Aimed
  <2> QED
    BY <1>3, <1>5, <2>1 DEF IInv, NoneWaitsOffline
<1>12. socket' \in [Sockets -> {"new", "open", "gone"}] /\ sweeping' = sweeping
  BY DEF Close, IInv
<1> QED
  BY <1>3, <1>10, <1>11, <1>12 DEF IInv

LEMMA StepOK == IInv /\ [Next]_vars => IInv'
<1> SUFFICES ASSUME IInv, [Next]_vars PROVE IInv'
  OBVIOUS
<1>1. ASSUME NEW u \in Users, NEW c \in Codes, RequestCode(u, c)
      PROVE  IInv'
  <2>1. codes' \in [Codes -> Users \union {"unused", "gone"}]
    BY <1>1 DEF RequestCode, IInv, NodeInv
  <2>2. NodeInv'
    BY <1>1, <2>1, SameNodes DEF RequestCode, IInv, NodeInv, Live
  <2> QED
    BY <1>1, <2>2, PairingStep DEF RequestCode
<1>2. ASSUME NEW c \in Codes, CodeExpired(c)
      PROVE  IInv'
  <2>1. NodeInv'
    BY <1>2, SpentCode, SameNodes DEF CodeExpired, IInv, NodeInv, Live
  <2> QED
    BY <1>2, <2>1, PairingStep DEF CodeExpired
<1>3. ASSUME NEW c \in Codes, NEW s \in Sockets, NEW name \in Names,
             NEW can \in Capabilities, VerifyCode(c, s, name, can)
      PROVE  IInv'
  <2>1. NodeInv' /\ \A n \in Ids : node'[n] = node[n] \/ node'[n].status = "paired"
    BY <1>3, RepairKeeps, PairKeeps DEF VerifyCode, IInv
  <2> QED
    BY <1>3, <2>1, PairingStep DEF VerifyCode
<1>4. ASSUME NEW n \in Ids, GrantConsent(n) \/ RevokeConsent(n) \/ ConsentLapses(n)
      PROVE  IInv'
  BY <1>4, ConsentKeeps DEF GrantConsent, RevokeConsent, ConsentLapses
<1>5. CASE CleanupExpired
  <2>1. NodeInv' /\ \A n \in Ids : node'[n] = node[n] \/ node'[n].status = "removed"
    BY <1>5, ExpiryKeeps DEF IInv
  <2> QED
    BY <1>5, <2>1, PairingStep DEF CleanupExpired
<1>6. ASSUME NEW o \in Calls,
             \/ ExecuteCommand(o) \/ StartRemoteSession(o)
             \/ RequestScreenCapture(o) \/ UseRemoteSession(o)
      PROVE  IInv'
  <2>1. PICK targets \in SUBSET Ids : Begin(o, targets)
    BY <1>6 DEF ExecuteCommand, StartRemoteSession, RequestScreenCapture, UseRemoteSession,
                CommandNodes, CaptureNodes, NodesOf, Live
  <2> QED
    BY <2>1, BeginKeeps, SameNodesWait DEF Begin, IInv
<1>7. ASSUME NEW o \in Calls, RetryCall(o)
      PROVE  IInv'
  <2>1. call[o] \in Call /\ call[o].node \in Ids /\ call[o].stage # "waiting"
    BY <1>7 DEF RetryCall, IInv, WaitInv, Aimed
  <2>2. WaitInv' /\ \A c \in pending' : \/ c \in pending /\ call'[c] = call[c]
                                      \/ Paired(call'[c].node)
    BY <1>7, <2>1, SendKeeps DEF RetryCall, IInv
  <2> QED
    BY <1>7, <2>2, SameNodesWait DEF RetryCall
<1>8. ASSUME NEW o \in Calls, HandleNodeResponse(o)
      PROVE  IInv'
  <2>1. WaitInv' /\ \A c \in pending' : c \in pending /\ call'[c] = call[c]
    BY <1>8, ResponseKeeps DEF IInv
  <2> QED
    BY <1>8, <2>1, SameNodesWait DEF HandleNodeResponse
<1>9. ASSUME NEW o \in Calls, RequestTimeout(o)
      PROVE  IInv'
  BY <1>9, RejectStep DEF RequestTimeout, IInv
<1>10. CASE SweepStale
  <2>1. PICK old \in SUBSET stamped : Reject(old, TRUE)
    BY <1>10 DEF SweepStale
  <2>2. old \in SUBSET pending
    BY DEF IInv, WaitInv, WaitersTracked
  <2> QED
    BY <1>10, <2>1, <2>2, RejectStep DEF SweepStale, IInv
<1>11. CASE Shutdown
  BY <1>11, RejectStep DEF Shutdown
<1>12. ASSUME NEW s \in Sockets, Connect(s)
       PROVE  IInv'
  <2>1. NodeInv'
    BY <1>12, NodesUntouched DEF Connect, IInv
  <2>2. WaitInv' /\ NoneWaitsOffline'
    BY <1>12, SameRequests DEF Connect, pairing, waiting
  <2> QED
    BY <1>12, <2>1, <2>2 DEF Connect, IInv
<1>13. ASSUME NEW s \in Sockets, Close(s)
       PROVE  IInv'
  BY <1>13, CloseKeeps
<1>14. CASE UNCHANGED vars
  <2>1. NodeInv'
    BY <1>14, NodesUntouched DEF vars, IInv
  <2>2. WaitInv' /\ NoneWaitsOffline'
    BY <1>14, SameRequests DEF vars, pairing, waiting
  <2> QED
    BY <1>14, <2>1, <2>2 DEF vars, IInv
<1> QED
  BY <1>1, <1>2, <1>3, <1>4, <1>5, <1>6, <1>7, <1>8, <1>9, <1>10, <1>11, <1>12, <1>13,
     <1>14 DEF Next

\* The maps of NodeSessionManager and NodeCommunicator and the calls of
\* NodeExecutor stay consistent; the theorems below are parts of this one.
THEOREM Invariant == Spec => []IInv
BY InitOK, StepOK, PTL DEF Spec

-----------------------------------------------------------------------------
(* The properties                                                          *)

\* The state of NodeSessionManager, NodeCommunicator and NodeExecutor stays well
\* formed; in particular no count of nodes becomes negative and no call is tried
\* more often than allowed.
THEOREM TypeCorrect == Spec => []TypeOK
<1>1. IInv => TypeOK
  BY DEF IInv, WaitInv, WaitersTracked, NodeInv, TypeOK, Call
<1> QED
  BY <1>1, Invariant, PTL

\* Answers, timeouts, disconnects, the stale sweep and shutdown each settle a
\* request in both maps and for its caller.
THEOREM WaitersAreTracked == Spec => []WaitersTracked
<1>1. IInv => WaitersTracked
  BY DEF IInv, WaitInv
<1> QED
  BY <1>1, Invariant, PTL

\* handleNodeDisconnect leaves no request waiting for the node it marks offline,
\* and no later call or retry waits for it.
THEOREM NobodyWaitsOffline == Spec => []NoneWaitsOffline
<1>1. IInv => NoneWaitsOffline
  BY DEF IInv
<1> QED
  BY <1>1, Invariant, PTL

\* userNodeCount counts the nodes of each user, whose names differ.  Nothing in
\* the code reads it; of the limit per user, which counts the nodes themselves,
\* speaks CodesStretchLimit.
THEOREM CountsAreRight == Spec => []CountsAgree
<1>1. IInv => CountsAgree
  BY DEF IInv, NodeInv
<1> QED
  BY <1>1, Invariant, PTL

\* The socket of n stays, or an open code of its user is spent.
Paid(n) ==
  node'[n].socket # node[n].socket =>
    \E c \in OpenCodes : codes[c] = node'[n].user /\ codes'[c] = "gone"

LEMMA StepPays ==
  ASSUME IInv, [Next]_vars, NEW n \in Ids
  PROVE  Paid(n)
<1>1. node[n] \in NodeRecord
  BY DEF IInv, NodeInv
<1>2. ASSUME UNCHANGED node
      PROVE  Paid(n)
  BY <1>2 DEF Paid
<1>3. ASSUME NEW c \in Codes, NEW s \in Sockets, NEW name \in Names,
             NEW can \in Capabilities, VerifyCode(c, s, name, can)
      PROVE  Paid(n)
  <2>1. c \in OpenCodes /\ codes'[c] = "gone"
    BY <1>3, SpentCode DEF VerifyCode, IInv
  <2>2. CASE Repair(c, s, name, can)
    <3> PICK m \in SameName(codes[c], name) :
          node' = [node EXCEPT ![m].socket = s, ![m].status = "paired", ![m].can = can]
      BY <2>2 DEF Repair
    <3> DEFINE r == [node[m] EXCEPT !.socket = s, !.status = "paired", !.can = can]
    <3>1. m \in Ids /\ node[m] \in NodeRecord /\ node[m].user = codes[c]
      BY DEF SameName, NodesOf, Live, IInv, NodeInv
    <3>2. r.user = codes[c]
      BY <3>1 DEF NodeRecord
    <3>3. node' = [node EXCEPT ![m] = r]
      OBVIOUS
    <3> HIDE DEF r
    <3>4. CASE n = m
      <4>1. node'[n] = r
        BY <3>1, <3>3, <3>4 DEF IInv, NodeInv
      <4> QED
        BY <2>1, <3>2, <4>1 DEF Paid
    <3>5. CASE n # m
      BY <3>1, <3>3, <3>5 DEF Paid, IInv, NodeInv
    <3> QED
      BY <3>4, <3>5
  <2>3. CASE Pair(c, s, name, can)
    BY <2>1, <2>3 DEF Pair, Paid, NextId, Oldest, IInv, NodeInv
  <2> QED
    BY <1>3, <2>2, <2>3 DEF VerifyCode
<1>4. ASSUME NEW m \in Ids, NEW granted \in BOOLEAN, SetConsent(m, granted)
      PROVE  Paid(n)
  <2>1. node' = [node EXCEPT ![m] = [node[m] EXCEPT !.consent = granted]]
    BY <1>4 DEF SetConsent
  <2>2. node'[n].socket = node[n].socket
    BY <1>1, <2>1 DEF NodeRecord, IInv, NodeInv
  <2> QED
    BY <2>2 DEF Paid
<1>5. CASE CleanupExpired
  <2>1. node'[n] = node[n] \/ node'[n] = [node[n] EXCEPT !.status = "removed"]
    BY <1>5 DEF CleanupExpired
  <2> QED
    BY <1>1, <2>1 DEF Paid, NodeRecord
<1>6. ASSUME NEW s \in Sockets, Close(s)
      PROVE  Paid(n)
  <2>1. node'[n] = node[n] \/ node'[n] = [node[n] EXCEPT !.status = "offline"]
    BY <1>6 DEF Close, MarkOffline
  <2> QED
    BY <1>1, <2>1 DEF Paid, NodeRecord
<1>7. ASSUME NEW o \in Calls,
             \/ ExecuteCommand(o) \/ StartRemoteSession(o)
             \/ RequestScreenCapture(o) \/ UseRemoteSession(o)
             \/ RetryCall(o) \/ HandleNodeResponse(o) \/ RequestTimeout(o)
      PROVE  UNCHANGED node
  BY <1>7 DEF ExecuteCommand, StartRemoteSession, RequestScreenCapture, UseRemoteSession,
              Begin, RetryCall, HandleNodeResponse, RequestTimeout, pairing
<1>8. ASSUME \/ \E u \in Users, c \in Codes : RequestCode(u, c)
             \/ \E c \in Codes : CodeExpired(c)
             \/ SweepStale \/ Shutdown \/ \E s \in Sockets : Connect(s)
             \/ UNCHANGED vars
      PROVE  UNCHANGED node
  BY <1>8 DEF RequestCode, CodeExpired, SweepStale, Shutdown, Connect, vars, pairing
<1> QED
  BY <1>2, <1>3, <1>4, <1>5, <1>6, <1>7, <1>8
     DEF Next, GrantConsent, RevokeConsent, ConsentLapses

\* completePairing is the only way to a node or to another socket for one, and
\* it costs an open code of the same user.
THEOREM PairingIsPaid == Spec => PairingSpendsCode
<1>1. IInv /\ [Next]_vars =>
        [\A n \in Ids :
           node'[n].socket # node[n].socket =>
             \E c \in OpenCodes : codes[c] = node'[n].user /\ codes'[c] = "gone"]_vars
  BY StepPays DEF Paid
<1> QED
  BY <1>1, Invariant, PTL DEF Spec, PairingSpendsCode

-----------------------------------------------------------------------------
(***************************************************************************)
(* maxNodesPerUser.  A user asks for codes while below the limit; a code   *)
(* that is spent later creates a node without asking again.  The nodes and *)
(* the open codes of a user together bound what can still go wrong.        *)
(***************************************************************************)

CodesOf(u) == {c \in OpenCodes : codes[c] = u}

\* Nodes and open codes of u together, if never more than k codes are open
LimitInv(u, k) ==
  /\ IsFiniteSet(CodesOf(u))
  /\ Cardinality(NodesOf(u)) + Cardinality(CodesOf(u)) <= MaxPerUser + k - 1

\* Nodes that go and codes that are dropped keep the bound.
LEMMA FewerKeeps ==
  ASSUME NEW u \in Users, NEW k \in Nat \ {0}, LimitInv(u, k),
         NodesOf(u)' \subseteq NodesOf(u), CodesOf(u)' \subseteq CodesOf(u)
  PROVE  LimitInv(u, k)'
<1> DEFINE nodes == NodesOf(u)
           open == CodesOf(u)
<1>1. IsFiniteSet(nodes) /\ IsFiniteSet(open)
  BY NodesFinite DEF LimitInv
<1>2. IsFiniteSet(nodes') /\ Cardinality(nodes') <= Cardinality(nodes)
  BY <1>1, FS_Subset
<1>3. IsFiniteSet(open') /\ Cardinality(open') <= Cardinality(open)
  BY <1>1, FS_Subset
<1>4. Cardinality(nodes) + Cardinality(open) <= MaxPerUser + k - 1
  BY DEF LimitInv
<1>5. /\ Cardinality(nodes) \in Nat /\ Cardinality(open) \in Nat
      /\ Cardinality(nodes') \in Nat /\ Cardinality(open') \in Nat
  BY <1>1, <1>2, <1>3, FS_CardinalityType
<1>6. Cardinality(nodes') + Cardinality(open') <= MaxPerUser + k - 1
  BY <1>2, <1>3, <1>4, <1>5, BoundsType
<1> QED
  BY <1>3, <1>6 DEF LimitInv

\* A code is given to a user below the limit only.
LEMMA RequestKeepsLimit ==
  ASSUME NEW u \in Users, NEW k \in Nat \ {0}, LimitInv(u, k), Cardinality(CodesOf(u)') <= k,
         NodeInv, NEW v \in Users, NEW c \in Codes, RequestCode(v, c)
  PROVE  LimitInv(u, k)'
<1>1. NodesOf(u)' = NodesOf(u)
  BY DEF RequestCode, NodesOf, Live
<1> PICK expired \in SUBSET OpenCodes :
      codes' = [d \in Codes |-> IF d = c THEN v
                                ELSE IF d \in expired THEN "gone" ELSE codes[d]]
  BY DEF RequestCode
<1>2. \A d \in Codes \ {c} : codes'[d] = codes[d] \/ codes'[d] = "gone"
  OBVIOUS
<1>3. codes'[c] = v /\ u # "gone"
  BY UsersType
<1>4. CASE v = u
  <2>1. CodesOf(u)' \subseteq CodesOf(u) \union {c}
    BY <1>2, <1>3, UsersType DEF CodesOf, OpenCodes
  <2>2. IsFiniteSet(CodesOf(u)')
    BY <2>1, FS_AddElement, FS_Subset DEF LimitInv
  <2>3. Cardinality(NodesOf(u)) < MaxPerUser
    BY <1>4 DEF RequestCode
  <2>4. Cardinality(NodesOf(u)') \in Nat /\ Cardinality(CodesOf(u)') \in Nat
    BY <1>1, <2>2, NodesFinite, FS_CardinalityType
  <2>5. Cardinality(NodesOf(u)') + Cardinality(CodesOf(u)') <= MaxPerUser + k - 1
    BY <1>1, <2>3, <2>4, BoundsType
  <2> QED
    BY <2>2, <2>5 DEF LimitInv
<1>5. CASE v # u
  <2>1. CodesOf(u)' \subseteq CodesOf(u)
    BY <1>2, <1>3, <1>5, UsersType DEF CodesOf, OpenCodes
  <2> QED
    BY <1>1, <2>1, FewerKeeps
<1> QED
  BY <1>4, <1>5

\* A code is spent for a node the user has, or for a new one.
LEMMA VerifyKeepsLimit ==
  ASSUME NEW u \in Users, NEW k \in Nat \ {0}, LimitInv(u, k), NodeInv,
         NEW c \in Codes, NEW s \in Sockets, NEW name \in Names,
         NEW can \in Capabilities, VerifyCode(c, s, name, can)
  PROVE  LimitInv(u, k)'
<1>1. c \in OpenCodes /\ codes[c] \in Users
  BY DEF VerifyCode, OpenCodes
<1>2. codes' = [codes EXCEPT ![c] = "gone"] /\ "gone" \notin Users
  BY UsersType DEF VerifyCode, SpendCode
<1>3. CodesOf(u)' = CodesOf(u) \ {c}
  BY <1>1, <1>2 DEF CodesOf, OpenCodes, NodeInv
<1>4. CASE Repair(c, s, name, can)
  <2> PICK m \in SameName(codes[c], name) :
        node' = [node EXCEPT ![m].socket = s, ![m].status = "paired", ![m].can = can]
    BY <1>4 DEF Repair
  <2> DEFINE r == [node[m] EXCEPT !.socket = s, !.status = "paired", !.can = can]
  <2>1. m \in Live /\ m \in Ids /\ node[m] \in NodeRecord
    BY DEF SameName, NodesOf, Live, NodeInv
  <2>2. r.user = node[m].user
    BY <2>1 DEF NodeRecord
  <2>3. node' = [node EXCEPT ![m] = r]
    OBVIOUS
  <2> HIDE DEF r
  <2>4. node'[m].user = node[m].user /\ \A n \in Ids \ {m} : node'[n] = node[n]
    BY <2>1, <2>2, <2>3 DEF NodeInv
  <2>5. NodesOf(u)' \subseteq NodesOf(u)
    BY <2>1, <2>4 DEF NodesOf, Live
  <2> QED
    BY <1>3, <2>5, FewerKeeps
<1>5. CASE Pair(c, s, name, can)
  <2> PICK n \in NextId :
        node' = [node EXCEPT ![n] = [status |-> "paired", user |-> codes[c], name |-> name,
                                     socket |-> s, can |-> can, consent |-> FALSE]]
    BY <1>5 DEF Pair
  <2>1. n \in Ids /\ n \notin Live
    BY DEF NextId, Oldest, Live
  <2>2. node'[n].user = codes[c] /\ \A m \in Ids \ {n} : node'[m] = node[m]
    BY <2>1 DEF NodeInv
  <2>3. CASE codes[c] # u
    <3>1. NodesOf(u)' \subseteq NodesOf(u)
      BY <2>2, <2>3 DEF NodesOf, Live
    <3> QED
      BY <1>3, <3>1, FewerKeeps
  <2>4. CASE codes[c] = u
    <3>1. NodesOf(u)' \subseteq NodesOf(u) \union {n} /\ n \notin NodesOf(u)
      BY <2>1, <2>2 DEF NodesOf, Live
    <3>2. IsFiniteSet(NodesOf(u)) /\ IsFiniteSet(CodesOf(u)) /\ c \in CodesOf(u)
      BY <1>1, <2>4, NodesFinite DEF LimitInv, CodesOf
    <3>3. /\ IsFiniteSet(NodesOf(u) \union {n})
          /\ Cardinality(NodesOf(u) \union {n}) = Cardinality(NodesOf(u)) + 1
      BY <3>1, <3>2, FS_AddElement
    <3>4. Cardinality(NodesOf(u)') <= Cardinality(NodesOf(u)) + 1
      BY <3>1, <3>3, FS_Subset
    <3>5. /\ IsFiniteSet(CodesOf(u)')
          /\ Cardinality(CodesOf(u)') = Cardinality(CodesOf(u)) - 1
      BY <1>3, <3>2, FS_RemoveElement
    <3>6. /\ Cardinality(NodesOf(u)) \in Nat /\ Cardinality(CodesOf(u)) \in Nat
          /\ Cardinality(NodesOf(u)') \in Nat
      <4>1. IsFiniteSet(NodesOf(u)')
        BY <3>1, <3>3, FS_Subset
      <4> QED
        BY <3>2, <4>1, FS_CardinalityType
    <3>7. Cardinality(NodesOf(u)) + Cardinality(CodesOf(u)) <= MaxPerUser + k - 1
      BY DEF LimitInv
    <3>8. Cardinality(NodesOf(u)') + Cardinality(CodesOf(u)') <= MaxPerUser + k - 1
      BY <3>4, <3>5, <3>6, <3>7, BoundsType
    <3> QED
      BY <3>5, <3>8 DEF LimitInv
  <2> QED
    BY <2>3, <2>4
<1> QED
  BY <1>4, <1>5 DEF VerifyCode

LEMMA StepKeepsLimit ==
  ASSUME NEW u \in Users, NEW k \in Nat \ {0}, IInv, LimitInv(u, k), [Next]_vars,
         Cardinality(CodesOf(u)') <= k
  PROVE  LimitInv(u, k)'
<1>1. NodeInv
  BY DEF IInv
<1>2. ASSUME NEW v \in Users, NEW c \in Codes, RequestCode(v, c)
      PROVE  LimitInv(u, k)'
  BY <1>1, <1>2, RequestKeepsLimit
<1>3. ASSUME NEW c \in Codes, NEW s \in Sockets, NEW name \in Names,
             NEW can \in Capabilities, VerifyCode(c, s, name, can)
      PROVE  LimitInv(u, k)'
  BY <1>1, <1>3, VerifyKeepsLimit
<1>4. ASSUME UNCHANGED node, UNCHANGED codes
      PROVE  LimitInv(u, k)'
  BY <1>4 DEF LimitInv, NodesOf, Live, CodesOf, OpenCodes
<1>5. ASSUME NEW c \in Codes, CodeExpired(c)
      PROVE  LimitInv(u, k)'
  <2>1. node' = node /\ codes' = [codes EXCEPT ![c] = "gone"] /\ "gone" \notin Users
    BY <1>5, UsersType DEF CodeExpired, SpendCode
  <2>2. NodesOf(u)' \subseteq NodesOf(u)
    BY <2>1 DEF NodesOf, Live
  <2>3. CodesOf(u)' \subseteq CodesOf(u)
    BY <1>1, <2>1 DEF CodesOf, OpenCodes, NodeInv
  <2> QED
    BY <2>2, <2>3, FewerKeeps
<1>6. ASSUME NEW n \in Ids, NEW granted \in BOOLEAN, SetConsent(n, granted)
      PROVE  LimitInv(u, k)'
  <2> DEFINE r == [node[n] EXCEPT !.consent = granted]
  <2>1. node[n] \in NodeRecord
    BY <1>1 DEF NodeInv
  <2>2. r.user = node[n].user /\ r.status = node[n].status
    BY <2>1 DEF NodeRecord
  <2>3. node' = [node EXCEPT ![n] = r] /\ codes' = codes
    BY <1>6 DEF SetConsent
  <2> HIDE DEF r
  <2>4. \A m \in Ids : node'[m].user = node[m].user /\ node'[m].status = node[m].status
    BY <1>1, <2>2, <2>3 DEF NodeInv
  <2>5. NodesOf(u)' \subseteq NodesOf(u) /\ CodesOf(u)' \subseteq CodesOf(u)
    BY <2>3, <2>4 DEF NodesOf, Live, CodesOf, OpenCodes
  <2> QED
    BY <2>5, FewerKeeps
<1>7. CASE CleanupExpired
  <2> PICK expired \in SUBSET OpenCodes, old \in SUBSET Live :
        /\ codes' = [c \in Codes |-> IF c \in expired THEN "gone" ELSE codes[c]]
        /\ node' = [n \in Ids |-> IF n \in old THEN [node[n] EXCEPT !.status = "removed"]
                                              ELSE node[n]]
    BY <1>7 DEF CleanupExpired
  <2>1. \A n \in Ids : node'[n] = node[n] \/ node'[n].status = "removed"
    <3>1. \A n \in Ids : node[n] \in NodeRecord
      BY <1>1 DEF NodeInv
    <3> QED
      BY <3>1 DEF NodeRecord
  <2>2. NodesOf(u)' \subseteq NodesOf(u)
    BY <2>1 DEF NodesOf, Live
  <2>3. CodesOf(u)' \subseteq CodesOf(u)
    BY UsersType DEF CodesOf, OpenCodes
  <2> QED
    BY <2>2, <2>3, FewerKeeps
<1>8. ASSUME NEW s \in Sockets, Close(s)
      PROVE  LimitInv(u, k)'
  <2>1. \A n \in Ids : node'[n] = node[n] \/ node'[n] = [node[n] EXCEPT !.status = "offline"]
    BY <1>8 DEF Close, MarkOffline
  <2>2. \A n \in Ids : node'[n] # node[n] => n \in Live /\ node'[n].user = node[n].user
    <3>1. OnSocket(s) \subseteq Live
      BY DEF OnSocket, Oldest
    <3>2. \A n \in Ids : node[n] \in NodeRecord
      BY <1>1 DEF NodeInv
    <3> QED
      BY <1>8, <3>1, <3>2 DEF Close, MarkOffline, NodeRecord
  <2>3. NodesOf(u)' \subseteq NodesOf(u)
    BY <2>2 DEF NodesOf, Live
  <2>4. CodesOf(u)' \subseteq CodesOf(u)
    BY <1>8 DEF Close, CodesOf, OpenCodes
  <2> QED
    BY <2>3, <2>4, FewerKeeps
<1>9. ASSUME NEW o \in Calls,
             \/ ExecuteCommand(o) \/ StartRemoteSession(o)
             \/ RequestScreenCapture(o) \/ UseRemoteSession(o)
             \/ RetryCall(o) \/ HandleNodeResponse(o) \/ RequestTimeout(o)
      PROVE  UNCHANGED node /\ UNCHANGED codes
  BY <1>9 DEF ExecuteCommand, StartRemoteSession, RequestScreenCapture, UseRemoteSession,
              Begin, RetryCall, HandleNodeResponse, RequestTimeout, pairing
<1>10. ASSUME \/ SweepStale \/ Shutdown \/ \E s \in Sockets : Connect(s)
              \/ UNCHANGED vars
       PROVE  UNCHANGED node /\ UNCHANGED codes
  BY <1>10 DEF SweepStale, Shutdown, Connect, vars, pairing
<1> QED
  BY <1>2, <1>3, <1>4, <1>5, <1>6, <1>7, <1>8, <1>9, <1>10
     DEF Next, GrantConsent, RevokeConsent, ConsentLapses

\* maxNodesPerUser (NodeSessionManager.generatePairingCode) is looked at when a
\* code is asked for and not when it is spent: a user who never has more than k
\* codes open at a time never has more than k - 1 nodes above the limit.  With one
\* code at a time the limit is kept.
THEOREM CodesStretchLimit ==
  ASSUME NEW u \in Users, NEW k \in Nat \ {0}
  PROVE  Spec /\ [](Cardinality(CodesOf(u)) <= k)
           => [](Cardinality(NodesOf(u)) <= MaxPerUser + k - 1)
<1> DEFINE Few == Cardinality(CodesOf(u)) <= k
           Kept == Cardinality(NodesOf(u)) <= MaxPerUser + k - 1
<1>1. Init => LimitInv(u, k)
  <2> SUFFICES ASSUME Init PROVE LimitInv(u, k)
    OBVIOUS
  <2>1. NodesOf(u) = {} /\ CodesOf(u) = {}
    BY UsersType DEF Init, NodesOf, Live, Unborn, CodesOf, OpenCodes
  <2>2. MaxPerUser \in Nat
    BY BoundsType
  <2> QED
    BY <2>1, <2>2, FS_EmptySet DEF LimitInv
<1>2. IInv /\ LimitInv(u, k) /\ [Next]_vars /\ Few' => LimitInv(u, k)'
  BY StepKeepsLimit
<1>3. LimitInv(u, k) => Kept
  <2> SUFFICES ASSUME LimitInv(u, k) PROVE Kept
    OBVIOUS
  <2>1. Cardinality(CodesOf(u)) \in Nat /\ Cardinality(NodesOf(u)) \in Nat
    BY NodesFinite, FS_CardinalityType DEF LimitInv
  <2> QED
    BY <2>1, BoundsType DEF LimitInv
<1> HIDE DEF Few, Kept
<1>4. Spec /\ []Few => []Kept
  BY <1>1, <1>2, <1>3, Invariant, PTL DEF Spec
<1> QED
  BY <1>4 DEF Few, Kept

-----------------------------------------------------------------------------
(***************************************************************************)
(* Nodes implements NodeCalls.  How far a call is, its node and its        *)
(* attempts can be read off call; a step that settles requests is, seen    *)
(* from outside, an answer, a failure of some attempts or a node that goes *)
(* down, and the rest of pairing only lets nodes come back.                *)
(***************************************************************************)

Offline == {n \in Ids : node[n].status = "offline"}

\* A call that failed rests with an attempt less, or has failed for good.
LEMMA FailedIs ==
  ASSUME NEW k \in Call, NEW retryable \in BOOLEAN
  PROVE  IF retryable /\ k.tries < MaxRetries
         THEN Failed(k, retryable).stage = "resting" /\ Failed(k, retryable).tries = k.tries + 1
         ELSE Failed(k, retryable).stage = "failed" /\ Failed(k, retryable).tries = k.tries
<1>1. CASE retryable /\ k.tries < MaxRetries
  <2>1. Failed(k, retryable) = [k EXCEPT !.stage = "resting", !.tries = @ + 1]
    BY <1>1 DEF Failed, Rest
  <2> QED
    BY <1>1, <2>1 DEF Call
<1>2. CASE ~(retryable /\ k.tries < MaxRetries)
  <2>1. Failed(k, retryable) = [k EXCEPT !.stage = "failed"]
    BY <1>2 DEF Failed
  <2> QED
    BY <1>2, <2>1 DEF Call
<1> QED
  BY <1>1, <1>2

\* The calls in C have their errors: an attempt less, or the end.
LEMMA FailingImplements ==
  ASSUME WaitInv, NEW C \in SUBSET Calls, NEW retryable \in BOOLEAN, NEW k \in [C -> Call],
         \A o \in C : k[o].tries = call[o].tries,
         call' = [o \in Calls |-> IF o \in C THEN Failed(k[o], retryable) ELSE call[o]]
  PROVE  Service!Fail(C, retryable)
<1>1. MaxRetries \in Nat
  BY BoundsType
<1> DEFINE Left(o) == MaxRetries + 1 - call[o].tries
           again == {o \in C : retryable /\ Left(o) > 1}
<1>2. ASSUME NEW o \in C
      PROVE  /\ call[o].tries \in 0 .. MaxRetries
             /\ k[o] \in Call /\ k[o].stage \in Stages
             /\ Left(o) > 1 <=> k[o].tries < MaxRetries
  BY <1>1 DEF WaitInv, Call
<1>3. ASSUME NEW o \in again
      PROVE  call'[o].stage = "resting" /\ call'[o].tries = call[o].tries + 1
  <2>1. o \in C /\ retryable /\ Left(o) > 1
    OBVIOUS
  <2>2. call'[o] = Failed(k[o], retryable)
    BY <2>1
  <2>3. k[o].tries < MaxRetries
    BY <1>2, <2>1
  <2> HIDE DEF again, Left
  <2>4. Failed(k[o], retryable).stage = "resting" /\ Failed(k[o], retryable).tries = k[o].tries + 1
    <3> PICK r \in Call : r = k[o]
      BY <1>2, <2>1
    <3> QED
      BY <2>1, <2>3, FailedIs
  <2> QED
    BY <2>1, <2>2, <2>4
<1>4. ASSUME NEW o \in C \ again
      PROVE  call'[o].stage = "failed" /\ call'[o].tries = call[o].tries
  <2>1. call'[o] = Failed(k[o], retryable) /\ ~(retryable /\ k[o].tries < MaxRetries)
    BY <1>2
  <2> QED
    BY <1>2, <2>1, FailedIs
<1>5. \A o \in Calls \ C : call'[o] = call[o]
  OBVIOUS
<1>6. [o \in Calls |-> call'[o].stage]
        = [o \in Calls |-> IF o \in again THEN "resting"
                           ELSE IF o \in C THEN "failed" ELSE call[o].stage]
  BY <1>3, <1>4, <1>5
<1>7. ASSUME NEW o \in Calls
      PROVE  MaxRetries + 1 - call'[o].tries = IF o \in again THEN Left(o) - 1 ELSE Left(o)
  <2>1. call[o].tries \in 0 .. MaxRetries
    BY DEF WaitInv, Call
  <2>2. CASE o \in again
    <3>1. call'[o].tries = call[o].tries + 1
      BY <1>3, <2>2
    <3>2. MaxRetries + 1 - (call[o].tries + 1) = Left(o) - 1
      BY <1>1, <2>1
    <3> QED
      BY <2>2, <3>1, <3>2
  <2>3. CASE o \notin again
    <3>1. call'[o].tries = call[o].tries
      BY <1>4, <1>5, <2>3
    <3> QED
      BY <2>3, <3>1
  <2> QED
    BY <2>2, <2>3
<1>8. [o \in Calls |-> MaxRetries + 1 - call'[o].tries]
        = [o \in Calls |-> IF o \in again THEN Left(o) - 1 ELSE Left(o)]
  BY <1>7
<1> QED
  BY <1>6, <1>8 DEF Service!Fail

\* Rejected requests are failed attempts; their calls stay with their nodes.
LEMMA RejectImplements ==
  ASSUME WaitInv, NEW C \in SUBSET pending, NEW retryable \in BOOLEAN, Reject(C, retryable)
  PROVE  /\ Service!Fail(C, retryable)
         /\ C \in SUBSET Service!Waiting
         /\ \A o \in Calls : call'[o].node = call[o].node
<1>1. C \in SUBSET Calls /\ \A o \in C : call[o] \in Call /\ call[o].stage = "waiting"
  BY DEF WaitInv, WaitersTracked
<1> DEFINE k == [o \in C |-> call[o]]
<1>2. /\ k \in [C -> Call] /\ \A o \in C : k[o].tries = call[o].tries
      /\ call' = [o \in Calls |-> IF o \in C THEN Failed(k[o], retryable) ELSE call[o]]
  BY <1>1 DEF Reject
<1>3. Service!Fail(C, retryable)
  BY <1>1, <1>2, FailingImplements
<1>4. C \in SUBSET Service!Waiting
  BY <1>1 DEF Service!Waiting
<1>5. \A o \in Calls : call'[o].node = call[o].node
  BY <1>1, FailedRests DEF Reject
<1> QED
  BY <1>3, <1>4, <1>5

\* A call in state k makes an attempt, or finds that it need not.
LEMMA SendImplements ==
  ASSUME WaitInv, NEW o \in Calls, NEW k \in Call, k.tries = call[o].tries,
         SendAndWait(o, k), UNCHANGED node
  PROVE  Service!Try(o, k.node)
<1>1. [c \in Calls |-> call'[c].node] = [[c \in Calls |-> call[c].node] EXCEPT ![o] = k.node]
      /\ Offline' = Offline
  <2>1. \A c \in Calls \ {o} : call'[c] = call[c]
    BY DEF SendAndWait, CreatePendingRequest, AttemptFails, WaitInv
  <2>2. call'[o] = [k EXCEPT !.stage = "waiting"]
        \/ \E retryable \in BOOLEAN : call'[o] = Failed(k, retryable)
    BY DEF SendAndWait, CreatePendingRequest, AttemptFails, WaitInv
  <2>3. call'[o].node = k.node
    BY <2>2, FailedRests DEF Call
  <2> QED
    BY <2>1, <2>3 DEF Offline
<1>2. CASE Paired(k.node) /\ CreatePendingRequest(o, k)
  <2>1. k.node \notin Offline
    BY <1>2 DEF Paired, Offline
  <2> DEFINE sent == [k EXCEPT !.stage = "waiting"]
  <2>2. sent.stage = "waiting" /\ sent.tries = call[o].tries
    BY DEF Call
  <2>3. call' = [call EXCEPT ![o] = sent]
    BY <1>2 DEF CreatePendingRequest
  <2> HIDE DEF sent
  <2>4. [c \in Calls |-> call'[c].stage]
          = [[c \in Calls |-> call[c].stage] EXCEPT ![o] = "waiting"]
        /\ [c \in Calls |-> MaxRetries + 1 - call'[c].tries]
          = [c \in Calls |-> MaxRetries + 1 - call[c].tries]
    BY <2>2, <2>3 DEF WaitInv
  <2> QED
    BY <1>1, <2>1, <2>4 DEF Service!Try, Offline
<1>3. ASSUME NEW retryable \in BOOLEAN, AttemptFails(o, k, retryable),
             retryable => k.node \notin Offline
      PROVE  Service!Try(o, k.node)
  <2> DEFINE s == [c \in {o} |-> k]
  <2>1. /\ s \in [{o} -> Call] /\ \A c \in {o} : s[c].tries = call[c].tries
        /\ call' = [c \in Calls |-> IF c \in {o} THEN Failed(s[c], retryable) ELSE call[c]]
    BY <1>3 DEF AttemptFails, WaitInv
  <2>2. Service!Fail({o}, retryable)
    BY <2>1, FailingImplements
  <2>3. retryable \in {FALSE, k.node \notin Offline}
    BY <1>3
  <2> QED
    BY <1>1, <2>2, <2>3 DEF Service!Try, Offline
<1>4. Paired(k.node) => k.node \notin Offline
  BY DEF Paired, Offline
<1> QED
  BY <1>2, <1>3, <1>4 DEF SendAndWait

LEMMA AnswerImplements ==
  ASSUME WaitInv, NEW o \in Calls, HandleNodeResponse(o)
  PROVE  Service!Next
<1>1. call[o] \in Call /\ call[o].stage = "waiting" /\ Offline' = Offline
  BY DEF HandleNodeResponse, WaitInv, WaitersTracked, pairing, Offline
<1>2. CASE call' = [call EXCEPT ![o].stage = "ok"]
  <2> DEFINE k == [call[o] EXCEPT !.stage = "ok"]
  <2>1. k.stage = "ok" /\ k.node = call[o].node /\ k.tries = call[o].tries
    BY <1>1 DEF Call
  <2>2. call' = [call EXCEPT ![o] = k]
    BY <1>2
  <2> HIDE DEF k
  <2>3. /\ [c \in Calls |-> call'[c].stage] = [[c \in Calls |-> call[c].stage] EXCEPT ![o] = "ok"]
        /\ [c \in Calls |-> call'[c].node] = [c \in Calls |-> call[c].node]
        /\ [c \in Calls |-> MaxRetries + 1 - call'[c].tries]
             = [c \in Calls |-> MaxRetries + 1 - call[c].tries]
    BY <2>1, <2>2 DEF WaitInv
  <2>4. Service!Answer(o)
    BY <1>1, <2>3 DEF Service!Answer, Offline
  <2> QED
    BY <2>4 DEF Service!Next
<1>3. ASSUME NEW retryable \in BOOLEAN, call' = [call EXCEPT ![o] = Failed(@, retryable)]
      PROVE  Service!Next
  <2> DEFINE s == [c \in {o} |-> call[o]]
  <2>1. /\ s \in [{o} -> Call] /\ \A c \in {o} : s[c].tries = call[c].tries
        /\ call' = [c \in Calls |-> IF c \in {o} THEN Failed(s[c], retryable) ELSE call[c]]
    BY <1>1, <1>3 DEF WaitInv
  <2>2. Service!Fail({o}, retryable)
    BY <2>1, FailingImplements
  <2>3. {o} \in SUBSET Service!Waiting
    BY <1>1 DEF Service!Waiting
  <2>4. [c \in Calls |-> call'[c].node] = [c \in Calls |-> call[c].node]
    BY <1>1, <1>3, FailedRests DEF WaitInv
  <2>5. Service!GiveUp({o})
    BY <1>1, <2>2, <2>4 DEF Service!GiveUp, Offline
  <2> QED
    BY <2>3, <2>5 DEF Service!Next
<1> QED
  BY <1>2, <1>3 DEF HandleNodeResponse

LEMMA RejectionImplements ==
  ASSUME WaitInv, NEW C \in SUBSET pending, NEW retryable \in BOOLEAN, Reject(C, retryable),
         UNCHANGED node
  PROVE  Service!Next
<1>1. /\ Service!Fail(C, retryable) /\ C \in SUBSET Service!Waiting
      /\ \A o \in Calls : call'[o].node = call[o].node
  BY RejectImplements
<1>2. [o \in Calls |-> call'[o].node] = [o \in Calls |-> call[o].node]
  BY <1>1
<1>3. Service!GiveUp(C)
  BY <1>1, <1>2 DEF Service!GiveUp
<1> QED
  BY <1>1, <1>3 DEF Service!Next

\* handleNodeDisconnect: the node and those who wait for it, in one step
LEMMA CloseImplements ==
  ASSUME IInv, NEW s \in Sockets, Close(s)
  PROVE  Service!Next
<1> DEFINE C == {o \in pending : call[o].node \in OnSocket(s)}
<1>1. \A m, n \in OnSocket(s) : m = n
  BY DEF OnSocket, Oldest, Ids, Live
<1>2. OnSocket(s) \subseteq Ids
  BY DEF OnSocket, Oldest, Live
<1>3. /\ Service!Fail(C, FALSE) /\ C \in SUBSET Service!Waiting
      /\ \A o \in Calls : call'[o].node = call[o].node
  BY RejectImplements DEF Close, IInv
<1>4. [o \in Calls |-> call'[o].node] = [o \in Calls |-> call[o].node]
  BY <1>3
<1>5. Offline' = Offline \union OnSocket(s)
  <2>1. \A n \in Ids : node[n] \in NodeRecord
    BY DEF IInv, NodeInv
  <2>2. \A n \in Ids : node'[n].status = IF n \in OnSocket(s) THEN "offline" ELSE node[n].status
    BY <2>1 DEF Close, MarkOffline, NodeRecord
  <2> QED
    BY <1>2, <2>2 DEF Offline
<1>6. CASE OnSocket(s) = {}
  <2>1. Offline' = Offline
    BY <1>5, <1>6
  <2>2. Service!GiveUp(C)
    BY <1>3, <1>4, <2>1 DEF Service!GiveUp, Offline
  <2> QED
    BY <1>3, <2>2 DEF Service!Next
<1>7. ASSUME NEW n \in OnSocket(s)
      PROVE  Service!Next
  <2>1. OnSocket(s) = {n} /\ n \in Ids
    BY <1>1, <1>2
  <2>2. pending = {o \in Calls : call[o].stage = "waiting"}
    BY DEF IInv, WaitInv, WaitersTracked
  <2>3. C = {o \in Service!Waiting : [c \in Calls |-> call[c].node][o] = n}
    BY <2>1, <2>2 DEF Service!Waiting
  <2>4. Service!GoDown(n)
    BY <1>3, <1>4, <1>5, <2>1, <2>3 DEF Service!GoDown, Offline
  <2> QED
    BY <2>1, <2>4 DEF Service!Next
<1> QED
  BY <1>6, <1>7

\* Pairing, expiry and consent concern callers only as far as nodes come back.
LEMMA PairingImplements ==
  ASSUME UNCHANGED call, \A n \in Ids : node'[n].status = "offline" => node[n].status = "offline"
  PROVE  Service!Next
<1>1. PICK N \in SUBSET Offline : Offline' = Offline \ N
  <2>1. Offline' = Offline \ (Offline \ Offline')
    BY DEF Offline
  <2> QED
    BY <2>1
<1>2. Service!ComeBack(N)
  BY <1>1 DEF Service!ComeBack, Offline
<1> QED
  BY <1>1, <1>2 DEF Service!Next, Offline

LEMMA StepImplements ==
  IInv /\ [Next]_vars => [Service!Next]_(Service!vars)
<1> SUFFICES ASSUME IInv, [Next]_vars
             PROVE  [Service!Next]_(Service!vars)
  OBVIOUS
<1>1. WaitInv
  BY DEF IInv
<1>2. ASSUME NEW c \in Codes, NEW s \in Sockets, NEW name \in Names,
             NEW can \in Capabilities, VerifyCode(c, s, name, can)
      PROVE  Service!Next
  <2>1. \A n \in Ids : node'[n] = node[n] \/ node'[n].status = "paired"
    BY <1>2, RepairKeeps, PairKeeps DEF VerifyCode, IInv
  <2> QED
    BY <1>2, <2>1, PairingImplements DEF VerifyCode, waiting
<1>3. ASSUME NEW n \in Ids, NEW granted \in BOOLEAN, SetConsent(n, granted)
      PROVE  Service!Next
  <2>1. node' = [node EXCEPT ![n] = [node[n] EXCEPT !.consent = granted]]
    BY <1>3 DEF SetConsent
  <2>2. \A m \in Ids : node'[m].status = node[m].status
    BY <2>1 DEF IInv, NodeInv, NodeRecord
  <2> QED
    BY <1>3, <2>2, PairingImplements DEF SetConsent, waiting
<1>4. CASE CleanupExpired
  <2>1. \A n \in Ids : node'[n] = node[n] \/ node'[n].status = "removed"
    BY <1>4, ExpiryKeeps DEF IInv
  <2> QED
    BY <1>4, <2>1, PairingImplements DEF CleanupExpired, waiting
<1>5. ASSUME NEW o \in Calls,
             \/ ExecuteCommand(o) \/ StartRemoteSession(o)
             \/ RequestScreenCapture(o) \/ UseRemoteSession(o)
      PROVE  Service!Next
  <2>1. PICK targets \in SUBSET Ids : Begin(o, targets)
    BY <1>5 DEF ExecuteCommand, StartRemoteSession, RequestScreenCapture, UseRemoteSession,
                CommandNodes, CaptureNodes, NodesOf, Live
  <2>2. PICK n \in targets : SendAndWait(o, [call[o] EXCEPT !.node = n])
    BY <2>1 DEF Begin
  <2> DEFINE k == [call[o] EXCEPT !.node = n]
  <2>3. k \in Call /\ k.tries = call[o].tries /\ k.node = n
    BY <1>1 DEF WaitInv, Call
  <2>4. SendAndWait(o, k) /\ UNCHANGED node /\ call[o].stage = "idle"
    BY <2>1, <2>2 DEF Begin, pairing
  <2> HIDE DEF k
  <2>5. Service!Try(o, n)
    BY <1>1, <2>3, <2>4, SendImplements
  <2>6. Service!Begin(o)
    BY <2>4, <2>5 DEF Service!Begin
  <2> QED
    BY <2>6 DEF Service!Next
<1>6. ASSUME NEW o \in Calls, RetryCall(o)
      PROVE  Service!Next
  <2>1. call[o] \in Call /\ call[o].stage = "resting" /\ UNCHANGED node
    BY <1>1, <1>6 DEF RetryCall, WaitInv, pairing
  <2>2. SendAndWait(o, call[o])
    BY <1>6 DEF RetryCall
  <2> PICK k \in Call : k = call[o]
    BY <2>1
  <2>3. k.tries = call[o].tries /\ SendAndWait(o, k)
    BY <2>2
  <2>4. Service!Try(o, k.node)
    BY <1>1, <2>1, <2>3, SendImplements
  <2>5. Service!TryAgain(o)
    BY <2>1, <2>4 DEF Service!TryAgain, Service!Try
  <2> QED
    BY <2>5 DEF Service!Next
<1>7. ASSUME NEW o \in Calls, HandleNodeResponse(o)
      PROVE  Service!Next
  BY <1>1, <1>7, AnswerImplements
<1>8. ASSUME NEW o \in Calls, RequestTimeout(o)
      PROVE  Service!Next
  BY <1>1, <1>8, RejectionImplements DEF RequestTimeout, pairing
<1>9. CASE SweepStale
  <2>1. PICK old \in SUBSET stamped : Reject(old, TRUE)
    BY <1>9 DEF SweepStale
  <2>2. old \in SUBSET pending
    BY <1>1 DEF WaitInv, WaitersTracked
  <2> QED
    BY <1>1, <1>9, <2>1, <2>2, RejectionImplements DEF SweepStale, pairing
<1>10. CASE Shutdown
  BY <1>1, <1>10, RejectionImplements DEF Shutdown, pairing
<1>11. ASSUME \/ \E u \in Users, c \in Codes : RequestCode(u, c)
              \/ \E c \in Codes : CodeExpired(c)
              \/ \E s \in Sockets : Connect(s)
              \/ UNCHANGED vars
       PROVE  UNCHANGED Service!vars
  BY <1>11 DEF RequestCode, CodeExpired, Connect, vars, pairing, waiting, Service!vars
<1>12. ASSUME NEW s \in Sockets, Close(s)
       PROVE  Service!Next
  BY <1>12, CloseImplements
<1> QED
  BY <1>2, <1>3, <1>4, <1>5, <1>6, <1>7, <1>8, <1>9, <1>10, <1>11, <1>12
     DEF Next, GrantConsent, RevokeConsent, ConsentLapses

\* For its callers the machinery of nodes is a service with a bounded number of
\* attempts: each is settled once, in the step in which its node goes down at the
\* latest; sweeps, shutdown and pairing again settle nothing twice or on behalf of
\* another call, and a call that has ended is over.
THEOREM ImplementsCalls == Spec => ServesCalls
<1>1. Init => Service!Init
  BY BoundsType DEF Init, Service!Init, Unborn
<1> QED
  BY <1>1, StepImplements, Invariant, PTL DEF Spec, ServesCalls, Service!Spec

-----------------------------------------------------------------------------
(* The steps of a call.  That a call takes another step needs fairness;    *)
(* that it cannot take many does not.                                      *)

Weight == [idle |-> 3, resting |-> 2, waiting |-> 1]

\* How many steps a call in state k may still take
Rank(k) ==
  IF k.stage \in DOMAIN Weight THEN 2 * (MaxRetries - k.tries) + Weight[k.stage] ELSE 0

LEMMA RankOf ==
  ASSUME NEW k \in Call
  PROVE  /\ MaxRetries \in Nat /\ k.tries \in 0 .. MaxRetries
         /\ Rank(k) \in 0 .. 2 * MaxRetries + 3
         /\ k.stage = "idle" => Rank(k) = 2 * (MaxRetries - k.tries) + 3
         /\ k.stage = "resting" => Rank(k) = 2 * (MaxRetries - k.tries) + 2
         /\ k.stage = "waiting" => Rank(k) = 2 * (MaxRetries - k.tries) + 1
         /\ k.stage \in {"ok", "failed"} => Rank(k) = 0
<1>1. MaxRetries \in Nat /\ k.tries \in 0 .. MaxRetries /\ k.stage \in Stages
  BY BoundsType DEF Call
<1>2. /\ DOMAIN Weight = {"idle", "resting", "waiting"}
      /\ Weight["idle"] = 3 /\ Weight["resting"] = 2 /\ Weight["waiting"] = 1
  BY DEF Weight
<1>3. CASE k.stage \in {"ok", "failed"}
  BY <1>1, <1>2, <1>3 DEF Rank
<1>4. CASE k.stage = "idle"
  BY <1>1, <1>2, <1>4 DEF Rank
<1>5. CASE k.stage = "resting"
  BY <1>1, <1>2, <1>5 DEF Rank
<1>6. CASE k.stage = "waiting"
  BY <1>1, <1>2, <1>6 DEF Rank
<1> QED
  BY <1>1, <1>3, <1>4, <1>5, <1>6 DEF Stages

\* An attempt that is made, or has failed, is a step ahead.
LEMMA AttemptRanks ==
  ASSUME NEW c \in Call, NEW k \in Call, k.tries = c.tries, NEW retryable \in BOOLEAN
  PROVE  /\ c.stage \in {"idle", "resting", "waiting"} => Rank(Failed(k, retryable)) < Rank(c)
         /\ c.stage \in {"idle", "resting"} => Rank([k EXCEPT !.stage = "waiting"]) < Rank(c)
<1> DEFINE f == Failed(k, retryable)
           s == [k EXCEPT !.stage = "waiting"]
<1>1. f \in Call /\ (f.stage = "failed" \/ (f.stage = "resting" /\ f.tries = c.tries + 1))
  BY FailedRests, FailedIs
<1>2. s \in Call /\ s.stage = "waiting" /\ s.tries = c.tries
  BY DEF Call, Stages
<1> HIDE DEF f, s
<1>3. /\ MaxRetries \in Nat /\ c.tries \in 0 .. MaxRetries
      /\ c.stage = "idle" => Rank(c) = 2 * (MaxRetries - c.tries) + 3
      /\ c.stage = "resting" => Rank(c) = 2 * (MaxRetries - c.tries) + 2
      /\ c.stage = "waiting" => Rank(c) = 2 * (MaxRetries - c.tries) + 1
  BY RankOf
<1>4. \/ Rank(f) = 0
      \/ f.tries = c.tries + 1 /\ Rank(f) = 2 * (MaxRetries - f.tries) + 2
  BY <1>1, RankOf
<1>5. Rank(s) = 2 * (MaxRetries - c.tries) + 1
  BY <1>2, RankOf
<1>6. c.stage \in {"idle", "resting", "waiting"} => Rank(f) < Rank(c)
  BY <1>3, <1>4
<1>7. c.stage \in {"idle", "resting"} => Rank(s) < Rank(c)
  BY <1>3, <1>5
<1> QED
  BY <1>6, <1>7 DEF f, s

\* o stays as it is, or is a step ahead.
Ahead(o) == call'[o] # call[o] => Rank(call'[o]) < Rank(call[o])

LEMMA RejectRanks ==
  ASSUME WaitInv, NEW C \in SUBSET pending, NEW retryable \in BOOLEAN, Reject(C, retryable),
         NEW o \in Calls
  PROVE  Ahead(o)
<1>1. o \in C => call[o] \in Call /\ call[o].stage = "waiting"
  BY DEF WaitInv, WaitersTracked
<1>2. call'[o] = call[o] \/ (o \in C /\ call'[o] = Failed(call[o], retryable))
  BY DEF Reject
<1> QED
  BY <1>1, <1>2, AttemptRanks DEF Ahead

LEMMA SendRanks ==
  ASSUME WaitInv, NEW c \in Calls, NEW k \in Call, k.tries = call[c].tries,
         call[c].stage \in {"idle", "resting"}, SendAndWait(c, k), NEW o \in Calls
  PROVE  Ahead(o)
<1>1. call[c] \in Call
  BY DEF WaitInv
<1>2. \/ call' = [call EXCEPT ![c] = [k EXCEPT !.stage = "waiting"]]
      \/ \E retryable \in BOOLEAN : call' = [call EXCEPT ![c] = Failed(k, retryable)]
  BY DEF SendAndWait, CreatePendingRequest, AttemptFails
<1>3. \/ call'[o] = call[o]
      \/ o = c /\ call'[o] = [k EXCEPT !.stage = "waiting"]
      \/ o = c /\ \E retryable \in BOOLEAN : call'[o] = Failed(k, retryable)
  BY <1>2 DEF WaitInv
<1> QED
  BY <1>1, <1>3, AttemptRanks DEF Ahead

LEMMA StepRanks ==
  ASSUME IInv, [Next]_vars, NEW o \in Calls
  PROVE  Ahead(o)
<1>1. WaitInv
  BY DEF IInv
<1>2. ASSUME UNCHANGED call
      PROVE  Ahead(o)
  BY <1>2 DEF Ahead
<1>3. ASSUME NEW c \in Calls,
             \/ ExecuteCommand(c) \/ StartRemoteSession(c)
             \/ RequestScreenCapture(c) \/ UseRemoteSession(c)
      PROVE  Ahead(o)
  <2>1. PICK targets \in SUBSET Ids : Begin(c, targets)
    BY <1>3 DEF ExecuteCommand, StartRemoteSession, RequestScreenCapture, UseRemoteSession,
                CommandNodes, CaptureNodes, NodesOf, Live
  <2>2. PICK n \in targets : SendAndWait(c, [call[c] EXCEPT !.node = n])
    BY <2>1 DEF Begin
  <2> DEFINE k == [call[c] EXCEPT !.node = n]
  <2>3. k \in Call /\ k.tries = call[c].tries /\ call[c].stage = "idle"
    BY <1>1, <2>1 DEF WaitInv, Call, Begin
  <2>4. SendAndWait(c, k)
    BY <2>2
  <2> HIDE DEF k
  <2> QED
    BY <1>1, <2>3, <2>4, SendRanks
<1>4. ASSUME NEW c \in Calls, RetryCall(c)
      PROVE  Ahead(o)
  <2>1. PICK k \in Call : k = call[c]
    BY <1>1 DEF WaitInv
  <2>2. k.tries = call[c].tries /\ call[c].stage = "resting" /\ SendAndWait(c, k)
    BY <1>4, <2>1 DEF RetryCall
  <2> QED
    BY <1>1, <2>2, SendRanks
<1>5. ASSUME NEW c \in Calls, HandleNodeResponse(c)
      PROVE  Ahead(o)
  <2>1. call[c] \in Call /\ call[c].stage = "waiting"
    BY <1>1, <1>5 DEF HandleNodeResponse, WaitInv, WaitersTracked
  <2>2. \/ call'[o] = call[o]
        \/ o = c /\ call'[o] = [call[c] EXCEPT !.stage = "ok"]
        \/ o = c /\ \E retryable \in BOOLEAN : call'[o] = Failed(call[c], retryable)
    BY <1>1, <1>5 DEF HandleNodeResponse, WaitInv
  <2>3. Rank([call[c] EXCEPT !.stage = "ok"]) < Rank(call[c])
    <3> DEFINE k == [call[c] EXCEPT !.stage = "ok"]
    <3>1. k \in Call /\ k.stage = "ok"
      BY <2>1 DEF Call, Stages
    <3> HIDE DEF k
    <3>2. Rank(k) = 0
      BY <3>1, RankOf
    <3>3. Rank(call[c]) > 0
      BY <2>1, RankOf
    <3> QED
      BY <3>2, <3>3 DEF k
  <2> QED
    BY <2>1, <2>2, <2>3, AttemptRanks DEF Ahead
<1>6. ASSUME NEW C \in SUBSET pending, NEW retryable \in BOOLEAN, Reject(C, retryable)
      PROVE  Ahead(o)
  BY <1>1, <1>6, RejectRanks
<1>7. ASSUME NEW c \in Calls, RequestTimeout(c)
      PROVE  Ahead(o)
  BY <1>6, <1>7 DEF RequestTimeout
<1>8. CASE SweepStale
  BY <1>1, <1>6, <1>8 DEF SweepStale, WaitInv, WaitersTracked
<1>9. CASE Shutdown
  BY <1>6, <1>9 DEF Shutdown
<1>10. ASSUME NEW s \in Sockets, Close(s)
       PROVE  Ahead(o)
  BY <1>6, <1>10 DEF Close
<1>11. ASSUME \/ \E u \in Users, c \in Codes : RequestCode(u, c)
              \/ \E c \in Codes : CodeExpired(c)
              \/ \E c \in Codes, s \in Sockets, name \in Names, can \in Capabilities :
                   VerifyCode(c, s, name, can)
              \/ \E n \in Ids, granted \in BOOLEAN : SetConsent(n, granted)
              \/ \E s \in Sockets : Connect(s)
              \/ CleanupExpired \/ UNCHANGED vars
       PROVE  UNCHANGED call
  BY <1>11 DEF RequestCode, CodeExpired, VerifyCode, SetConsent, Connect, CleanupExpired, vars,
               waiting
<1> QED
  BY <1>2, <1>3, <1>4, <1>5, <1>7, <1>8, <1>9, <1>10, <1>11
     DEF Next, GrantConsent, RevokeConsent, ConsentLapses

\* Every step of a NodeExecutor operation brings it nearer to its end: of answers,
\* timeouts, retries and rejections it sees no more than 2 * MaxRetries + 3, whatever
\* nodes and sockets do.  EveryCallEnds adds only that timers fire.
THEOREM CallsGoForward ==
  Spec => /\ [](\A o \in Calls : Rank(call[o]) \in 0 .. 2 * MaxRetries + 3)
          /\ [][\A o \in Calls : Ahead(o)]_vars
<1>1. IInv => \A o \in Calls : Rank(call[o]) \in 0 .. 2 * MaxRetries + 3
  BY RankOf DEF IInv, WaitInv
<1>2. IInv /\ [Next]_vars => [\A o \in Calls : Ahead(o)]_vars
  BY StepRanks
<1> QED
  BY <1>1, <1>2, Invariant, PTL DEF Spec
=============================================================================
