--------------------------- MODULE ToolRuntimeProofs ---------------------------
(***************************************************************************)
(* Proofs about ToolRuntime for every set of invocations and tools and     *)
(* every limit.  The inductive invariant is the conjunction of the         *)
(* invariants that TLC checks: the ledger says what runningCount counts,   *)
(* the agreement of map and calls says that only a parked invocation can   *)
(* be approved, and together they bound the invocations in flight.         *)
(***************************************************************************)
EXTENDS ToolRuntime, FiniteSetTheorems, TLAPS

IInv == TypeOK /\ CountLedger /\ WithinLimit /\ RecordMatchesCall

\* Invocations that run or may be approved at any moment
Reserved == Active \union In({"parked"})

-----------------------------------------------------------------------------
(* Counting                                                                *)

LEMMA SubsetFinite ==
  ASSUME NEW S \in SUBSET Invs
  PROVE  IsFiniteSet(S) /\ Cardinality(S) \in Nat
BY InvsFinite, FS_Subset, FS_CardinalityType

LEMMA AddOne ==
  ASSUME NEW S \in SUBSET Invs, NEW i \in Invs, i \notin S
  PROVE  Cardinality(S \union {i}) = Cardinality(S) + 1
BY SubsetFinite, FS_AddElement

LEMMA RemoveOne ==
  ASSUME NEW S \in SUBSET Invs, NEW i \in S
  PROVE  Cardinality(S \ {i}) = Cardinality(S) - 1
BY SubsetFinite, FS_RemoveElement

LEMMA InIsSubset == \A phases : In(phases) \in SUBSET Invs
BY DEF In

\* No more invocations are reserved than the count says.
LEMMA ReservedBound ==
  ASSUME CountLedger
  PROVE  Cardinality(Reserved) <= runningCount
<1> DEFINE parked == In({"parked"})
<1>1. /\ Active \in SUBSET Invs
      /\ Leaked \in SUBSET Invs
      /\ Broken \in SUBSET Invs
      /\ parked \in SUBSET Leaked
      /\ Active \intersect parked = {}
  BY DEF In, Active, Leaked, Broken
<1>2. /\ IsFiniteSet(Active) /\ Cardinality(Active) \in Nat
      /\ IsFiniteSet(Leaked) /\ Cardinality(Leaked) \in Nat
      /\ IsFiniteSet(parked) /\ Cardinality(parked) \in Nat
      /\ Cardinality(Broken) \in Nat
  BY <1>1, SubsetFinite
<1>3. Cardinality(Reserved) = Cardinality(Active) + Cardinality(parked)
  <2>1. Cardinality(Active \union parked) =
          Cardinality(Active) + Cardinality(parked)
            - Cardinality(Active \intersect parked)
    BY <1>2, FS_Union
  <2>2. Cardinality(Active \intersect parked) = 0
    BY <1>1, FS_EmptySet
  <2> QED
    BY <2>1, <2>2, <1>2 DEF Reserved
<1>4. Cardinality(parked) <= Cardinality(Leaked)
  BY <1>1, <1>2, FS_Subset
<1> HIDE DEF parked
<1> QED
  BY <1>2, <1>3, <1>4 DEF CountLedger

-----------------------------------------------------------------------------
(* The invariant                                                           *)

LEMMA TypesInit == Init => TypeOK
BY DEF Init, TypeOK, Status, Call

\* A step keeps the types.  That the count stays natural needs the ledger: an
\* execution that settles is one of those the count includes.
LEMMA TypesStep == IInv /\ [Next]_vars => TypeOK'
<1> SUFFICES ASSUME IInv, [Next]_vars
             PROVE  TypeOK'
  OBVIOUS
<1> USE DEF TypeOK, Status, Call
<1>0. TypeOK
  BY DEF IInv
<1>1. ASSUME NEW tool \in Tools, Register(tool) \/ Unregister(tool)
      PROVE  TypeOK'
  BY <1>0, <1>1 DEF Register, Unregister
<1>2. ASSUME NEW i \in Invs, Invoke(i)
      PROVE  TypeOK'
  BY <1>0, <1>2 DEF Invoke, Begin
<1>3. ASSUME NEW i \in Invs, CheckPasses(i) \/ CheckParks(i) \/ CheckThrows(i)
      PROVE  TypeOK'
  BY <1>0, <1>3 DEF CheckPasses, CheckParks, CheckThrows
<1>4. ASSUME NEW i \in Invs, NEW status \in {"completed", "failed"},
             Finalize(i, status)
      PROVE  /\ record' \in [Invs -> Status \union {"none"}]
             /\ call' \in [Invs -> Call]
             /\ runningCount' \in Nat
             /\ registered' \in SUBSET Tools
             /\ policyOK' \in BOOLEAN
  <2>1. /\ i \in Active /\ Active \in SUBSET Invs
        /\ Leaked \in SUBSET Invs /\ Broken \in SUBSET Invs
    BY <1>4 DEF Finalize, Active, Leaked, Broken, In
  <2>2. runningCount > 0
    <3>1. Cardinality(Active \ {i}) = Cardinality(Active) - 1
      BY <2>1, RemoveOne
    <3>2. /\ Cardinality(Active \ {i}) \in Nat
          /\ Cardinality(Active) \in Nat
          /\ Cardinality(Leaked) \in Nat
          /\ Cardinality(Broken) \in Nat
      BY <2>1, SubsetFinite
    <3> QED
      BY <3>1, <3>2 DEF IInv, CountLedger
  <2> QED
    BY <1>0, <1>4, <2>2 DEF Finalize
<1>5. ASSUME NEW i \in Invs, ToolReturns(i) \/ ToolTimesOut(i)
      PROVE  TypeOK'
  BY <1>0, <1>4, <1>5 DEF ToolReturns, ToolTimesOut
<1>6. ASSUME NEW i \in Invs, OrphanReturns(i)
      PROVE  TypeOK'
  BY <1>0, <1>6 DEF OrphanReturns
<1>7. ASSUME NEW i \in Invs, Approve(i) \/ Deny(i)
      PROVE  TypeOK'
  BY <1>0, <1>7 DEF Approve, Deny, Begin
<1>8. ASSUME Cleanup \/ Shutdown
      PROVE  TypeOK'
  BY <1>0, <1>8 DEF Cleanup, Shutdown
<1>9. CASE UNCHANGED vars
  BY <1>0, <1>9 DEF vars
<1> QED
  BY <1>1, <1>2, <1>3, <1>5, <1>6, <1>7, <1>8, <1>9 DEF Next

\* A step keeps the map and the calls in agreement.
LEMMA AgreementStep == IInv /\ [Next]_vars => RecordMatchesCall'
<1> SUFFICES ASSUME IInv, [Next]_vars
             PROVE  RecordMatchesCall'
  OBVIOUS
<1> USE DEF RecordMatchesCall
<1>0. TypeOK /\ RecordMatchesCall
  BY DEF IInv
<1>1. ASSUME NEW tool \in Tools, Register(tool) \/ Unregister(tool)
      PROVE  RecordMatchesCall'
  BY <1>0, <1>1 DEF Register, Unregister
<1>2. ASSUME NEW i \in Invs, Invoke(i)
      PROVE  RecordMatchesCall'
  BY <1>0, <1>2 DEF Invoke, Begin, TypeOK
<1>3. ASSUME NEW i \in Invs, CheckPasses(i) \/ CheckParks(i) \/ CheckThrows(i)
      PROVE  RecordMatchesCall'
  BY <1>0, <1>3 DEF CheckPasses, CheckParks, CheckThrows, TypeOK
<1>4. ASSUME NEW i \in Invs, NEW status \in {"completed", "failed"},
             Finalize(i, status)
      PROVE  RecordMatchesCall'
  BY <1>0, <1>4 DEF Finalize, TypeOK
<1>5. ASSUME NEW i \in Invs, ToolReturns(i) \/ ToolTimesOut(i)
      PROVE  RecordMatchesCall'
  BY <1>4, <1>5 DEF ToolReturns, ToolTimesOut
<1>6. ASSUME NEW i \in Invs, OrphanReturns(i)
      PROVE  RecordMatchesCall'
  BY <1>0, <1>6 DEF OrphanReturns
<1>7. ASSUME NEW i \in Invs, Approve(i) \/ Deny(i)
      PROVE  RecordMatchesCall'
  BY <1>0, <1>7 DEF Approve, Deny, Begin, Awaiting, TypeOK
<1>8. ASSUME Cleanup \/ Shutdown
      PROVE  RecordMatchesCall'
  BY <1>0, <1>8 DEF Cleanup, Shutdown, TypeOK
<1>9. CASE UNCHANGED vars
  BY <1>0, <1>9 DEF vars
<1> QED
  BY <1>1, <1>2, <1>3, <1>5, <1>6, <1>7, <1>8, <1>9 DEF Next

\* How a step changes the three sets the ledger counts, and the count.
LEMMA LedgerNat ==
  /\ Cardinality(Active) \in Nat
  /\ Cardinality(Leaked) \in Nat
  /\ Cardinality(Broken) \in Nat
BY SubsetFinite, InIsSubset DEF Active, Leaked, Broken

\* A call that was not in flight takes a slot and starts.
LEMMA LedgerTake ==
  ASSUME IInv, NEW i \in Invs,
         i \notin Active,
         Active' = Active \union {i}, Leaked' = Leaked, Broken' = Broken,
         runningCount' = runningCount + 1
  PROVE  CountLedger'
<1>1. Cardinality(Active') = Cardinality(Active) + 1
  BY AddOne, InIsSubset DEF Active
<1> QED
  BY <1>1, LedgerNat DEF IInv, CountLedger

LEMMA LedgerInvoke ==
  ASSUME IInv, NEW i \in Invs, Invoke(i)
  PROVE  CountLedger'
<1> USE DEF IInv, TypeOK, Invoke, Begin
<1>1. i \notin Active /\ i \notin Leaked /\ i \notin Broken
  BY DEF Active, Leaked, Broken, In
<1>2. CASE call'[i] \in {"checking", "executing"}
  <2>1. Active' = Active \union {i} /\ Leaked' = Leaked /\ Broken' = Broken
    BY <1>2 DEF Active, Leaked, Broken, In
  <2> QED
    BY <1>1, <2>1, LedgerTake
<1>3. CASE call'[i] = "abandoned"
  <2>1. Active' = Active /\ Leaked' = Leaked \union {i} /\ Broken' = Broken
    BY <1>3 DEF Active, Leaked, Broken, In
  <2>2. Cardinality(Leaked') = Cardinality(Leaked) + 1
    BY <1>1, <2>1, AddOne, InIsSubset DEF Leaked
  <2> QED
    BY <2>1, <2>2, LedgerNat DEF CountLedger
<1> QED
  BY <1>2, <1>3

LEMMA LedgerLeak ==
  ASSUME IInv, NEW i \in Invs, CheckParks(i) \/ CheckThrows(i)
  PROVE  CountLedger'
<1>1. /\ i \in Active /\ Active \in SUBSET Invs
      /\ i \in Invs \ Leaked /\ Leaked \in SUBSET Invs
  BY DEF CheckParks, CheckThrows, Active, Leaked, In
<1>2. Active' = Active \ {i} /\ Leaked' = Leaked \union {i} /\ Broken' = Broken
  BY DEF IInv, TypeOK, CheckParks, CheckThrows, Active, Leaked, Broken, In
<1>3. /\ Cardinality(Active') = Cardinality(Active) - 1
      /\ Cardinality(Leaked') = Cardinality(Leaked) + 1
  BY <1>1, <1>2, AddOne, RemoveOne
<1> QED
  BY <1>2, <1>3, LedgerNat DEF IInv, CountLedger, CheckParks, CheckThrows

LEMMA LedgerFinalize ==
  ASSUME IInv, NEW i \in Invs, NEW status \in {"completed", "failed"},
         Finalize(i, status)
  PROVE  CountLedger'
<1>1. i \in Active /\ Active \in SUBSET Invs
  BY DEF Finalize, Active, In
<1>2. Active' = Active \ {i} /\ Leaked' = Leaked /\ Broken' = Broken
  BY DEF IInv, TypeOK, Finalize, Active, Leaked, Broken, In
<1>3. Cardinality(Active') = Cardinality(Active) - 1
  BY <1>1, <1>2, RemoveOne
<1> QED
  BY <1>2, <1>3, LedgerNat DEF IInv, CountLedger, Finalize

LEMMA LedgerApprove ==
  ASSUME IInv, NEW i \in Invs, Approve(i)
  PROVE  CountLedger'
<1> USE DEF IInv, TypeOK, Approve, Begin
<1>0. call[i] = "parked"
  BY DEF RecordMatchesCall, Awaiting
<1>1. i \notin Active /\ i \notin Broken
  BY <1>0 DEF Active, Broken, In
<1>2. CASE call'[i] = "reexecuting"
  <2>1. Active' = Active \union {i} /\ Leaked' = Leaked /\ Broken' = Broken
    BY <1>0, <1>2 DEF Active, Leaked, Broken, In
  <2> QED
    BY <1>1, <2>1, LedgerTake
<1>3. CASE call'[i] = "broken"
  <2>1. Active' = Active /\ Leaked' = Leaked /\ Broken' = Broken \union {i}
    BY <1>0, <1>3 DEF Active, Leaked, Broken, In
  <2>2. Cardinality(Broken') = Cardinality(Broken) + 1
    BY <1>1, <2>1, AddOne, InIsSubset DEF Broken
  <2> QED
    BY <2>1, <2>2, LedgerNat DEF CountLedger
<1> QED
  BY <1>2, <1>3

LEMMA LedgerDeny ==
  ASSUME IInv, NEW i \in Invs, Deny(i)
  PROVE  CountLedger'
<1>0. call[i] = "parked"
  BY DEF IInv, RecordMatchesCall, Deny, Awaiting
<1>1. Active' = Active /\ Leaked' = Leaked /\ Broken' = Broken
  BY <1>0 DEF IInv, TypeOK, Deny, Active, Leaked, Broken, In
<1> QED
  BY <1>1 DEF IInv, CountLedger, Deny

\* The other steps change none of them.
LEMMA LedgerOther ==
  ASSUME IInv,
         \/ \E tool \in Tools : Register(tool) \/ Unregister(tool)
         \/ \E i \in Invs : CheckPasses(i) \/ OrphanReturns(i)
         \/ Cleanup
         \/ Shutdown
         \/ UNCHANGED vars
  PROVE  CountLedger'
<1>1. /\ Active' = Active /\ Leaked' = Leaked /\ Broken' = Broken
      /\ runningCount' = runningCount
  <2>1. CASE \E i \in Invs : CheckPasses(i)
    BY <2>1 DEF IInv, TypeOK, CheckPasses, Active, Leaked, Broken, In
  <2>2. CASE UNCHANGED <<call, runningCount>>
    BY <2>2 DEF Active, Leaked, Broken, In
  <2> QED
    BY <2>1, <2>2 DEF Register, Unregister, OrphanReturns, Cleanup, Shutdown, vars
<1> QED
  BY <1>1 DEF IInv, CountLedger

LEMMA LedgerStep == IInv /\ [Next]_vars => CountLedger'
<1> SUFFICES ASSUME IInv, [Next]_vars
             PROVE  CountLedger'
  OBVIOUS
<1>1. ASSUME NEW i \in Invs, Invoke(i)
      PROVE  CountLedger'
  BY <1>1, LedgerInvoke
<1>2. ASSUME NEW i \in Invs, CheckParks(i) \/ CheckThrows(i)
      PROVE  CountLedger'
  BY <1>2, LedgerLeak
<1>3. ASSUME NEW i \in Invs, ToolReturns(i) \/ ToolTimesOut(i)
      PROVE  CountLedger'
  BY <1>3, LedgerFinalize DEF ToolReturns, ToolTimesOut
<1>4. ASSUME NEW i \in Invs, Approve(i)
      PROVE  CountLedger'
  BY <1>4, LedgerApprove
<1>5. ASSUME NEW i \in Invs, Deny(i)
      PROVE  CountLedger'
  BY <1>5, LedgerDeny
<1>6. ASSUME \/ \E tool \in Tools : Register(tool) \/ Unregister(tool)
             \/ \E i \in Invs : CheckPasses(i) \/ OrphanReturns(i)
             \/ Cleanup
             \/ Shutdown
             \/ UNCHANGED vars
      PROVE  CountLedger'
  BY <1>6, LedgerOther
<1> QED
  BY <1>1, <1>2, <1>3, <1>4, <1>5, <1>6 DEF Next

\* A new invocation is admitted below the limit, where the ledger leaves room
\* for it; every other step reserves nothing that was not reserved before.
LEMMA LimitStep == IInv /\ [Next]_vars => WithinLimit'
<1> SUFFICES ASSUME IInv, [Next]_vars
             PROVE  Cardinality(Reserved') <= MaxConcurrent
  BY DEF WithinLimit, Reserved
<1>0. Reserved \in SUBSET Invs /\ Cardinality(Reserved) \in Nat
  <2>1. Reserved \in SUBSET Invs
    BY InIsSubset DEF Reserved, Active
  <2> QED
    BY <2>1, SubsetFinite
<1>1. ASSUME NEW i \in Invs, Invoke(i)
      PROVE  Cardinality(Reserved') <= MaxConcurrent
  <2>1. Cardinality(Reserved) < MaxConcurrent
    <3>1. runningCount < MaxConcurrent
      BY <1>1 DEF Invoke, BelowLimit
    <3>2. Cardinality(Reserved) <= runningCount
      BY ReservedBound DEF IInv
    <3> QED
      BY <1>0, <3>1, <3>2, MaxConcurrentType DEF IInv, TypeOK
  <2>2. i \notin Reserved /\ Reserved' \in {Reserved, Reserved \union {i}}
    BY <1>1 DEF IInv, TypeOK, Invoke, Begin, Reserved, Active, In
  <2>3. Cardinality(Reserved') \in {Cardinality(Reserved), Cardinality(Reserved) + 1}
    BY <1>0, <2>2, AddOne
  <2> QED
    BY <1>0, <2>1, <2>3, MaxConcurrentType
<1>2. ASSUME Reserved' \in SUBSET Reserved
      PROVE  Cardinality(Reserved') <= MaxConcurrent
  <2>1. /\ Cardinality(Reserved') \in Nat
        /\ Cardinality(Reserved') <= Cardinality(Reserved)
    BY <1>0, <1>2, SubsetFinite, FS_Subset
  <2>2. Cardinality(Reserved) <= MaxConcurrent
    BY DEF IInv, WithinLimit, Reserved
  <2> QED
    BY <1>0, <2>1, <2>2, MaxConcurrentType
<1>3. ASSUME NEW i \in Invs, CheckPasses(i) \/ CheckParks(i) \/ CheckThrows(i)
      PROVE  Reserved' \in SUBSET Reserved
  BY <1>3 DEF IInv, TypeOK, CheckPasses, CheckParks, CheckThrows, Reserved,
              Active, In
<1>4. ASSUME NEW i \in Invs, ToolReturns(i) \/ ToolTimesOut(i)
      PROVE  Reserved' \in SUBSET Reserved
  BY <1>4 DEF IInv, TypeOK, ToolReturns, ToolTimesOut, Finalize, Reserved,
              Active, In
<1>5. ASSUME NEW i \in Invs, Approve(i) \/ Deny(i)
      PROVE  Reserved' \in SUBSET Reserved
  <2>1. i \in Reserved
    BY <1>5 DEF IInv, RecordMatchesCall, Approve, Deny, Awaiting, Reserved, In
  <2> QED
    BY <1>5, <2>1 DEF IInv, TypeOK, Approve, Deny, Begin, Reserved, Active, In
<1>6. CASE UNCHANGED call
  <2>1. Reserved' = Reserved
    BY <1>6 DEF Reserved, Active, In
  <2> QED
    BY <1>2, <2>1
<1> QED
  BY <1>1, <1>2, <1>3, <1>4, <1>5, <1>6
     DEF Next, Register, Unregister, OrphanReturns, Cleanup, Shutdown, vars

LEMMA InvariantInit == Init => IInv
<1> SUFFICES ASSUME Init
             PROVE  IInv
  OBVIOUS
<1>1. Active = {} /\ Leaked = {} /\ Broken = {} /\ In({"parked"}) = {}
  BY DEF Init, Active, Leaked, Broken, In
<1>2. CountLedger /\ WithinLimit
  BY <1>1, FS_EmptySet, MaxConcurrentType DEF Init, CountLedger, WithinLimit
<1>3. RecordMatchesCall
  BY DEF Init, RecordMatchesCall
<1> QED
  BY <1>2, <1>3, TypesInit DEF IInv

\* Every reachable state satisfies the inductive invariant.
THEOREM Invariant == Spec => []IInv
<1>1. IInv /\ [Next]_vars => IInv'
  BY TypesStep, LedgerStep, LimitStep, AgreementStep DEF IInv
<1> QED
  BY <1>1, InvariantInit, PTL DEF Spec

-----------------------------------------------------------------------------
(* The results                                                             *)

\* The state of the runtime stays well formed: in particular runningCount,
\* incremented and decremented in four places, is never negative.
THEOREM TypeCorrect == Spec => []TypeOK
<1>1. IInv => TypeOK
  BY DEF IInv
<1> QED
  BY <1>1, Invariant, PTL

\* runningCount counts the invocations in flight and, for ever, those that were
\* once parked or whose call threw.
THEOREM LedgerHolds == Spec => []CountLedger
<1>1. IInv => CountLedger
  BY DEF IInv
<1> QED
  BY <1>1, Invariant, PTL

\* maxConcurrent bounds the invocations in flight although approveRequest
\* starts one without consulting it.
THEOREM LimitHolds == Spec => []WithinLimit
<1>1. IInv => WithinLimit
  BY DEF IInv
<1> QED
  BY <1>1, Invariant, PTL

\* The status in the invocations map tells where the call is.
THEOREM AgreementHolds == Spec => []RecordMatchesCall
<1>1. IInv => RecordMatchesCall
  BY DEF IInv
<1> QED
  BY <1>1, Invariant, PTL

\* An invocation that has been answered, or has thrown, is never started again.
THEOREM NoSecondRun == Spec => RunsAtMostOnce
<1> DEFINE Once == \A i \in Invs :
                     call[i] \in {"settled", "resolved", "abandoned", "broken"} =>
                     call'[i] = call[i] /\ (i \in bodies' => i \in bodies)
<1>1. IInv /\ [Next]_vars => [Once]_vars
  <2> SUFFICES ASSUME IInv, Next
               PROVE  Once
    OBVIOUS
  <2>0. TypeOK /\ RecordMatchesCall
    BY DEF IInv
  <2>1. ASSUME NEW tool \in Tools, Register(tool) \/ Unregister(tool)
        PROVE  Once
    BY <2>1 DEF Register, Unregister
  <2>2. ASSUME NEW i \in Invs,
               \/ Invoke(i) \/ CheckPasses(i) \/ CheckParks(i) \/ CheckThrows(i)
        PROVE  Once
    BY <2>0, <2>2 DEF Invoke, Begin, CheckPasses, CheckParks, CheckThrows, TypeOK
  <2>3. ASSUME NEW i \in Invs,
               ToolReturns(i) \/ ToolTimesOut(i) \/ OrphanReturns(i)
        PROVE  Once
    BY <2>0, <2>3 DEF ToolReturns, ToolTimesOut, OrphanReturns, Finalize, TypeOK
  <2>4. ASSUME NEW i \in Invs, Approve(i) \/ Deny(i)
        PROVE  Once
    <3>1. call[i] = "parked"
      BY <2>0, <2>4 DEF RecordMatchesCall, Approve, Deny, Awaiting
    <3> QED
      BY <2>0, <2>4, <3>1 DEF Approve, Deny, Begin, TypeOK
  <2>5. CASE Cleanup \/ Shutdown
    BY <2>5 DEF Cleanup, Shutdown
  <2> QED
    BY <2>1, <2>2, <2>3, <2>4, <2>5 DEF Next
<1>2. RunsAtMostOnce <=> [][Once]_vars
  BY PTL DEF RunsAtMostOnce
<1> QED
  BY <1>1, <1>2, Invariant, PTL DEF Spec

-----------------------------------------------------------------------------
(* ToolRuntime implements Admission                                        *)

Executing == In({"executing", "reexecuting"})
Over      == In({"settled", "resolved", "abandoned", "broken"})

Places == INSTANCE Admission WITH
  placed <- Reserved, running <- Executing, over <- Over, Limit <- MaxConcurrent

\* Where an invocation stands decides which of the three sets it is in.
LEMMA StandsIn ==
  ASSUME TypeOK, NEW i \in Invs
  PROVE  /\ i \in Reserved <=> call[i] \in {"checking", "parked", "executing", "reexecuting"}
         /\ i \in Executing <=> call[i] \in {"executing", "reexecuting"}
         /\ i \in Over <=> call[i] \in {"settled", "resolved", "abandoned", "broken"}
BY DEF Reserved, Active, Executing, Over, In

\* Only i moves, to place p.
Moves(i, p) == call' = [call EXCEPT ![i] = p]

LEMMA MovesTo ==
  ASSUME TypeOK, NEW i \in Invs, NEW p, Moves(i, p)
  PROVE  /\ p \in {"checking", "parked", "executing", "reexecuting"} =>
              Reserved' = Reserved \union {i}
         /\ p \notin {"checking", "parked", "executing", "reexecuting"} =>
              Reserved' = Reserved \ {i}
         /\ p \in {"executing", "reexecuting"} => Executing' = Executing \union {i}
         /\ p \notin {"executing", "reexecuting"} => Executing' = Executing \ {i}
         /\ p \in {"settled", "resolved", "abandoned", "broken"} => Over' = Over \union {i}
         /\ p \notin {"settled", "resolved", "abandoned", "broken"} => Over' = Over \ {i}
<1>1. call'[i] = p /\ \A j \in Invs \ {i} : call'[j] = call[j]
  BY DEF TypeOK, Moves
<1>2. Reserved' = {j \in Invs : call'[j] \in {"checking", "parked", "executing", "reexecuting"}}
      /\ Reserved = {j \in Invs : call[j] \in {"checking", "parked", "executing", "reexecuting"}}
  BY DEF Reserved, Active, In
<1>3. Executing' = {j \in Invs : call'[j] \in {"executing", "reexecuting"}}
      /\ Executing = {j \in Invs : call[j] \in {"executing", "reexecuting"}}
  BY DEF Executing, In
<1>4. Over' = {j \in Invs : call'[j] \in {"settled", "resolved", "abandoned", "broken"}}
      /\ Over = {j \in Invs : call[j] \in {"settled", "resolved", "abandoned", "broken"}}
  BY DEF Over, In
<1> QED
  BY <1>1, <1>2, <1>3, <1>4

\* The count that invoke compares with the limit is never less than the places taken.
LEMMA RoomBelowLimit ==
  ASSUME IInv, BelowLimit
  PROVE  Cardinality(Reserved) < MaxConcurrent
<1>1. Cardinality(Reserved) <= runningCount
  BY ReservedBound DEF IInv
<1>2. Reserved \in SUBSET Invs
  BY InIsSubset DEF Reserved, Active
<1>3. Cardinality(Reserved) \in Nat /\ runningCount \in Nat /\ MaxConcurrent \in Nat
  BY <1>2, SubsetFinite, MaxConcurrentType DEF IInv, TypeOK
<1> QED
  BY <1>1, <1>3 DEF BelowLimit

LEMMA StepAdmits == IInv /\ [Next]_vars => [Places!Next]_(Places!vars)
<1> SUFFICES ASSUME IInv, [Next]_vars
             PROVE  [Places!Next]_(Places!vars)
  OBVIOUS
<1>0. TypeOK /\ RecordMatchesCall
  BY DEF IInv
<1>1. ASSUME UNCHANGED call
      PROVE  UNCHANGED Places!vars
  BY <1>1 DEF Places!vars, Reserved, Active, Executing, Over, In
<1>2. ASSUME NEW i \in Invs, Places!Admit(i) \/ Places!Start(i) \/ Places!Leave(i)
      PROVE  Places!Next
  BY <1>2 DEF Places!Next
<1>3. ASSUME NEW i \in Invs, Invoke(i)
      PROVE  Places!Next
  <2>1. Places!MayEnter(i)
    <3>1. i \notin Reserved \union Over
      BY <1>0, <1>3, StandsIn DEF Invoke
    <3>2. Cardinality(Reserved) < MaxConcurrent
      BY <1>3, RoomBelowLimit DEF Invoke
    <3>3. Places!Cardinality(Reserved) = Cardinality(Reserved)
      BY DEF Cardinality, Places!Cardinality
    <3> QED
      BY <3>1, <3>2, <3>3 DEF Places!MayEnter
  <2>2. i \notin Executing /\ i \notin Over
    BY <1>0, <1>3, StandsIn DEF Invoke
  <2>3. ASSUME NEW p \in {"checking", "executing"}, Moves(i, p)
        PROVE  Places!Admit(i)
    <3>1. Reserved' = Reserved \union {i} /\ Over' = Over
      BY <1>0, <2>2, <2>3, MovesTo
    <3>2. Executing' = Executing \/ Executing' = Executing \union {i}
      BY <1>0, <2>2, <2>3, MovesTo
    <3> QED
      BY <2>1, <3>1, <3>2 DEF Places!Admit
  <2>4. ASSUME NEW p \in {"abandoned"}, Moves(i, p)
        PROVE  Places!Leave(i)
    <3>1. Reserved' = Reserved \ {i} /\ Executing' = Executing \ {i} /\ Over' = Over \union {i}
      BY <1>0, <2>4, MovesTo
    <3> QED
      BY <2>1, <3>1 DEF Places!Leave
  <2> QED
    BY <1>2, <1>3, <2>3, <2>4 DEF Invoke, Begin, Moves
<1>4. ASSUME NEW i \in Invs, i \in Reserved, NEW p \in {"settled", "resolved", "abandoned", "broken"},
             Moves(i, p)
      PROVE  Places!Leave(i)
  BY <1>0, <1>4, MovesTo DEF Places!Leave
<1>5. ASSUME NEW i \in Invs, i \in Reserved \ Executing, NEW p \in {"executing", "reexecuting"},
             Moves(i, p)
      PROVE  Places!Start(i)
  <2>1. i \notin Over
    BY <1>0, <1>5, StandsIn
  <2>2. Reserved' = Reserved /\ Executing' = Executing \union {i} /\ Over' = Over
    BY <1>0, <1>5, <2>1, MovesTo
  <2> QED
    BY <1>5, <2>2 DEF Places!Start
<1>6. ASSUME NEW i \in Invs, CheckPasses(i) \/ CheckThrows(i)
      PROVE  Places!Next
  <2>1. i \in Reserved \ Executing
    BY <1>0, <1>6, StandsIn DEF CheckPasses, CheckThrows
  <2> QED
    BY <1>2, <1>4, <1>5, <1>6, <2>1 DEF CheckPasses, CheckThrows, Moves
<1>7. ASSUME NEW i \in Invs, CheckParks(i)
      PROVE  UNCHANGED Places!vars
  <2>1. i \in Reserved /\ i \notin Executing /\ i \notin Over
    BY <1>0, <1>7, StandsIn DEF CheckParks
  <2>2. PICK p \in {"parked"} : Moves(i, p)
    BY <1>7 DEF CheckParks, Moves
  <2>3. Reserved' = Reserved /\ Executing' = Executing /\ Over' = Over
    BY <1>0, <2>1, <2>2, MovesTo
  <2> QED
    BY <2>3 DEF Places!vars
<1>8. ASSUME NEW i \in Invs, ToolReturns(i) \/ ToolTimesOut(i)
      PROVE  Places!Next
  <2>1. PICK status \in {"completed", "failed"} : Finalize(i, status)
    BY <1>8 DEF ToolReturns, ToolTimesOut
  <2>2. i \in Reserved
    BY <1>0, <2>1, StandsIn DEF Finalize
  <2>3. \E p \in {"settled", "resolved"} : Moves(i, p)
    BY <2>1 DEF Finalize, Moves
  <2> QED
    BY <1>2, <1>4, <2>2, <2>3
<1>9. ASSUME NEW i \in Invs, Approve(i) \/ Deny(i)
      PROVE  Places!Next
  <2>1. call[i] = "parked"
    BY <1>0, <1>9 DEF RecordMatchesCall, Approve, Deny, Awaiting
  <2>2. i \in Reserved \ Executing
    BY <1>0, <2>1, StandsIn
  <2>3. \E p \in {"reexecuting", "broken", "resolved"} : Moves(i, p)
    BY <1>9 DEF Approve, Deny, Begin, Moves
  <2> QED
    BY <1>2, <1>4, <1>5, <2>2, <2>3
<1>10. ASSUME \/ \E tool \in Tools : Register(tool) \/ Unregister(tool)
              \/ \E i \in Invs : OrphanReturns(i)
              \/ Cleanup \/ Shutdown \/ UNCHANGED vars
       PROVE  UNCHANGED call
  BY <1>10 DEF Register, Unregister, OrphanReturns, Cleanup, Shutdown, vars
<1> QED
  BY <1>1, <1>3, <1>6, <1>7, <1>8, <1>9, <1>10 DEF Next

\* The runtime keeps what maxConcurrent promises: invoke admits only while there is
\* room, an approved invocation runs in the place it was admitted to, and each runs
\* at most once, although the count is kept in four places, none of them approval's.
THEOREM ImplementsAdmission == Spec => Places!Spec
<1>1. Init => Places!Init
  BY DEF Init, Places!Init, Reserved, Active, Executing, Over, In
<1> QED
  BY <1>1, StepAdmits, Invariant, PTL DEF Spec, Places!Spec
=============================================================================
