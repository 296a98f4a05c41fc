------------------------- MODULE TaskOrchestratorProofs -------------------------
(***************************************************************************)
(* Proofs about TaskOrchestrator for every set of tasks and channels, every *)
(* queue size and either wiring of approvals.                              *)
(*                                                                         *)
(* Every operation computes new values for a channel's queue and busy flag *)
(* and for the registry, the executions, the timers and the mapper, and    *)
(* most then hand them to ProcessChannel.  So the invariant is stated for  *)
(* given values: one lemma shows that ProcessChannel keeps it, and each    *)
(* operation only has to show that what it hands over satisfies it.        *)
(***************************************************************************)
EXTENDS TaskOrchestrator, SequenceTheorems, TLAPS

\* QueuedUnstarted for channel c with queue q and busy flag busy
LineOK(c, q, busy, st, ph) ==
  \A i \in 1 .. Len(q) :
    /\ ChannelOf[q[i]] = c
    /\ st[q[i]] # "ABSENT"
    /\ \A j \in 1 .. Len(q) : q[j] = q[i] => i = j
    /\ \/ ph[q[i]] = "idle"
       \/ ph[q[i]] = "executing" /\ i = 1 /\ busy

\* The registry is done with t
Over(st, t) == st[t] \in Terminal \union {"PURGED"}

\* Every queued task the registry is done with has been answered.
LineAnswered(q, st, ans) ==
  \A i \in 1 .. Len(q) : Over(st, q[i]) => ans[q[i]] # {}

\* So has every task that was executed, or that is executing when the registry
\* is done with it.
Answered(st, ph, ans) ==
  \A t \in Tasks :
    (\/ ph[t] \in {"ended", "skipped"}
     \/ ph[t] = "executing" /\ Over(st, t)) => ans[t] # {}

\* A task that was not created has not been started.
Untouched(st, ph) == \A t \in Tasks : st[t] = "ABSENT" => ph[t] = "idle"

Scoped(ph, tm, mp) == \A t \in tm \union mp : ph[t] = "executing"

\* The part of the invariant that is not about a single channel
Whole(st, ph, tm, mp, ans) ==
  /\ st \in [Tasks -> TaskState \union {"ABSENT", "PURGED"}]
  /\ ph \in [Tasks -> Phase]
  /\ tm \in SUBSET Tasks
  /\ mp \in SUBSET Tasks
  /\ ans \in [Tasks -> SUBSET {"completed", "failed"}]
  /\ Untouched(st, ph)
  /\ Scoped(ph, tm, mp)
  /\ Answered(st, ph, ans)

\* The part about channel c
Line(c, q, busy, st, ph, ans) ==
  /\ q \in Seq(Tasks)
  /\ busy \in BOOLEAN
  /\ LineOK(c, q, busy, st, ph)
  /\ LineAnswered(q, st, ans)

IInv ==
  /\ queue \in [Channels -> Seq(Tasks)]
  /\ processing \in [Channels -> BOOLEAN]
  /\ approvals \in [Tasks -> 0 .. MaxApprovals]
  /\ intervals \in BOOLEAN
  /\ Whole(state, phase, timers, mapped, answers)
  /\ \A c \in Channels : Line(c, queue[c], processing[c], state, phase, answers)

-----------------------------------------------------------------------------
(* Queues                                                                  *)

\* Once the head has left, nothing in the queue has been started.
LEMMA TailUnstarted ==
  ASSUME NEW c, NEW q \in Seq(Tasks), NEW busy, NEW st, NEW ph,
         LineOK(c, q, busy, st, ph)
  PROVE  /\ Dequeue(q) \in Seq(Tasks)
         /\ LineOK(c, Dequeue(q), FALSE, st, ph)
<1>1. CASE q = <<>>
  BY <1>1, EmptySeq DEF Dequeue, LineOK
<1>2. CASE q # <<>>
  <2>1. /\ Len(q) \in Nat
        /\ Tail(q) \in Seq(Tasks)
        /\ Len(Tail(q)) = Len(q) - 1
        /\ \A i \in 1 .. Len(Tail(q)) : Tail(q)[i] = q[i + 1]
    BY <1>2, HeadTailProperties, LenProperties
  <2>2. \A i \in 1 .. Len(Tail(q)) : i + 1 \in 1 .. Len(q) /\ i + 1 # 1
    BY <2>1
  <2>3. \A i \in 1 .. Len(Tail(q)) : ph[Tail(q)[i]] = "idle"
    BY <2>1, <2>2 DEF LineOK
  <2>4. LineOK(c, Tail(q), FALSE, st, ph)
    BY <2>1, <2>2, <2>3 DEF LineOK
  <2> QED
    BY <1>2, <2>1, <2>2, <2>3, <2>4 DEF Dequeue
<1> QED
  BY <1>1, <1>2

LEMMA TailAnswered ==
  ASSUME NEW q \in Seq(Tasks), NEW st, NEW ans, LineAnswered(q, st, ans)
  PROVE  LineAnswered(Dequeue(q), st, ans)
<1>1. CASE q = <<>>
  BY <1>1 DEF Dequeue
<1>2. CASE q # <<>>
  <2>1. /\ Len(q) \in Nat
        /\ Len(Tail(q)) = Len(q) - 1
        /\ \A i \in 1 .. Len(Tail(q)) : Tail(q)[i] = q[i + 1]
    BY <1>2, HeadTailProperties, LenProperties
  <2>2. \A i \in 1 .. Len(Tail(q)) : i + 1 \in 1 .. Len(q)
    BY <2>1
  <2> QED
    BY <1>2, <2>1, <2>2 DEF Dequeue, LineAnswered
<1> QED
  BY <1>1, <1>2

LEMMA HeadInLine ==
  ASSUME NEW q \in Seq(Tasks), q # <<>>
  PROVE  Head(q) \in Tasks /\ Head(q) = q[1] /\ 1 \in 1 .. Len(q)
<1>1. Len(q) \in Nat \ {0}
  BY EmptySeq
<1>2. Head(q) = q[1]
  OBVIOUS
<1> QED
  BY <1>1, <1>2, ElementOfSeq

LEMMA QueuedIsTask ==
  ASSUME NEW q \in Seq(Tasks), NEW i \in 1 .. Len(q)
  PROVE  q[i] \in Tasks
BY ElementOfSeq

\* A state update is a valid transition of t, or nothing.
LEMMA UpdateOnly ==
  ASSUME NEW st \in [Tasks -> TaskState \union {"ABSENT", "PURGED"}],
         NEW t \in Tasks, NEW to \in TaskState
  PROVE  /\ UpdateState(st, t, to) \in [Tasks -> TaskState \union {"ABSENT", "PURGED"}]
         /\ \A u \in Tasks \ {t} : UpdateState(st, t, to)[u] = st[u]
         /\ \/ UpdateState(st, t, to)[t] = st[t]
            \/ /\ <<st[t], to>> \in ValidTransition
               /\ UpdateState(st, t, to)[t] = to
BY DEF UpdateState

\* No update takes a task out of "ABSENT", into it, or back from the end.
LEMMA UpdateKeeps ==
  ASSUME NEW st \in [Tasks -> TaskState \union {"ABSENT", "PURGED"}],
         NEW t \in Tasks, NEW to \in TaskState
  PROVE  \A u \in Tasks :
           /\ UpdateState(st, t, to)[u] = "ABSENT" <=> st[u] = "ABSENT"
           /\ Over(st, u) => Over(UpdateState(st, t, to), u)
           /\ to \in {"RUNNING", "PAUSED"} \/ u # t =>
                (Over(UpdateState(st, t, to), u) => Over(st, u))
<1> DEFINE new == UpdateState(st, t, to)
<1>1. /\ \A u \in Tasks \ {t} : new[u] = st[u]
      /\ new[t] = st[t] \/ (<<st[t], to>> \in ValidTransition /\ new[t] = to)
  BY UpdateOnly
<1>2. <<st[t], to>> \in ValidTransition =>
        /\ st[t] \in {"PENDING", "RUNNING", "PAUSED"}
        /\ to # "ABSENT"
  BY DEF ValidTransition, TaskState
<1> HIDE DEF new
<1>3. /\ \A u \in Tasks : new[u] = "ABSENT" <=> st[u] = "ABSENT"
      /\ \A u \in Tasks : Over(st, u) => Over(new, u)
      /\ \A u \in Tasks : to \in {"RUNNING", "PAUSED"} \/ u # t =>
           (Over(new, u) => Over(st, u))
  BY <1>1, <1>2 DEF Over, Terminal
<1> QED
  BY <1>3 DEF new

-----------------------------------------------------------------------------
(* processChannel                                                          *)

\* A line survives a step that starts none of its tasks and answers those it
\* ends.
LEMMA OtherLine ==
  ASSUME NEW d, NEW q, NEW busy,
         NEW st, NEW ph, NEW ans, NEW st2, NEW ph2, NEW ans2,
         Line(d, q, busy, st, ph, ans),
         \A i \in 1 .. Len(q) :
           /\ ph2[q[i]] = ph[q[i]]
           /\ st2[q[i]] # "ABSENT"
           /\ Over(st2, q[i]) => Over(st, q[i]) \/ ans2[q[i]] # {}
           /\ ans[q[i]] \subseteq ans2[q[i]]
  PROVE  Line(d, q, busy, st2, ph2, ans2)
BY DEF Line, LineOK, LineAnswered

LEMMA ProcessChannelKeeps ==
  ASSUME NEW c \in Channels, NEW q, NEW busy, NEW st, NEW ph, NEW tm, NEW mp, NEW ans,
         queue \in [Channels -> Seq(Tasks)],
         processing \in [Channels -> BOOLEAN],
         Whole(st, ph, tm, mp, ans),
         Line(c, q, busy, st, ph, ans),
         \A d \in Channels \ {c} : Line(d, queue[d], processing[d], st, ph, ans),
         ProcessChannel(c, q, busy, st, ph, tm, mp)
  PROVE  /\ queue' \in [Channels -> Seq(Tasks)]
         /\ processing' \in [Channels -> BOOLEAN]
         /\ Whole(state', phase', timers', mapped', ans)
         /\ \A d \in Channels : Line(d, queue'[d], processing'[d], state', phase', ans)
<1>0. q \in Seq(Tasks) /\ busy \in BOOLEAN
  BY DEF Line
<1> DEFINE h == Head(q)
<1>1. CASE Leave(c, q, busy, st, ph, tm, mp)
  BY <1>0, <1>1 DEF Leave
<1>2. ASSUME ~busy, q # <<>>
      PROVE  /\ h \in Tasks
             /\ h = q[1]
             /\ 1 \in 1 .. Len(q)
             /\ ph[h] = "idle"
             /\ st[h] # "ABSENT"
             /\ ChannelOf[h] = c
             /\ Over(st, h) => ans[h] # {}
  BY <1>0, <1>2, HeadInLine DEF Line, LineOK, LineAnswered
<1>3. \A d \in Channels \ {c} : \A i \in 1 .. Len(queue[d]) :
        /\ queue[d][i] \in Tasks
        /\ ChannelOf[queue[d][i]] = d
        /\ st[queue[d][i]] # "ABSENT"
  BY QueuedIsTask DEF Line, LineOK
<1>4. CASE Start(c, q, busy, st, ph, tm, mp)
  <2>1. ~busy /\ q # <<>>
    BY <1>4 DEF Start, ExecuteTaskLogic
  <2>2. /\ state' = UpdateState(st, h, "RUNNING")
        /\ phase' = [ph EXCEPT ![h] = "executing"]
        /\ timers' = tm \union {h}
        /\ mapped' = mp \union {h}
        /\ queue' = [queue EXCEPT ![c] = q]
        /\ processing' = [processing EXCEPT ![c] = TRUE]
    BY <1>4 DEF Start, ExecuteTaskLogic
  <2>3. /\ state' \in [Tasks -> TaskState \union {"ABSENT", "PURGED"}]
        /\ \A u \in Tasks :
             /\ state'[u] = "ABSENT" <=> st[u] = "ABSENT"
             /\ Over(state', u) => Over(st, u)
    <3>1. "RUNNING" \in TaskState
      BY DEF TaskState
    <3>2. st \in [Tasks -> TaskState \union {"ABSENT", "PURGED"}]
      BY DEF Whole
    <3>3. h \in Tasks
      BY <1>2, <2>1
    <3> HIDE DEF h
    <3>4. /\ \A u \in Tasks : state'[u] = "ABSENT" <=> st[u] = "ABSENT"
          /\ \A u \in Tasks : Over(state', u) => Over(st, u)
      BY <2>2, <3>1, <3>2, <3>3, UpdateKeeps
    <3> QED
      BY <2>2, <3>1, <3>2, <3>3, <3>4, UpdateOnly
  <2>4. /\ phase' \in [Tasks -> Phase]
        /\ phase'[h] = "executing"
        /\ \A u \in Tasks \ {h} : phase'[u] = ph[u]
    BY <1>2, <2>1, <2>2 DEF Whole, Phase
  <2>5. Whole(state', phase', timers', mapped', ans)
    <3> HIDE DEF h
    <3>1. Untouched(state', phase')
      BY <1>2, <2>1, <2>3, <2>4 DEF Whole, Untouched
    <3>2. Scoped(phase', timers', mapped')
      BY <1>2, <2>1, <2>2, <2>4 DEF Whole, Scoped
    <3>3. Answered(state', phase', ans)
      BY <1>2, <2>1, <2>3, <2>4 DEF Whole, Answered
    <3> QED
      BY <1>2, <2>1, <2>2, <2>3, <2>4, <3>1, <3>2, <3>3 DEF Whole
  <2>6. Line(c, q, TRUE, state', phase', ans)
    <3> HIDE DEF h
    <3>1. \A i \in 1 .. Len(q) : q[i] \in Tasks
      BY <1>0, QueuedIsTask
    <3>2. \A i \in 1 .. Len(q) : q[i] = h => i = 1
      BY <1>2, <2>1 DEF Line, LineOK
    <3>3. LineOK(c, q, TRUE, state', phase')
      BY <1>2, <2>1, <2>3, <2>4, <3>1, <3>2 DEF Line, LineOK
    <3>4. LineAnswered(q, state', ans)
      BY <2>3, <3>1 DEF Line, LineAnswered
    <3> QED
      BY <1>0, <3>3, <3>4 DEF Line
  <2>7. ASSUME NEW d \in Channels \ {c}
        PROVE  Line(d, queue[d], processing[d], state', phase', ans)
    <3> HIDE DEF h
    <3>1. \A i \in 1 .. Len(queue[d]) :
            /\ phase'[queue[d][i]] = ph[queue[d][i]]
            /\ state'[queue[d][i]] # "ABSENT"
            /\ Over(state', queue[d][i]) => Over(st, queue[d][i])
      BY <1>2, <1>3, <2>1, <2>3, <2>4
    <3> QED
      BY <3>1, OtherLine
  <2> QED
    BY <1>0, <2>2, <2>5, <2>6, <2>7
<1>5. CASE Skip(c, q, busy, st, ph, tm, mp)
  <2>1. ~busy /\ q # <<>> /\ ~Known(st, h)
    BY <1>5 DEF Skip
  <2>2. /\ state' = st
        /\ phase' = [ph EXCEPT ![h] = "skipped"]
        /\ timers' = tm
        /\ mapped' = mp
        /\ queue' = [queue EXCEPT ![c] = Dequeue(q)]
        /\ processing' = [processing EXCEPT ![c] = FALSE]
    BY <1>5, <2>1 DEF Skip, Dequeue
  <2>3. /\ phase' \in [Tasks -> Phase]
        /\ phase'[h] = "skipped"
        /\ \A u \in Tasks \ {h} : phase'[u] = ph[u]
    BY <1>2, <2>1, <2>2 DEF Whole, Phase
  <2>4. ans[h] # {}
    BY <1>2, <2>1 DEF Whole, Known, Over
  <2>5. Whole(state', phase', timers', mapped', ans)
    <3> HIDE DEF h
    <3>1. Untouched(state', phase')
      BY <1>2, <2>1, <2>2, <2>3 DEF Whole, Untouched
    <3>2. Scoped(phase', timers', mapped')
      BY <1>2, <2>1, <2>2, <2>3 DEF Whole, Scoped
    <3>3. Answered(state', phase', ans)
      BY <1>2, <2>1, <2>2, <2>3, <2>4 DEF Whole, Answered
    <3> QED
      BY <2>2, <2>3, <3>1, <3>2, <3>3 DEF Whole
  <2>6. Line(c, Dequeue(q), FALSE, state', phase', ans)
    <3>1. /\ Dequeue(q) \in Seq(Tasks)
          /\ Line(c, Dequeue(q), FALSE, st, ph, ans)
      BY <1>0, TailUnstarted, TailAnswered DEF Line
    <3>2. \A i \in 1 .. Len(Dequeue(q)) :
            /\ Dequeue(q)[i] \in Tasks
            /\ Dequeue(q)[i] # h
            /\ st[Dequeue(q)[i]] # "ABSENT"
      <4>1. \A i \in 1 .. Len(Tail(q)) : Tail(q)[i] = q[i + 1] /\ i + 1 \in 1 .. Len(q)
        BY <1>0, <2>1, HeadTailProperties, LenProperties
      <4>2. \A i \in 1 .. Len(Tail(q)) : Tail(q)[i] # h
        BY <4>1, <1>2, <2>1 DEF Line, LineOK
      <4> HIDE DEF h
      <4> QED
        BY <2>1, <3>1, <4>2, QueuedIsTask DEF Dequeue, Line, LineOK
    <3> HIDE DEF h
    <3> QED
      BY <2>2, <2>3, <3>1, <3>2, OtherLine
  <2>7. ASSUME NEW d \in Channels \ {c}
        PROVE  Line(d, queue[d], processing[d], state', phase', ans)
    <3> HIDE DEF h
    <3>1. \A i \in 1 .. Len(queue[d]) :
            /\ phase'[queue[d][i]] = ph[queue[d][i]]
            /\ state'[queue[d][i]] # "ABSENT"
      BY <1>2, <1>3, <2>1, <2>2, <2>3
    <3>2. /\ Line(d, queue[d], processing[d], st, ph, ans)
          /\ queue[d] \in Seq(Tasks)
          /\ processing[d] \in BOOLEAN
      OBVIOUS
    <3>3. LineOK(d, queue[d], processing[d], st, phase')
      <4>1. LineOK(d, queue[d], processing[d], st, ph)
        BY <3>2 DEF Line
      <4>2. \A i \in 1 .. Len(queue[d]) : phase'[queue[d][i]] = ph[queue[d][i]]
        BY <3>1
      <4> QED
        BY <4>1, <4>2 DEF LineOK
    <3>4. LineAnswered(queue[d], st, ans)
      BY <3>2 DEF Line
    <3> QED
      BY <2>2, <3>2, <3>3, <3>4 DEF Line
  <2>8. Dequeue(q) \in Seq(Tasks)
    BY <2>6 DEF Line
  <2> QED
    BY <2>2, <2>5, <2>6, <2>7, <2>8
<1> QED
  BY <1>1, <1>4, <1>5 DEF ProcessChannel

-----------------------------------------------------------------------------
(* The operations keep the invariant                                       *)

LEMMA InvariantInit == Init => IInv
<1> SUFFICES ASSUME Init
             PROVE  IInv
  OBVIOUS
<1>1. Whole(state, phase, timers, mapped, answers)
  BY DEF Init, Whole, Untouched, Scoped, Answered, Phase
<1>2. ASSUME NEW c \in Channels
      PROVE  Line(c, queue[c], processing[c], state, phase, answers)
  <2>1. queue[c] = <<>> /\ processing[c] = FALSE
    BY DEF Init
  <2>2. queue[c] \in Seq(Tasks) /\ 1 .. Len(queue[c]) = {}
    BY <2>1, EmptySeq
  <2> QED
    BY <2>1, <2>2 DEF Line, LineOK, LineAnswered
<1>3. /\ queue \in [Channels -> Seq(Tasks)]
      /\ processing \in [Channels -> BOOLEAN]
      /\ approvals \in [Tasks -> 0 .. MaxApprovals]
      /\ intervals \in BOOLEAN
  BY EmptySeq, MaxApprovalsType DEF Init
<1> QED
  BY <1>1, <1>2, <1>3 DEF IInv

\* A task that is not registered yet is in no queue.
LEMMA AbsentNotQueued ==
  ASSUME IInv, NEW t \in Tasks, state[t] = "ABSENT",
         NEW c \in Channels, NEW i \in 1 .. Len(queue[c])
  PROVE  queue[c][i] # t
BY DEF IInv, Line, LineOK

\* What a new task hands to ProcessChannel
LEMMA AcceptHands ==
  ASSUME IInv, NEW t \in Tasks, state[t] = "ABSENT",
         NEW st, st = [state EXCEPT ![t] = "PENDING"],
         NEW c, c = ChannelOf[t]
  PROVE  /\ Whole(st, phase, timers, mapped, answers)
         /\ \A d \in Channels : Line(d, queue[d], processing[d], st, phase, answers)
         /\ Line(c, Append(queue[c], t), processing[c], st, phase, answers)
<1> DEFINE q == Append(queue[c], t)
<1>0. c \in Channels
  BY ChannelOfType
<1>1. /\ st \in [Tasks -> TaskState \union {"ABSENT", "PURGED"}]
      /\ st[t] = "PENDING"
      /\ \A u \in Tasks \ {t} : st[u] = state[u]
      /\ phase[t] = "idle"
  BY DEF IInv, Whole, Untouched, TaskState
<1>3. Whole(st, phase, timers, mapped, answers)
  BY <1>1 DEF IInv, Whole, Untouched, Answered, Over
<1>4. ASSUME NEW d \in Channels
      PROVE  Line(d, queue[d], processing[d], st, phase, answers)
  <2>1. Line(d, queue[d], processing[d], state, phase, answers)
    BY DEF IInv
  <2>2. queue[d] \in Seq(Tasks) /\ processing[d] \in BOOLEAN
    BY <2>1 DEF Line
  <2>3. \A i \in 1 .. Len(queue[d]) :
          /\ queue[d][i] \in Tasks \ {t}
          /\ state[queue[d][i]] # "ABSENT"
    BY <2>1, <2>2, QueuedIsTask, AbsentNotQueued DEF Line, LineOK
  <2>4. \A i \in 1 .. Len(queue[d]) :
          st[queue[d][i]] # "ABSENT" /\ (Over(st, queue[d][i]) => Over(state, queue[d][i]))
    BY <2>3, <1>1 DEF Over
  <2> QED
    BY <2>1, <2>2, <2>4, OtherLine
<1>5. Line(c, q, processing[c], st, phase, answers)
  <2>1. /\ queue[c] \in Seq(Tasks)
        /\ q \in Seq(Tasks)
        /\ Len(queue[c]) \in Nat
        /\ Len(q) = Len(queue[c]) + 1
        /\ \A i \in 1 .. Len(queue[c]) : q[i] = queue[c][i]
        /\ q[Len(q)] = t
    BY <1>0, AppendProperties, LenProperties DEF IInv
  <2>2. \A i \in 1 .. Len(queue[c]) : queue[c][i] # t
    BY <1>0, AbsentNotQueued
  <2>3. Line(c, queue[c], processing[c], st, phase, answers)
    BY <1>0, <1>4
  <2> HIDE DEF q
  <2>4. \A i \in 1 .. Len(q) : i \in 1 .. Len(queue[c]) \/ i = Len(q)
    BY <2>1
  <2>5. LineOK(c, q, processing[c], st, phase)
    <3>1. ChannelOf[t] = c
      OBVIOUS
    <3>2. LineOK(c, queue[c], processing[c], st, phase)
      BY <2>3 DEF Line
    <3>3. \A i \in 1 .. Len(q) :
            /\ ChannelOf[q[i]] = c
            /\ st[q[i]] # "ABSENT"
            /\ \/ phase[q[i]] = "idle"
               \/ phase[q[i]] = "executing" /\ i = 1 /\ processing[c]
      BY <1>1, <2>1, <2>4, <3>1, <3>2 DEF LineOK
    <3>4. \A i, j \in 1 .. Len(q) : q[i] = q[j] => i = j
      BY <2>1, <2>2, <2>4, <3>2 DEF LineOK
    <3> QED
      BY <3>3, <3>4 DEF LineOK
  <2>6. LineAnswered(q, st, answers)
    <3>1. ~Over(st, t)
      BY <1>1 DEF Over, Terminal
    <3>2. LineAnswered(queue[c], st, answers)
      BY <2>3 DEF Line
    <3> QED
      BY <2>1, <2>4, <3>1, <3>2 DEF LineAnswered
  <2> QED
    BY <2>1, <2>3, <2>5, <2>6 DEF Line
<1> QED
  BY <1>3, <1>4, <1>5

LEMMA AcceptKeeps ==
  ASSUME IInv, NEW t \in Tasks, state[t] = "ABSENT", Accept(t),
         UNCHANGED <<approvals, answers, intervals>>
  PROVE  IInv'
<1> DEFINE c == ChannelOf[t]
           q == Append(queue[c], t)
           st == [state EXCEPT ![t] = "PENDING"]
<1>1. /\ c \in Channels
      /\ ProcessChannel(c, q, processing[c], st, phase, timers, mapped)
  BY ChannelOfType DEF Accept
<1>2. /\ Whole(st, phase, timers, mapped, answers)
      /\ \A d \in Channels : Line(d, queue[d], processing[d], st, phase, answers)
      /\ Line(c, q, processing[c], st, phase, answers)
  BY AcceptHands
<1> HIDE DEF c, q, st
<1>3. /\ queue' \in [Channels -> Seq(Tasks)]
      /\ processing' \in [Channels -> BOOLEAN]
      /\ Whole(state', phase', timers', mapped', answers)
      /\ \A d \in Channels : Line(d, queue'[d], processing'[d], state', phase', answers)
  <2>1. /\ queue \in [Channels -> Seq(Tasks)]
        /\ processing \in [Channels -> BOOLEAN]
    BY DEF IInv
  <2> QED
    BY <1>1, <1>2, <2>1, ProcessChannelKeeps
<1> QED
  BY <1>3 DEF IInv

LEMMA RefuseKeeps ==
  ASSUME IInv, NEW t \in Tasks, state[t] = "ABSENT", Refuse(t),
         UNCHANGED <<approvals, answers, intervals>>
  PROVE  IInv'
<1>1. /\ state' \in [Tasks -> TaskState \union {"ABSENT", "PURGED"}]
      /\ \A u \in Tasks \ {t} : state'[u] = state[u]
      /\ phase[t] = "idle"
      /\ UNCHANGED <<queue, processing, phase, timers, mapped>>
  BY DEF IInv, Whole, Untouched, TaskState, Refuse
<1>2. Whole(state', phase', timers', mapped', answers')
  BY <1>1 DEF IInv, Whole, Untouched, Answered, Over, Scoped
<1>3. ASSUME NEW d \in Channels
      PROVE  Line(d, queue[d], processing[d], state', phase, answers)
  <2>1. Line(d, queue[d], processing[d], state, phase, answers)
    BY DEF IInv
  <2>2. queue[d] \in Seq(Tasks) /\ processing[d] \in BOOLEAN
    BY <2>1 DEF Line
  <2>3. \A i \in 1 .. Len(queue[d]) :
          /\ queue[d][i] \in Tasks \ {t}
          /\ state[queue[d][i]] # "ABSENT"
    BY <2>1, <2>2, QueuedIsTask, AbsentNotQueued DEF Line, LineOK
  <2>4. \A i \in 1 .. Len(queue[d]) :
          /\ state'[queue[d][i]] # "ABSENT"
          /\ Over(state', queue[d][i]) => Over(state, queue[d][i])
    BY <2>3, <1>1 DEF Over
  <2> QED
    BY <2>1, <2>2, <2>4, OtherLine
<1> QED
  BY <1>1, <1>2, <1>3 DEF IInv

\* What an execution that settles hands to ProcessChannel, if at most its own
\* task changes state, and is answered
LEMMA SettleHands ==
  ASSUME IInv, NEW t \in Tasks, phase[t] = "executing",
         NEW st \in [Tasks -> TaskState \union {"ABSENT", "PURGED"}],
         \A u \in Tasks : st[u] = "ABSENT" <=> state[u] = "ABSENT",
         \A u \in Tasks \ {t} : st[u] = state[u],
         answers' \in [Tasks -> SUBSET {"completed", "failed"}],
         answers'[t] # {},
         \A u \in Tasks \ {t} : answers'[u] = answers[u],
         NEW ph, ph = [phase EXCEPT ![t] = "ended"],
         NEW c, c = ChannelOf[t]
  PROVE  /\ Whole(st, ph, timers \ {t}, mapped \ {t}, answers')
         /\ Line(c, Dequeue(queue[c]), FALSE, st, ph, answers')
         /\ \A d \in Channels \ {c} :
              Line(d, queue[d], processing[d], st, ph, answers')
<1> DEFINE q == Dequeue(queue[c])
<1>0. c \in Channels
  BY ChannelOfType
<1>1. phase[t] = "executing"
  OBVIOUS
<1>2. /\ Whole(state, phase, timers, mapped, answers)
      /\ \A d \in Channels : queue[d] \in Seq(Tasks)
      /\ \A d \in Channels : Line(d, queue[d], processing[d], state, phase, answers)
  BY DEF IInv
<1>3. /\ ph \in [Tasks -> Phase]
      /\ ph[t] = "ended"
      /\ \A u \in Tasks \ {t} : ph[u] = phase[u]
  BY <1>2 DEF Whole, Phase
<1>4. Whole(st, ph, timers \ {t}, mapped \ {t}, answers')
  <2>1. Untouched(st, ph)
    BY <1>1, <1>2, <1>3 DEF Whole, Untouched
  <2>2. Scoped(ph, timers \ {t}, mapped \ {t})
    BY <1>2, <1>3 DEF Whole, Scoped
  <2>3. Answered(st, ph, answers')
    BY <1>2, <1>3 DEF Whole, Answered, Over
  <2> QED
    BY <1>2, <1>3, <2>1, <2>2, <2>3 DEF Whole
<1>5. Line(c, q, FALSE, st, ph, answers')
  <2>1. queue[c] \in Seq(Tasks) /\ Line(c, queue[c], processing[c], state, phase, answers)
    BY <1>0, <1>2
  <2>2. /\ Line(c, q, FALSE, state, phase, answers)
        /\ q \in Seq(Tasks)
        /\ \A i \in 1 .. Len(q) : phase[q[i]] = "idle"
    <3>1. /\ processing[c] \in BOOLEAN
          /\ LineOK(c, queue[c], processing[c], state, phase)
          /\ LineAnswered(queue[c], state, answers)
      BY <2>1 DEF Line
    <3>2. q \in Seq(Tasks) /\ LineOK(c, q, FALSE, state, phase)
      BY <2>1, <3>1, TailUnstarted
    <3>3. LineAnswered(q, state, answers)
      BY <2>1, <3>1, TailAnswered
    <3> HIDE DEF q
    <3>4. \A i \in 1 .. Len(q) : phase[q[i]] = "idle"
      BY <3>2 DEF LineOK
    <3> QED
      BY <3>2, <3>3, <3>4 DEF Line
  <2> HIDE DEF q
  <2>3. \A i \in 1 .. Len(q) : q[i] \in Tasks \ {t} /\ state[q[i]] # "ABSENT"
    BY <1>1, <2>2, QueuedIsTask DEF Line, LineOK
  <2>4. \A i \in 1 .. Len(q) :
          /\ ph[q[i]] = phase[q[i]]
          /\ st[q[i]] # "ABSENT"
          /\ Over(st, q[i]) => Over(state, q[i]) \/ answers'[q[i]] # {}
          /\ answers[q[i]] \subseteq answers'[q[i]]
    BY <1>3, <2>3 DEF Over
  <2> QED
    BY <2>2, <2>4 DEF Line, LineOK, LineAnswered
<1>6. ASSUME NEW d \in Channels \ {c}
      PROVE  Line(d, queue[d], processing[d], st, ph, answers')
  <2>1. queue[d] \in Seq(Tasks) /\ Line(d, queue[d], processing[d], state, phase, answers)
    BY <1>2
  <2>2. \A i \in 1 .. Len(queue[d]) :
          queue[d][i] \in Tasks \ {t} /\ state[queue[d][i]] # "ABSENT"
    BY <2>1, QueuedIsTask DEF Line, LineOK
  <2>3. \A i \in 1 .. Len(queue[d]) :
          /\ ph[queue[d][i]] = phase[queue[d][i]]
          /\ st[queue[d][i]] # "ABSENT"
          /\ Over(st, queue[d][i]) =>
               Over(state, queue[d][i]) \/ answers'[queue[d][i]] # {}
          /\ answers[queue[d][i]] \subseteq answers'[queue[d][i]]
    BY <1>3, <2>2 DEF Over
  <2> QED
    BY <2>1, <2>3 DEF Line, LineOK, LineAnswered
<1> QED
  BY <1>4, <1>5, <1>6

LEMMA SettleKeeps ==
  ASSUME IInv, NEW t \in Tasks,
         NEW st \in [Tasks -> TaskState \union {"ABSENT", "PURGED"}],
         \A u \in Tasks : st[u] = "ABSENT" <=> state[u] = "ABSENT",
         \A u \in Tasks \ {t} : st[u] = state[u],
         answers' \in [Tasks -> SUBSET {"completed", "failed"}],
         answers'[t] # {},
         \A u \in Tasks \ {t} : answers'[u] = answers[u],
         Settle(t, st)
  PROVE  IInv'
<1> DEFINE c == ChannelOf[t]
           q == Dequeue(queue[c])
           ph == [phase EXCEPT ![t] = "ended"]
<1>1. /\ c \in Channels
      /\ phase[t] = "executing"
      /\ ProcessChannel(c, q, FALSE, st, ph, timers \ {t}, mapped \ {t})
      /\ UNCHANGED <<approvals, intervals>>
  BY ChannelOfType DEF Settle
<1>2. /\ Whole(st, ph, timers \ {t}, mapped \ {t}, answers')
      /\ Line(c, q, FALSE, st, ph, answers')
      /\ \A d \in Channels \ {c} : Line(d, queue[d], processing[d], st, ph, answers')
  BY <1>1, SettleHands
<1> HIDE DEF c, q, ph
<1>3. /\ queue' \in [Channels -> Seq(Tasks)]
      /\ processing' \in [Channels -> BOOLEAN]
      /\ Whole(state', phase', timers', mapped', answers')
      /\ \A d \in Channels : Line(d, queue'[d], processing'[d], state', phase', answers')
  <2>1. /\ queue \in [Channels -> Seq(Tasks)]
        /\ processing \in [Channels -> BOOLEAN]
    BY DEF IInv
  <2> QED
    BY <1>1, <1>2, <2>1, ProcessChannelKeeps
<1> QED
  BY <1>1, <1>3 DEF IInv

\* The operations that leave queues and executions alone only have to answer
\* the tasks they end.
LEMMA StillKeeps ==
  ASSUME IInv,
         UNCHANGED <<queue, processing, phase>>,
         state' \in [Tasks -> TaskState \union {"ABSENT", "PURGED"}],
         timers' \subseteq timers,
         mapped' \subseteq mapped,
         approvals' \in [Tasks -> 0 .. MaxApprovals],
         answers' \in [Tasks -> SUBSET {"completed", "failed"}],
         intervals' \in BOOLEAN,
         \A u \in Tasks :
           /\ state'[u] = "ABSENT" <=> state[u] = "ABSENT"
           /\ Over(state', u) => Over(state, u) \/ answers'[u] # {}
           /\ answers[u] \subseteq answers'[u]
  PROVE  IInv'
<1>1. Whole(state, phase, timers, mapped, answers)
  BY DEF IInv
<1>2. Whole(state', phase', timers', mapped', answers')
  <2>1. Untouched(state', phase')
    BY <1>1 DEF Whole, Untouched
  <2>2. Scoped(phase', timers', mapped')
    BY <1>1 DEF Whole, Scoped
  <2>3. Answered(state', phase', answers')
    BY <1>1 DEF Whole, Answered
  <2> QED
    BY <1>1, <2>1, <2>2, <2>3 DEF Whole
<1>3. ASSUME NEW d \in Channels
      PROVE  Line(d, queue[d], processing[d], state', phase, answers')
  <2>1. queue[d] \in Seq(Tasks) /\ Line(d, queue[d], processing[d], state, phase, answers)
    BY DEF IInv
  <2>2. \A i \in 1 .. Len(queue[d]) :
          queue[d][i] \in Tasks /\ state[queue[d][i]] # "ABSENT"
    BY <2>1, QueuedIsTask DEF Line, LineOK
  <2>3. \A i \in 1 .. Len(queue[d]) :
          /\ state'[queue[d][i]] # "ABSENT"
          /\ Over(state', queue[d][i]) =>
               Over(state, queue[d][i]) \/ answers'[queue[d][i]] # {}
          /\ answers[queue[d][i]] \subseteq answers'[queue[d][i]]
    BY <2>2
  <2> QED
    BY <2>1, <2>3 DEF Line, LineOK, LineAnswered
<1> QED
  BY <1>2, <1>3 DEF IInv

\* A final response is added, and is there.
LEMMA AnswerAdds ==
  ASSUME NEW t \in Tasks, NEW status \in {"completed", "failed"},
         answers \in [Tasks -> SUBSET {"completed", "failed"}]
  PROVE  /\ Answer(t, status) \in [Tasks -> SUBSET {"completed", "failed"}]
         /\ Answer(t, status)[t] # {}
         /\ \A u \in Tasks \ {t} : Answer(t, status)[u] = answers[u]
         /\ \A u \in Tasks : answers[u] \subseteq Answer(t, status)[u]
BY DEF Answer

\* What IInv says of the types
LEMMA InvTypes ==
  ASSUME IInv
  PROVE  /\ state \in [Tasks -> TaskState \union {"ABSENT", "PURGED"}]
         /\ phase \in [Tasks -> Phase]
         /\ answers \in [Tasks -> SUBSET {"completed", "failed"}]
         /\ approvals \in [Tasks -> 0 .. MaxApprovals]
         /\ intervals \in BOOLEAN
BY DEF IInv, Whole

\* updateState applied to the registry as it is
LEMMA UpdateNow ==
  ASSUME IInv, NEW t \in Tasks, NEW to \in TaskState
  PROVE  /\ UpdateState(state, t, to) \in [Tasks -> TaskState \union {"ABSENT", "PURGED"}]
         /\ \A u \in Tasks : UpdateState(state, t, to)[u] = "ABSENT" <=> state[u] = "ABSENT"
         /\ \A u \in Tasks \ {t} : UpdateState(state, t, to)[u] = state[u]
         /\ to \in {"RUNNING", "PAUSED"} =>
              \A u \in Tasks : Over(UpdateState(state, t, to), u) => Over(state, u)
<1>1. state \in [Tasks -> TaskState \union {"ABSENT", "PURGED"}]
  BY InvTypes
<1>2. /\ UpdateState(state, t, to) \in [Tasks -> TaskState \union {"ABSENT", "PURGED"}]
      /\ \A u \in Tasks \ {t} : UpdateState(state, t, to)[u] = state[u]
  BY <1>1 DEF UpdateState
<1>3. \A u \in Tasks :
        /\ UpdateState(state, t, to)[u] = "ABSENT" <=> state[u] = "ABSENT"
        /\ to \in {"RUNNING", "PAUSED"} =>
             (Over(UpdateState(state, t, to), u) => Over(state, u))
  BY <1>1, UpdateKeeps
<1> QED
  BY <1>2, <1>3

LEMMA ReturnsKeeps ==
  ASSUME IInv, NEW t \in Tasks, ExecutionReturns(t)
  PROVE  IInv'
<1> DEFINE st == UpdateState(state, t, "DONE")
<1>1. /\ "DONE" \in TaskState
      /\ Settle(t, st)
      /\ answers' = Answer(t, "completed")
  BY DEF ExecutionReturns, TaskState
<1>2. /\ st \in [Tasks -> TaskState \union {"ABSENT", "PURGED"}]
      /\ \A u \in Tasks : st[u] = "ABSENT" <=> state[u] = "ABSENT"
      /\ \A u \in Tasks \ {t} : st[u] = state[u]
  BY <1>1, UpdateNow
<1>3. /\ answers' \in [Tasks -> SUBSET {"completed", "failed"}]
      /\ answers'[t] # {}
      /\ \A u \in Tasks \ {t} : answers'[u] = answers[u]
  BY <1>1, InvTypes, AnswerAdds
<1> HIDE DEF st
<1> QED
  BY <1>1, <1>2, <1>3, SettleKeeps

\* Nothing is said when the registry has forgotten the task, but then it had
\* been answered before.
LEMMA ThrowsKeeps ==
  ASSUME IInv, NEW t \in Tasks, ExecutionThrows(t)
  PROVE  IInv'
<1> DEFINE st == UpdateState(state, t, "FAILED")
<1>1. /\ "FAILED" \in TaskState
      /\ Settle(t, st)
      /\ answers' = IF Known(state, t) THEN Answer(t, "failed") ELSE answers
  BY DEF ExecutionThrows, TaskState
<1>2. /\ st \in [Tasks -> TaskState \union {"ABSENT", "PURGED"}]
      /\ \A u \in Tasks : st[u] = "ABSENT" <=> state[u] = "ABSENT"
      /\ \A u \in Tasks \ {t} : st[u] = state[u]
  BY <1>1, UpdateNow
<1>3. /\ answers' \in [Tasks -> SUBSET {"completed", "failed"}]
      /\ answers'[t] # {}
      /\ \A u \in Tasks \ {t} : answers'[u] = answers[u]
  <2>1. CASE Known(state, t)
    BY <1>1, <2>1, InvTypes, AnswerAdds
  <2>2. CASE ~Known(state, t)
    <3>1. phase[t] = "executing"
      BY <1>1 DEF Settle
    <3>2. Over(state, t)
      BY <2>2, <3>1 DEF IInv, Whole, Untouched, Known, Over
    <3>3. answers[t] # {}
      BY <3>1, <3>2 DEF IInv, Whole, Answered
    <3> QED
      BY <1>1, <2>2, <3>3, InvTypes
  <2> QED
    BY <2>1, <2>2
<1> HIDE DEF st
<1> QED
  BY <1>1, <1>2, <1>3, SettleKeeps

LEMMA TimeoutKeeps ==
  ASSUME IInv, NEW t \in Tasks, Timeout(t)
  PROVE  IInv'
<1>1. /\ UNCHANGED <<queue, processing, phase, mapped, approvals, intervals>>
      /\ timers' \subseteq timers
      /\ state' = UpdateState(state, t, "FAILED")
      /\ answers' = IF Known(state, t) THEN Answer(t, "failed") ELSE answers
      /\ "FAILED" \in TaskState
  BY DEF Timeout, TaskState
<1>2. /\ state' \in [Tasks -> TaskState \union {"ABSENT", "PURGED"}]
      /\ \A u \in Tasks : state'[u] = "ABSENT" <=> state[u] = "ABSENT"
      /\ \A u \in Tasks \ {t} : state'[u] = state[u]
  BY <1>1, UpdateNow
<1>3. /\ answers' \in [Tasks -> SUBSET {"completed", "failed"}]
      /\ Known(state, t) => answers'[t] # {}
      /\ \A u \in Tasks : answers[u] \subseteq answers'[u]
  BY <1>1, InvTypes, AnswerAdds
<1>4. Over(state', t) => Over(state, t) \/ Known(state, t)
  <2>1. ~Known(state, t) => state'[t] = state[t]
    <3>1. ~Known(state, t) => <<state[t], "FAILED">> \notin ValidTransition
      BY DEF Known, ValidTransition, TaskState
    <3> QED
      BY <1>1, <3>1 DEF UpdateState
  <2> QED
    BY <2>1 DEF Over
<1>5. \A u \in Tasks : Over(state', u) => Over(state, u) \/ answers'[u] # {}
  BY <1>2, <1>3, <1>4 DEF Over
<1> QED
  BY <1>1, <1>2, <1>3, <1>5, InvTypes, StillKeeps

LEMMA AbortKeeps ==
  ASSUME IInv, NEW t \in Tasks, AbortTask(t)
  PROVE  IInv'
<1>1. /\ UNCHANGED <<queue, processing, phase, approvals, intervals>>
      /\ timers' \subseteq timers
      /\ mapped' \subseteq mapped
      /\ answers' = Answer(t, "failed")
      /\ state' = [state EXCEPT ![t] = "ABORTED"]
      /\ state[t] # "ABSENT"
  BY DEF AbortTask
<1>2. /\ state' \in [Tasks -> TaskState \union {"ABSENT", "PURGED"}]
      /\ \A u \in Tasks : state'[u] = "ABSENT" <=> state[u] = "ABSENT"
      /\ \A u \in Tasks \ {t} : state'[u] = state[u]
  BY <1>1, InvTypes DEF TaskState
<1>3. /\ answers' \in [Tasks -> SUBSET {"completed", "failed"}]
      /\ answers'[t] # {}
      /\ \A u \in Tasks : answers[u] \subseteq answers'[u]
  BY <1>1, InvTypes, AnswerAdds
<1>4. \A u \in Tasks : Over(state', u) => Over(state, u) \/ answers'[u] # {}
  BY <1>2, <1>3 DEF Over
<1> QED
  BY <1>1, <1>2, <1>3, <1>4, InvTypes, StillKeeps

\* Housekeeping and shutdown end no task.
LEMMA HousekeepingKeeps ==
  ASSUME IInv, Cleanup \/ ExpireMappings \/ ExpireApprovals \/ Shutdown
  PROVE  IInv'
<1>1. CASE Cleanup
  <2>1. PICK old \in SUBSET {t \in Tasks : state[t] \in Terminal} :
          state' = [t \in Tasks |-> IF t \in old THEN "PURGED" ELSE state[t]]
    BY <1>1 DEF Cleanup
  <2>2. UNCHANGED <<queue, processing, phase, timers, mapped, approvals, answers,
                    intervals>>
    BY <1>1 DEF Cleanup
  <2>3. /\ state' \in [Tasks -> TaskState \union {"ABSENT", "PURGED"}]
        /\ \A u \in Tasks : state'[u] = "ABSENT" <=> state[u] = "ABSENT"
        /\ \A u \in Tasks : Over(state', u) => Over(state, u)
    BY <2>1, InvTypes DEF Over, Terminal
  <2> QED
    BY <2>2, <2>3, InvTypes, StillKeeps
<1>2. CASE ExpireMappings
  <2>1. mapped' \subseteq mapped
    BY <1>2 DEF ExpireMappings
  <2>2. UNCHANGED <<state, queue, processing, phase, timers, approvals, answers,
                    intervals>>
    BY <1>2 DEF ExpireMappings
  <2> QED
    BY <2>1, <2>2, InvTypes, StillKeeps
<1>3. CASE ExpireApprovals
  <2>1. approvals' \in [Tasks -> 0 .. MaxApprovals]
    BY <1>3 DEF ExpireApprovals
  <2>2. UNCHANGED <<state, queue, processing, phase, timers, mapped, answers,
                    intervals>>
    BY <1>3 DEF ExpireApprovals
  <2> QED
    BY <2>1, <2>2, InvTypes, StillKeeps
<1>4. CASE Shutdown
  <2>1. /\ timers' = {}
        /\ mapped' = {}
        /\ intervals' = FALSE
        /\ approvals' \in [Tasks -> 0 .. MaxApprovals]
    BY <1>4, MaxApprovalsType DEF Shutdown
  <2>2. UNCHANGED <<state, queue, processing, phase, answers>>
    BY <1>4 DEF Shutdown
  <2> QED
    BY <2>1, <2>2, InvTypes, StillKeeps
<1> QED
  BY <1>1, <1>2, <1>3, <1>4

LEMMA RequestKeeps ==
  ASSUME IInv, NEW t \in Tasks, ApprovalRequested(t)
  PROVE  IInv'
<1>1. /\ UNCHANGED <<queue, processing, phase, timers, mapped, answers, intervals>>
      /\ state' = UpdateState(state, t, "PAUSED")
      /\ "PAUSED" \in TaskState
      /\ approvals[t] < MaxApprovals
      /\ approvals' = [approvals EXCEPT ![t] = @ + 1]
  BY DEF ApprovalRequested, TaskState
<1>2. /\ state' \in [Tasks -> TaskState \union {"ABSENT", "PURGED"}]
      /\ \A u \in Tasks : state'[u] = "ABSENT" <=> state[u] = "ABSENT"
      /\ \A u \in Tasks : Over(state', u) => Over(state, u)
  BY <1>1, UpdateNow
<1>3. approvals' \in [Tasks -> 0 .. MaxApprovals]
  BY <1>1, InvTypes, MaxApprovalsType
<1> QED
  BY <1>1, <1>2, <1>3, InvTypes, StillKeeps

LEMMA ForgetTypes ==
  ASSUME IInv, NEW t \in Tasks, ForgetApproval(t)
  PROVE  approvals' \in [Tasks -> 0 .. MaxApprovals]
BY InvTypes, MaxApprovalsType DEF ForgetApproval

LEMMA ApproveKeeps ==
  ASSUME IInv, NEW t \in Tasks, Approve(t)
  PROVE  IInv'
<1> DEFINE c == ChannelOf[t]
           st == UpdateState(state, t, "RUNNING")
<1>0. c \in Channels
  BY ChannelOfType
<1>1. /\ ProcessChannel(c, queue[c], processing[c], st, phase, timers, mapped)
      /\ approvals' \in [Tasks -> 0 .. MaxApprovals]
      /\ UNCHANGED <<answers, intervals>>
      /\ "RUNNING" \in TaskState
  BY ForgetTypes DEF Approve, TaskState
<1>2. /\ st \in [Tasks -> TaskState \union {"ABSENT", "PURGED"}]
      /\ \A u \in Tasks : st[u] = "ABSENT" <=> state[u] = "ABSENT"
      /\ \A u \in Tasks : Over(st, u) => Over(state, u)
  BY <1>1, UpdateNow
<1> HIDE DEF st
<1>3. Whole(st, phase, timers, mapped, answers)
  <2>1. Whole(state, phase, timers, mapped, answers)
    BY DEF IInv
  <2>2. Untouched(st, phase) /\ Answered(st, phase, answers)
    BY <1>2, <2>1 DEF Whole, Untouched, Answered
  <2> QED
    BY <1>2, <2>1, <2>2 DEF Whole
<1>4. ASSUME NEW d \in Channels
      PROVE  Line(d, queue[d], processing[d], st, phase, answers)
  <2>1. queue[d] \in Seq(Tasks) /\ Line(d, queue[d], processing[d], state, phase, answers)
    BY DEF IInv
  <2>2. \A i \in 1 .. Len(queue[d]) :
          queue[d][i] \in Tasks /\ state[queue[d][i]] # "ABSENT"
    BY <2>1, QueuedIsTask DEF Line, LineOK
  <2>3. \A i \in 1 .. Len(queue[d]) :
          /\ st[queue[d][i]] # "ABSENT"
          /\ Over(st, queue[d][i]) => Over(state, queue[d][i])
    BY <1>2, <2>2
  <2> QED
    BY <2>1, <2>3 DEF Line, LineOK, LineAnswered
<1> HIDE DEF c
<1>5. /\ queue' \in [Channels -> Seq(Tasks)]
      /\ processing' \in [Channels -> BOOLEAN]
      /\ Whole(state', phase', timers', mapped', answers)
      /\ \A d \in Channels : Line(d, queue'[d], processing'[d], state', phase', answers)
  <2>1. /\ queue \in [Channels -> Seq(Tasks)]
        /\ processing \in [Channels -> BOOLEAN]
    BY DEF IInv
  <2> QED
    BY <1>0, <1>1, <1>3, <1>4, <2>1, ProcessChannelKeeps
<1> QED
  BY <1>1, <1>5, InvTypes DEF IInv

LEMMA DenyKeeps ==
  ASSUME IInv, NEW t \in Tasks, Deny(t)
  PROVE  IInv'
<1> DEFINE c == ChannelOf[t]
           q == Dequeue(queue[c])
<1>0. c \in Channels
  BY ChannelOfType
<1>1. /\ state' = UpdateState(state, t, "ABORTED")
      /\ answers' = Answer(t, "failed")
      /\ mapped' = mapped \ {t}
      /\ queue' = [queue EXCEPT ![c] = q]
      /\ processing' = [processing EXCEPT ![c] = FALSE]
      /\ UNCHANGED <<phase, timers, intervals>>
      /\ approvals' \in [Tasks -> 0 .. MaxApprovals]
      /\ "ABORTED" \in TaskState
  BY ForgetTypes DEF Deny, TaskState
<1>2. /\ state' \in [Tasks -> TaskState \union {"ABSENT", "PURGED"}]
      /\ \A u \in Tasks : state'[u] = "ABSENT" <=> state[u] = "ABSENT"
      /\ \A u \in Tasks \ {t} : state'[u] = state[u]
  BY <1>1, UpdateNow
<1>3. /\ answers' \in [Tasks -> SUBSET {"completed", "failed"}]
      /\ answers'[t] # {}
      /\ \A u \in Tasks : answers[u] \subseteq answers'[u]
  BY <1>1, InvTypes, AnswerAdds
<1>4. \A u \in Tasks : Over(state', u) => Over(state, u) \/ answers'[u] # {}
  BY <1>2, <1>3 DEF Over
<1>5. Whole(state', phase', timers', mapped', answers')
  <2>1. Whole(state, phase, timers, mapped, answers)
    BY DEF IInv
  <2>2. Untouched(state', phase')
    BY <1>1, <1>2, <2>1 DEF Whole, Untouched
  <2>3. Scoped(phase', timers', mapped')
    BY <1>1, <2>1 DEF Whole, Scoped
  <2>4. Answered(state', phase', answers')
    BY <1>1, <1>3, <1>4, <2>1 DEF Whole, Answered
  <2> QED
    BY <1>1, <1>2, <1>3, <2>1, <2>2, <2>3, <2>4 DEF Whole
<1>6. Line(c, q, FALSE, state, phase, answers)
  <2>1. /\ queue[c] \in Seq(Tasks)
        /\ LineOK(c, queue[c], processing[c], state, phase)
        /\ LineAnswered(queue[c], state, answers)
    BY <1>0 DEF IInv, Line
  <2>2. q \in Seq(Tasks) /\ LineOK(c, q, FALSE, state, phase)
    BY <2>1, TailUnstarted
  <2>3. LineAnswered(q, state, answers)
    BY <2>1, TailAnswered
  <2> QED
    BY <2>2, <2>3 DEF Line
<1> HIDE DEF c, q
<1>7. ASSUME NEW d \in Channels
      PROVE  Line(d, queue'[d], processing'[d], state', phase', answers')
  <2>1. Line(d, queue'[d], processing'[d], state, phase, answers)
    BY <1>0, <1>1, <1>6 DEF IInv
  <2>2. queue'[d] \in Seq(Tasks)
    BY <2>1 DEF Line
  <2>3. \A i \in 1 .. Len(queue'[d]) :
          queue'[d][i] \in Tasks /\ state[queue'[d][i]] # "ABSENT"
    BY <2>1, <2>2, QueuedIsTask DEF Line, LineOK
  <2>4. \A i \in 1 .. Len(queue'[d]) :
          /\ state'[queue'[d][i]] # "ABSENT"
          /\ Over(state', queue'[d][i]) =>
               Over(state, queue'[d][i]) \/ answers'[queue'[d][i]] # {}
          /\ answers[queue'[d][i]] \subseteq answers'[queue'[d][i]]
    BY <1>2, <1>3, <1>4, <2>3
  <2> QED
    BY <1>1, <2>1, <2>4 DEF Line, LineOK, LineAnswered
<1>8. /\ queue' \in [Channels -> Seq(Tasks)]
      /\ processing' \in [Channels -> BOOLEAN]
  BY <1>1, <1>6 DEF IInv, Line
<1> QED
  BY <1>1, <1>5, <1>7, <1>8, InvTypes DEF IInv

LEMMA ResolveKeeps ==
  ASSUME IInv, NEW t \in Tasks, HandleApprovalResolved(t)
  PROVE  IInv'
<1>1. CASE ResolveUnknown(t)
  <2>1. approvals' \in [Tasks -> 0 .. MaxApprovals]
    BY <1>1, ForgetTypes DEF ResolveUnknown
  <2>2. UNCHANGED <<state, queue, processing, phase, timers, mapped, answers,
                    intervals>>
    BY <1>1 DEF ResolveUnknown
  <2> QED
    BY <2>1, <2>2, InvTypes, StillKeeps
<1>2. CASE Approve(t)
  BY <1>2, ApproveKeeps
<1>3. CASE Deny(t)
  BY <1>3, DenyKeeps
<1> QED
  BY <1>1, <1>2, <1>3 DEF HandleApprovalResolved

LEMMA InvariantStep == IInv /\ [Next]_vars => IInv'
<1> SUFFICES ASSUME IInv, [Next]_vars
             PROVE  IInv'
  OBVIOUS
<1>1. ASSUME NEW t \in Tasks, CreateTask(t)
      PROVE  IInv'
  BY <1>1, AcceptKeeps, RefuseKeeps DEF CreateTask
<1>2. ASSUME NEW t \in Tasks, ExecutionReturns(t) \/ ExecutionThrows(t)
      PROVE  IInv'
  BY <1>2, ReturnsKeeps, ThrowsKeeps
<1>3. ASSUME NEW t \in Tasks, Timeout(t) \/ AbortTask(t)
      PROVE  IInv'
  BY <1>3, TimeoutKeeps, AbortKeeps
<1>4. ASSUME NEW t \in Tasks,
             ApprovalRequested(t) \/ ApprovalResolved(t) \/ GrantApproval(t)
      PROVE  IInv'
  BY <1>4, RequestKeeps, ResolveKeeps DEF ApprovalResolved, GrantApproval
<1>5. ASSUME Cleanup \/ ExpireMappings \/ ExpireApprovals \/ Shutdown
      PROVE  IInv'
  BY <1>5, HousekeepingKeeps
<1>6. CASE UNCHANGED vars
  BY <1>6 DEF vars, IInv, Whole, Untouched, Scoped, Answered, Line, LineOK,
              LineAnswered, Over
<1> QED
  BY <1>1, <1>2, <1>3, <1>4, <1>5, <1>6 DEF Next

\* Every reachable state satisfies the inductive invariant.
THEOREM Invariant == Spec => []IInv
BY InvariantInit, InvariantStep, PTL DEF Spec

-----------------------------------------------------------------------------
(* The results                                                             *)

\* Registry, queues, executions, timers, mappings and pending approvals stay
\* well formed; in particular no approval is resolved that is not pending.
THEOREM TypeCorrect == Spec => []TypeOK
<1>1. IInv => TypeOK
  BY DEF IInv, Whole, TypeOK
<1> QED
  BY <1>1, Invariant, PTL

\* A queued task has not been started, except the head of a busy channel,
\* whatever denials and approvals do to the queue.
THEOREM QueuedAreUnstarted == Spec => []QueuedUnstarted
<1>1. IInv => QueuedUnstarted
  <2> SUFFICES ASSUME IInv, NEW c \in Channels
               PROVE  \A i \in 1 .. Len(queue[c]) :
                        /\ ChannelOf[queue[c][i]] = c
                        /\ state[queue[c][i]] # "ABSENT"
                        /\ \A j \in 1 .. Len(queue[c]) :
                             queue[c][j] = queue[c][i] => i = j
                        /\ \/ phase[queue[c][i]] = "idle"
                           \/ phase[queue[c][i]] = "executing" /\ i = 1 /\ processing[c]
    BY DEF QueuedUnstarted
  <2>1. LineOK(c, queue[c], processing[c], state, phase)
    BY DEF IInv, Line
  <2> QED
    BY <2>1 DEF LineOK
<1> QED
  BY <1>1, Invariant, PTL

\* Timeouts and session mappings never outlive their execution.
THEOREM TimersAreScoped == Spec => []ScopedToExecution
<1>1. IInv => ScopedToExecution
  BY DEF IInv, Whole, Scoped, ScopedToExecution
<1> QED
  BY <1>1, Invariant, PTL

\* No execution settles without a final response having been sent.
THEOREM EndedAreAnswered == Spec => []AnsweredWhenEnded
<1>1. IInv => AnsweredWhenEnded
  <2>1. IInv => Answered(state, phase, answers)
    BY DEF IInv, Whole
  <2> QED
    BY <2>1 DEF Answered, AnsweredWhenEnded
<1> QED
  BY <1>1, Invariant, PTL

\* ProcessChannel only moves a task that has not been started.
LEMMA OnlyIdleMoves ==
  ASSUME NEW c, NEW q, NEW busy, NEW st, NEW ph \in [Tasks -> Phase], NEW tm, NEW mp,
         ~busy /\ q # <<>> => Head(q) \in Tasks /\ ph[Head(q)] = "idle",
         ProcessChannel(c, q, busy, st, ph, tm, mp)
  PROVE  \A u \in Tasks : ph[u] \in {"ended", "skipped"} => phase'[u] = ph[u]
<1>1. CASE Leave(c, q, busy, st, ph, tm, mp)
  BY <1>1 DEF Leave
<1>2. CASE Start(c, q, busy, st, ph, tm, mp)
  BY <1>2 DEF Start, ExecuteTaskLogic
<1>3. CASE Skip(c, q, busy, st, ph, tm, mp)
  BY <1>3 DEF Skip
<1> QED
  BY <1>1, <1>2, <1>3 DEF ProcessChannel

LEMMA IdleHead ==
  ASSUME NEW c, NEW q \in Seq(Tasks), NEW busy, NEW st, NEW ph,
         LineOK(c, q, busy, st, ph), ~busy, q # <<>>
  PROVE  Head(q) \in Tasks /\ ph[Head(q)] = "idle"
BY HeadInLine DEF LineOK

\* The step that settles t ends it, and restarts nothing that had ended.
LEMMA SettleEnds ==
  ASSUME IInv, NEW t \in Tasks, NEW st, Settle(t, st)
  PROVE  /\ phase'[t] = "ended"
         /\ \A u \in Tasks :
              phase[u] \in {"ended", "skipped"} => phase'[u] = phase[u]
<1> DEFINE c == ChannelOf[t]
           q == Dequeue(queue[c])
           ph == [phase EXCEPT ![t] = "ended"]
<1>0. /\ phase \in [Tasks -> Phase]
      /\ c \in Channels
      /\ queue[c] \in Seq(Tasks)
      /\ LineOK(c, queue[c], processing[c], state, phase)
  BY ChannelOfType DEF IInv, Whole, Line
<1>1. /\ phase[t] = "executing"
      /\ ProcessChannel(c, q, FALSE, st, ph, timers \ {t}, mapped \ {t})
  BY DEF Settle
<1>2. /\ ph \in [Tasks -> Phase]
      /\ ph[t] = "ended"
      /\ \A u \in Tasks \ {t} : ph[u] = phase[u]
  BY <1>0 DEF Phase
<1>3. q \in Seq(Tasks) /\ LineOK(c, q, FALSE, state, phase)
  BY <1>0, TailUnstarted
<1> HIDE DEF c, q
<1>4. q # <<>> => Head(q) \in Tasks /\ phase[Head(q)] = "idle"
  BY <1>3, IdleHead
<1>5. q # <<>> => Head(q) \in Tasks /\ ph[Head(q)] = "idle"
  BY <1>1, <1>2, <1>4
<1> HIDE DEF ph
<1>6. \A u \in Tasks : ph[u] \in {"ended", "skipped"} => phase'[u] = ph[u]
  BY <1>1, <1>2, <1>5, OnlyIdleMoves
<1> QED
  BY <1>1, <1>2, <1>6

\* An execution that has settled is never run again, not even by the step that
\* settles it.
THEOREM AtMostOneExecution == Spec => ExecutedAtMostOnce
<1> DEFINE Kept == \A t \in Tasks :
                     phase[t] \in {"ended", "skipped"} => phase'[t] = phase[t]
           Ends == \A t \in Tasks :
                     (ExecutionReturns(t) \/ ExecutionThrows(t)) => phase'[t] = "ended"
           Once == \A t \in Tasks :
             /\ phase[t] \in {"ended", "skipped"} => phase'[t] = phase[t]
             /\ (ExecutionReturns(t) \/ ExecutionThrows(t)) => phase'[t] = "ended"
<1>1. IInv /\ Next => Kept
  <2> SUFFICES ASSUME IInv, Next
               PROVE  Kept
    OBVIOUS
  <2>0. /\ phase \in [Tasks -> Phase]
        /\ \A c \in Channels :
             queue[c] \in Seq(Tasks) /\ LineOK(c, queue[c], processing[c], state, phase)
    BY DEF IInv, Whole, Line
  <2>1. ASSUME NEW t \in Tasks, CreateTask(t)
        PROVE  Kept
    <3> DEFINE c == ChannelOf[t]
    <3>1. CASE Accept(t)
      <4>1. c \in Channels /\ state[t] = "ABSENT"
        BY <2>1, ChannelOfType DEF CreateTask
      <4>2. phase[t] = "idle"
        BY <4>1 DEF IInv, Whole, Untouched
      <4>3. Head(Append(queue[c], t)) = IF queue[c] = <<>> THEN t ELSE Head(queue[c])
        BY <2>0, <4>1, HeadTailAppend
      <4>4. ~processing[c] =>
              /\ Head(Append(queue[c], t)) \in Tasks
              /\ phase[Head(Append(queue[c], t))] = "idle"
        <5>1. ~processing[c] /\ queue[c] # <<>> =>
                Head(queue[c]) \in Tasks /\ phase[Head(queue[c])] = "idle"
          BY <2>0, <4>1, IdleHead
        <5> QED
          BY <4>2, <4>3, <5>1
      <4> QED
        BY <2>0, <3>1, <4>4, OnlyIdleMoves DEF Accept
    <3>2. CASE Refuse(t)
      BY <3>2 DEF Refuse
    <3> QED
      BY <2>1, <3>1, <3>2 DEF CreateTask
  <2>2. ASSUME NEW t \in Tasks, NEW st, Settle(t, st)
        PROVE  Kept
    BY <2>2, SettleEnds
  <2>3. ASSUME NEW t \in Tasks, Approve(t)
        PROVE  Kept
    <3> DEFINE c == ChannelOf[t]
    <3>1. /\ c \in Channels
          /\ ProcessChannel(c, queue[c], processing[c], UpdateState(state, t, "RUNNING"),
                            phase, timers, mapped)
      BY <2>3, ChannelOfType DEF Approve
    <3> HIDE DEF c
    <3>2. ~processing[c] /\ queue[c] # <<>> =>
            Head(queue[c]) \in Tasks /\ phase[Head(queue[c])] = "idle"
      BY <2>0, <3>1, IdleHead
    <3> QED
      BY <2>0, <3>1, <3>2, OnlyIdleMoves
  <2>4. ASSUME NEW t \in Tasks,
               \/ Timeout(t) \/ AbortTask(t) \/ ApprovalRequested(t)
               \/ ResolveUnknown(t) \/ Deny(t)
        PROVE  Kept
    BY <2>4 DEF Timeout, AbortTask, ApprovalRequested, ResolveUnknown, Deny
  <2>5. CASE Cleanup \/ ExpireMappings \/ ExpireApprovals \/ Shutdown
    BY <2>5 DEF Cleanup, ExpireMappings, ExpireApprovals, Shutdown
  <2> QED
    BY <2>1, <2>2, <2>3, <2>4, <2>5
       DEF Next, ExecutionReturns, ExecutionThrows, ApprovalResolved, GrantApproval,
           HandleApprovalResolved
<1>2. IInv => Ends
  BY SettleEnds DEF ExecutionReturns, ExecutionThrows
<1>3. IInv /\ [Next]_vars => [Once]_vars
  BY <1>1, <1>2
<1>4. ExecutedAtMostOnce <=> [][Once]_vars
  BY PTL DEF ExecutedAtMostOnce
<1> QED
  BY <1>3, <1>4, Invariant, PTL DEF Spec
=============================================================================
