----------------------------- MODULE GatewayProofs -----------------------------
(***************************************************************************)
(* TaskOrchestrator as the gateway builds it, without approval events      *)
(* (~Wired): for every set of tasks and channels and every queue size, one *)
(* execution per channel at a time, of the queue's head, and a registry    *)
(* that agrees with the queues, the timers and the responses.              *)
(*                                                                         *)
(* The argument has the shape of TaskOrchestratorProofs, whose invariant   *)
(* it uses: ProcessChannel keeps a stronger invariant of the values it is  *)
(* given, and each operation hands over values that satisfy it.            *)
(***************************************************************************)
EXTENDS TaskOrchestratorProofs

\* SerialExecution for channel c
ServiceOK(c, q, busy, ph) ==
  /\ busy <=> \E t \in Tasks : ChannelOf[t] = c /\ ph[t] = "executing"
  /\ \A t \in Tasks : ChannelOf[t] = c /\ ph[t] = "executing" =>
       q # <<>> /\ t = Head(q)

\* NoTaskLost for channel c
Kept(c, q, st) ==
  \A t \in Tasks : ChannelOf[t] = c /\ st[t] = "PENDING" =>
    \E i \in 1 .. Len(q) : q[i] = t

GLine(c, q, busy, st, ph) == ServiceOK(c, q, busy, ph) /\ Kept(c, q, st)

\* RunningIsGuarded; live tells whether shutdown has not been called
Guarded(st, ph, tm, live) ==
  \A t \in Tasks : st[t] = "RUNNING" => ph[t] = "executing" /\ (live => t \in tm)

\* DoneReportedOnce, and what it takes: a task that may still become DONE has
\* not been answered, and one that waits has not been started.
Reports(st, ph, ans) ==
  \A t \in Tasks :
    /\ st[t] = "DONE" => ph[t] = "ended" /\ ans[t] = {"completed"}
    /\ st[t] \in {"ABSENT", "PENDING", "RUNNING"} => ans[t] = {}
    /\ st[t] = "PENDING" => ph[t] = "idle"

NoPause(st) == \A t \in Tasks : st[t] # "PAUSED"

GWhole(st, ph, tm, ans, live) ==
  Guarded(st, ph, tm, live) /\ Reports(st, ph, ans) /\ NoPause(st)

GInv ==
  /\ GWhole(state, phase, timers, answers, intervals)
  /\ \A c \in Channels : GLine(c, queue[c], processing[c], state, phase)

-----------------------------------------------------------------------------
(* processChannel                                                          *)

\* Nothing changes for a channel whose tasks keep their phase and do not become
\* PENDING.
LEMMA OtherGLine ==
  ASSUME NEW d, NEW q, NEW busy, NEW st, NEW ph, NEW st2, NEW ph2,
         GLine(d, q, busy, st, ph),
         \A t \in Tasks : ChannelOf[t] = d =>
           ph2[t] = ph[t] /\ (st2[t] = "PENDING" => st[t] = "PENDING")
  PROVE  GLine(d, q, busy, st2, ph2)
<1>1. ServiceOK(d, q, busy, ph2)
  BY DEF GLine, ServiceOK
<1>2. Kept(d, q, st2)
  BY DEF GLine, Kept
<1> QED
  BY <1>1, <1>2 DEF GLine

LEMMA ProcessChannelServes ==
  ASSUME NEW c \in Channels, NEW q, NEW busy, NEW st, NEW ph, NEW tm, NEW mp, NEW ans,
         NEW live,
         queue \in [Channels -> Seq(Tasks)],
         processing \in [Channels -> BOOLEAN],
         Whole(st, ph, tm, mp, ans),
         Line(c, q, busy, st, ph, ans),
         GWhole(st, ph, tm, ans, live),
         GLine(c, q, busy, st, ph),
         \A d \in Channels \ {c} : GLine(d, queue[d], processing[d], st, ph),
         ProcessChannel(c, q, busy, st, ph, tm, mp)
  PROVE  /\ GWhole(state', phase', timers', ans, live)
         /\ \A d \in Channels : GLine(d, queue'[d], processing'[d], state', phase')
<1>0. /\ q \in Seq(Tasks)
      /\ busy \in BOOLEAN
      /\ st \in [Tasks -> TaskState \union {"ABSENT", "PURGED"}]
      /\ ph \in [Tasks -> Phase]
  BY DEF Line, Whole
<1> DEFINE h == Head(q)
<1>1. CASE Leave(c, q, busy, st, ph, tm, mp)
  BY <1>0, <1>1 DEF Leave
<1>2. ASSUME ~busy, q # <<>>
      PROVE  /\ h \in Tasks
             /\ h = q[1]
             /\ 1 \in 1 .. Len(q)
             /\ ph[h] = "idle"
             /\ ChannelOf[h] = c
             /\ \A t \in Tasks : ChannelOf[t] = c => ph[t] # "executing"
  <2>1. h \in Tasks /\ h = q[1] /\ 1 \in 1 .. Len(q)
    BY <1>0, <1>2, HeadInLine
  <2>2. ph[h] = "idle" /\ ChannelOf[h] = c
    BY <1>2, <2>1 DEF Line, LineOK
  <2>3. \A t \in Tasks : ChannelOf[t] = c => ph[t] # "executing"
    BY <1>2 DEF GLine, ServiceOK
  <2> QED
    BY <2>1, <2>2, <2>3
<1>3. CASE Start(c, q, busy, st, ph, tm, mp)
  <2>1. /\ ~busy /\ q # <<>> /\ Known(st, h)
        /\ state' = UpdateState(st, h, "RUNNING")
        /\ phase' = [ph EXCEPT ![h] = "executing"]
        /\ timers' = tm \union {h}
        /\ queue' = [queue EXCEPT ![c] = q]
        /\ processing' = [processing EXCEPT ![c] = TRUE]
    BY <1>3 DEF Start, ExecuteTaskLogic
  <2> HIDE DEF h
  <2>2. /\ phase'[h] = "executing"
        /\ \A u \in Tasks \ {h} : phase'[u] = ph[u]
    BY <1>0, <1>2, <2>1
  <2>3. /\ \A u \in Tasks \ {h} : state'[u] = st[u]
        /\ \/ state'[h] = "RUNNING" /\ st[h] = "PENDING"
           \/ state'[h] = st[h] /\ st[h] # "PENDING"
    <3>1. st[h] # "PAUSED"
      BY <1>2, <2>1 DEF GWhole, NoPause
    <3>2. /\ <<st[h], "RUNNING">> \in ValidTransition => st[h] = "PENDING"
          /\ <<"PENDING", "RUNNING">> \in ValidTransition
      BY <3>1 DEF ValidTransition
    <3>3. UpdateState(st, h, "RUNNING") =
            IF <<st[h], "RUNNING">> \in ValidTransition
            THEN [st EXCEPT ![h] = "RUNNING"] ELSE st
      BY DEF UpdateState
    <3> QED
      BY <1>0, <1>2, <2>1, <3>2, <3>3
  <2>4. GWhole(state', phase', timers', ans, live)
    <3>1. Guarded(state', phase', timers', live)
      BY <1>2, <2>1, <2>2, <2>3 DEF GWhole, Guarded
    <3>2. Reports(state', phase', ans)
      BY <1>2, <2>1, <2>2, <2>3 DEF GWhole, Reports
    <3>3. NoPause(state')
      BY <2>3, <1>2, <2>1 DEF GWhole, NoPause
    <3> QED
      BY <3>1, <3>2, <3>3 DEF GWhole
  <2>5. GLine(c, q, TRUE, state', phase')
    <3>1. ServiceOK(c, q, TRUE, phase')
      BY <1>2, <2>1, <2>2 DEF ServiceOK, h
    <3>2. Kept(c, q, state')
      BY <2>3 DEF GLine, Kept
    <3> QED
      BY <3>1, <3>2 DEF GLine
  <2>6. ASSUME NEW d \in Channels \ {c}
        PROVE  GLine(d, queue[d], processing[d], state', phase')
    <3>1. \A t \in Tasks : ChannelOf[t] = d =>
            phase'[t] = ph[t] /\ (state'[t] = "PENDING" => st[t] = "PENDING")
      BY <1>2, <2>1, <2>2, <2>3
    <3>2. GLine(d, queue[d], processing[d], st, ph)
      OBVIOUS
    <3> QED
      BY <3>1, <3>2, OtherGLine
  <2> QED
    BY <2>1, <2>4, <2>5, <2>6
<1>4. CASE Skip(c, q, busy, st, ph, tm, mp)
  <2>1. /\ ~busy /\ q # <<>> /\ ~Known(st, h)
        /\ state' = st
        /\ phase' = [ph EXCEPT ![h] = "skipped"]
        /\ timers' = tm
        /\ queue' = [queue EXCEPT ![c] = Tail(q)]
        /\ processing' = [processing EXCEPT ![c] = FALSE]
    BY <1>4 DEF Skip
  <2> HIDE DEF h
  <2>2. /\ phase'[h] = "skipped"
        /\ \A u \in Tasks \ {h} : phase'[u] = ph[u]
        /\ st[h] \notin TaskState
    BY <1>0, <1>2, <2>1 DEF Known
  <2>3. GWhole(state', phase', timers', ans, live)
    <3>1. Guarded(state', phase', timers', live)
      BY <1>2, <2>1, <2>2 DEF GWhole, Guarded, TaskState
    <3>2. Reports(state', phase', ans)
      BY <1>2, <2>1, <2>2 DEF GWhole, Reports, TaskState
    <3> QED
      BY <2>1, <3>1, <3>2 DEF GWhole
  <2>4. GLine(c, Tail(q), FALSE, state', phase')
    <3>1. ServiceOK(c, Tail(q), FALSE, phase')
      BY <1>2, <2>1, <2>2 DEF ServiceOK
    <3>2. Kept(c, Tail(q), state')
      <4>1. /\ Len(q) \in Nat
            /\ Len(Tail(q)) = Len(q) - 1
            /\ \A i \in 1 .. Len(Tail(q)) : Tail(q)[i] = q[i + 1]
        BY <1>0, <2>1, HeadTailProperties, LenProperties
      <4>2. \A i \in 1 .. Len(q) :
              i = 1 \/ (i - 1 \in 1 .. Len(Tail(q)) /\ Tail(q)[i - 1] = q[i])
        BY <4>1
      <4>3. st[q[1]] # "PENDING"
        BY <1>2, <2>1, <2>2 DEF TaskState
      <4>4. ASSUME NEW t \in Tasks, ChannelOf[t] = c, st[t] = "PENDING"
            PROVE  \E i \in 1 .. Len(Tail(q)) : Tail(q)[i] = t
        <5>1. PICK i \in 1 .. Len(q) : q[i] = t
          BY <4>4 DEF GLine, Kept
        <5>2. i # 1
          BY <4>3, <4>4, <5>1
        <5> QED
          BY <4>2, <5>1, <5>2
      <4> QED
        BY <2>1, <4>4 DEF Kept
    <3> QED
      BY <3>1, <3>2 DEF GLine
  <2>5. ASSUME NEW d \in Channels \ {c}
        PROVE  GLine(d, queue[d], processing[d], state', phase')
    <3>1. \A t \in Tasks : ChannelOf[t] = d =>
            phase'[t] = ph[t] /\ (state'[t] = "PENDING" => st[t] = "PENDING")
      BY <1>2, <2>1, <2>2
    <3>2. GLine(d, queue[d], processing[d], st, ph)
      OBVIOUS
    <3> QED
      BY <3>1, <3>2, OtherGLine
  <2> QED
    BY <2>1, <2>3, <2>4, <2>5
<1> QED
  BY <1>1, <1>3, <1>4 DEF ProcessChannel

-----------------------------------------------------------------------------
(* The operations                                                          *)

LEMMA GInvInit == Init => GInv
<1> SUFFICES ASSUME Init
             PROVE  GInv
  OBVIOUS
<1>1. GWhole(state, phase, timers, answers, intervals)
  BY DEF Init, GWhole, Guarded, Reports, NoPause
<1>2. ASSUME NEW c \in Channels
      PROVE  GLine(c, queue[c], processing[c], state, phase)
  <2>1. processing[c] = FALSE
    BY DEF Init
  <2>2. /\ \A t \in Tasks : phase[t] # "executing"
        /\ \A t \in Tasks : state[t] # "PENDING"
    BY DEF Init
  <2> QED
    BY <2>1, <2>2 DEF GLine, ServiceOK, Kept
<1> QED
  BY <1>1, <1>2 DEF GInv

\* What the invariants say of the present values
LEMMA Present ==
  ASSUME IInv, GInv
  PROVE  /\ queue \in [Channels -> Seq(Tasks)]
         /\ processing \in [Channels -> BOOLEAN]
         /\ state \in [Tasks -> TaskState \union {"ABSENT", "PURGED"}]
         /\ phase \in [Tasks -> Phase]
         /\ answers \in [Tasks -> SUBSET {"completed", "failed"}]
         /\ Whole(state, phase, timers, mapped, answers)
         /\ \A c \in Channels : Line(c, queue[c], processing[c], state, phase, answers)
         /\ GWhole(state, phase, timers, answers, intervals)
         /\ \A c \in Channels : GLine(c, queue[c], processing[c], state, phase)
BY DEF IInv, Whole, GInv

\* Operations that leave queues and executions alone
LEMMA StillServes ==
  ASSUME IInv, GInv,
         UNCHANGED <<queue, processing, phase>>,
         intervals' => intervals,
         \A u \in Tasks :
           /\ state'[u] # "PAUSED"
           /\ state'[u] = "PENDING" => state[u] = "PENDING"
           /\ state'[u] = "DONE" => state[u] = "DONE"
           /\ state'[u] \in {"ABSENT", "PENDING", "RUNNING"} => state'[u] = state[u]
           /\ state'[u] \in {"ABSENT", "PENDING", "RUNNING", "DONE"} =>
                answers'[u] = answers[u]
           /\ state'[u] = "RUNNING" /\ intervals' /\ u \in timers => u \in timers'
  PROVE  GInv'
<1>1. Guarded(state', phase', timers', intervals')
  BY Present DEF GWhole, Guarded
<1>2. Reports(state', phase', answers')
  BY Present DEF GWhole, Reports
<1>3. NoPause(state')
  BY DEF NoPause
<1>4. ASSUME NEW c \in Channels
      PROVE  GLine(c, queue[c], processing[c], state', phase)
  <2>1. GLine(c, queue[c], processing[c], state, phase)
    BY DEF GInv
  <2> QED
    BY <2>1, OtherGLine
<1> QED
  BY <1>1, <1>2, <1>3, <1>4 DEF GInv, GWhole

\* What a new task hands to ProcessChannel
LEMMA AcceptInService ==
  ASSUME IInv, GInv, NEW t \in Tasks, state[t] = "ABSENT",
         NEW st, st = [state EXCEPT ![t] = "PENDING"],
         NEW c, c = ChannelOf[t]
  PROVE  /\ GWhole(st, phase, timers, answers, intervals)
         /\ GLine(c, Append(queue[c], t), processing[c], st, phase)
         /\ \A d \in Channels \ {c} : GLine(d, queue[d], processing[d], st, phase)
<1> DEFINE q == Append(queue[c], t)
<1>0. c \in Channels
  BY ChannelOfType
<1>1. /\ st[t] = "PENDING"
      /\ \A u \in Tasks \ {t} : st[u] = state[u]
      /\ phase[t] = "idle"
  BY Present DEF Whole, Untouched
<1>3. GWhole(st, phase, timers, answers, intervals)
  <2>1. Guarded(st, phase, timers, intervals)
    BY <1>1, Present DEF GWhole, Guarded
  <2>2. Reports(st, phase, answers)
    BY <1>1, Present DEF GWhole, Reports
  <2>3. NoPause(st)
    BY <1>1, Present DEF GWhole, NoPause
  <2> QED
    BY <2>1, <2>2, <2>3 DEF GWhole
<1>4. GLine(c, q, processing[c], st, phase)
  <2>1. /\ queue[c] \in Seq(Tasks)
        /\ Len(queue[c]) \in Nat
        /\ Len(q) = Len(queue[c]) + 1
        /\ \A i \in 1 .. Len(queue[c]) : q[i] = queue[c][i]
        /\ q[Len(q)] = t
        /\ q # <<>>
    <3>1. queue[c] \in Seq(Tasks)
      BY <1>0, Present
    <3> QED
      BY <3>1, AppendProperties, LenProperties
  <2>2. queue[c] # <<>> => Head(q) = Head(queue[c])
    BY <2>1, HeadTailAppend
  <2>3. GLine(c, queue[c], processing[c], state, phase)
    BY <1>0, Present
  <2> HIDE DEF q
  <2>4. ServiceOK(c, q, processing[c], phase)
    BY <2>1, <2>2, <2>3 DEF GLine, ServiceOK
  <2>5. Kept(c, q, st)
    <3>1. ASSUME NEW u \in Tasks, ChannelOf[u] = c, st[u] = "PENDING"
          PROVE  \E i \in 1 .. Len(q) : q[i] = u
      <4>1. CASE u = t
        BY <2>1, <4>1
      <4>2. CASE u # t
        <5>1. PICK i \in 1 .. Len(queue[c]) : queue[c][i] = u
          BY <1>1, <2>3, <3>1, <4>2 DEF GLine, Kept
        <5> QED
          BY <2>1, <5>1
      <4> QED
        BY <4>1, <4>2
    <3> QED
      BY <3>1 DEF Kept
  <2> QED
    BY <2>4, <2>5 DEF GLine
<1>5. ASSUME NEW d \in Channels \ {c}
      PROVE  GLine(d, queue[d], processing[d], st, phase)
  <2>1. GLine(d, queue[d], processing[d], state, phase)
    BY Present
  <2>2. \A u \in Tasks : ChannelOf[u] = d =>
          (st[u] = "PENDING" => state[u] = "PENDING")
    BY <1>1
  <2> QED
    BY <2>1, <2>2, OtherGLine
<1> QED
  BY <1>3, <1>4, <1>5

LEMMA AcceptServes ==
  ASSUME IInv, GInv, NEW t \in Tasks, state[t] = "ABSENT", Accept(t),
         UNCHANGED <<approvals, answers, intervals>>
  PROVE  GInv'
<1> DEFINE c == ChannelOf[t]
           q == Append(queue[c], t)
           st == [state EXCEPT ![t] = "PENDING"]
<1>1. /\ c \in Channels
      /\ ProcessChannel(c, q, processing[c], st, phase, timers, mapped)
  BY ChannelOfType DEF Accept
<1>2. /\ Whole(st, phase, timers, mapped, answers)
      /\ Line(c, q, processing[c], st, phase, answers)
  BY AcceptHands
<1>3. /\ GWhole(st, phase, timers, answers, intervals)
      /\ GLine(c, q, processing[c], st, phase)
      /\ \A d \in Channels \ {c} : GLine(d, queue[d], processing[d], st, phase)
  BY AcceptInService
<1> HIDE DEF c, q, st
<1>4. /\ GWhole(state', phase', timers', answers, intervals)
      /\ \A d \in Channels : GLine(d, queue'[d], processing'[d], state', phase')
  BY <1>1, <1>2, <1>3, Present, ProcessChannelServes
<1> QED
  BY <1>4 DEF GInv

\* The task that settles is its channel's head, and the only one in service.
LEMMA SettleInService ==
  ASSUME IInv, GInv, NEW t \in Tasks, phase[t] = "executing",
         NEW st \in [Tasks -> TaskState \union {"ABSENT", "PURGED"}],
         \A u \in Tasks : st[u] = "ABSENT" <=> state[u] = "ABSENT",
         \A u \in Tasks \ {t} : st[u] = state[u],
         st[t] \notin {"ABSENT", "PENDING", "RUNNING", "PAUSED"},
         st[t] = "DONE" => answers'[t] = {"completed"},
         answers' \in [Tasks -> SUBSET {"completed", "failed"}],
         answers'[t] # {},
         \A u \in Tasks \ {t} : answers'[u] = answers[u],
         NEW ph, ph = [phase EXCEPT ![t] = "ended"],
         NEW c, c = ChannelOf[t]
  PROVE  /\ GWhole(st, ph, timers \ {t}, answers', intervals)
         /\ GLine(c, Dequeue(queue[c]), FALSE, st, ph)
         /\ \A d \in Channels \ {c} : GLine(d, queue[d], processing[d], st, ph)
<1> DEFINE q == Dequeue(queue[c])
<1>1. c \in Channels /\ phase[t] = "executing"
  BY ChannelOfType
<1>3. /\ ph[t] = "ended"
      /\ \A u \in Tasks \ {t} : ph[u] = phase[u]
  BY Present
<1>4. GWhole(st, ph, timers \ {t}, answers', intervals)
  <2>0. GWhole(state, phase, timers, answers, intervals)
    BY Present
  <2>1. Guarded(st, ph, timers \ {t}, intervals)
    BY <1>3, <2>0 DEF GWhole, Guarded
  <2>2. Reports(st, ph, answers')
    BY <1>3, <2>0 DEF GWhole, Reports
  <2>3. NoPause(st)
    BY <2>0 DEF GWhole, NoPause
  <2> QED
    BY <2>1, <2>2, <2>3 DEF GWhole
<1>5. GLine(c, q, FALSE, st, ph)
  <2>1. /\ queue[c] \in Seq(Tasks)
        /\ GLine(c, queue[c], processing[c], state, phase)
    BY <1>1, Present
  <2>2. /\ queue[c] # <<>>
        /\ t = Head(queue[c])
        /\ \A u \in Tasks : ChannelOf[u] = c /\ phase[u] = "executing" => u = t
    BY <1>1, <2>1 DEF GLine, ServiceOK
  <2>3. /\ q = Tail(queue[c])
        /\ queue[c][1] = t
        /\ Len(queue[c]) \in Nat
        /\ Len(Tail(queue[c])) = Len(queue[c]) - 1
        /\ \A i \in 1 .. Len(Tail(queue[c])) : Tail(queue[c])[i] = queue[c][i + 1]
    <3>1. q = Tail(queue[c])
      BY <2>2 DEF Dequeue
    <3>2. queue[c][1] = t
      BY <2>1, <2>2, HeadInLine
    <3>3. Len(queue[c]) \in Nat
      BY <2>1, LenProperties
    <3>4. /\ Len(Tail(queue[c])) = Len(queue[c]) - 1
          /\ \A i \in 1 .. Len(Tail(queue[c])) : Tail(queue[c])[i] = queue[c][i + 1]
      <4>1. queue[c] \in Seq(Tasks) /\ queue[c] # <<>>
        BY <2>1, <2>2
      <4> QED
        BY <4>1, HeadTailProperties
    <3> QED
      BY <3>1, <3>2, <3>3, <3>4
  <2>4. \A i \in 1 .. Len(queue[c]) :
          i = 1 \/ (i - 1 \in 1 .. Len(q) /\ q[i - 1] = queue[c][i])
    BY <2>3
  <2> HIDE DEF q
  <2>5. ServiceOK(c, q, FALSE, ph)
    <3>1. \A u \in Tasks : ChannelOf[u] = c => ph[u] # "executing"
      BY <1>3, <2>2
    <3> QED
      BY <3>1 DEF ServiceOK
  <2>6. Kept(c, q, st)
    <3>1. ASSUME NEW u \in Tasks, ChannelOf[u] = c, st[u] = "PENDING"
          PROVE  \E i \in 1 .. Len(q) : q[i] = u
      <4>1. u # t
        BY <3>1
      <4>2. PICK i \in 1 .. Len(queue[c]) : queue[c][i] = u
        BY <2>1, <3>1, <4>1 DEF GLine, Kept
      <4>3. i # 1
        BY <2>3, <4>1, <4>2
      <4> QED
        BY <2>4, <4>2, <4>3
    <3> QED
      BY <3>1 DEF Kept
  <2> QED
    BY <2>5, <2>6 DEF GLine
<1>6. ASSUME NEW d \in Channels \ {c}
      PROVE  GLine(d, queue[d], processing[d], st, ph)
  <2>1. GLine(d, queue[d], processing[d], state, phase)
    BY Present
  <2>2. \A u \in Tasks : ChannelOf[u] = d =>
          ph[u] = phase[u] /\ (st[u] = "PENDING" => state[u] = "PENDING")
    BY <1>3
  <2> QED
    BY <2>1, <2>2 DEF GLine, ServiceOK, Kept
<1> QED
  BY <1>4, <1>5, <1>6

LEMMA SettleServes ==
  ASSUME IInv, GInv, NEW t \in Tasks,
         NEW st \in [Tasks -> TaskState \union {"ABSENT", "PURGED"}],
         \A u \in Tasks : st[u] = "ABSENT" <=> state[u] = "ABSENT",
         \A u \in Tasks \ {t} : st[u] = state[u],
         st[t] \notin {"ABSENT", "PENDING", "RUNNING", "PAUSED"},
         st[t] = "DONE" => answers'[t] = {"completed"},
         answers' \in [Tasks -> SUBSET {"completed", "failed"}],
         answers'[t] # {},
         \A u \in Tasks \ {t} : answers'[u] = answers[u],
         Settle(t, st)
  PROVE  GInv'
<1> DEFINE c == ChannelOf[t]
           q == Dequeue(queue[c])
           ph == [phase EXCEPT ![t] = "ended"]
<1>1. /\ c \in Channels
      /\ phase[t] = "executing"
      /\ ProcessChannel(c, q, FALSE, st, ph, timers \ {t}, mapped \ {t})
      /\ UNCHANGED intervals
  BY ChannelOfType DEF Settle
<1>2. /\ Whole(st, ph, timers \ {t}, mapped \ {t}, answers')
      /\ Line(c, q, FALSE, st, ph, answers')
  BY <1>1, SettleHands
<1>3. /\ GWhole(st, ph, timers \ {t}, answers', intervals)
      /\ GLine(c, q, FALSE, st, ph)
      /\ \A d \in Channels \ {c} : GLine(d, queue[d], processing[d], st, ph)
  BY <1>1, SettleInService
<1> HIDE DEF c, q, ph
<1>4. /\ GWhole(state', phase', timers', answers', intervals)
      /\ \A d \in Channels : GLine(d, queue'[d], processing'[d], state', phase')
  BY <1>1, <1>2, <1>3, Present, ProcessChannelServes
<1> QED
  BY <1>1, <1>4 DEF GInv

\* A task in service has been started, so the registry has it RUNNING or done
\* with (it is never PAUSED, and DONE only once it has ended).
LEMMA InServiceState ==
  ASSUME IInv, GInv, NEW t \in Tasks, phase[t] = "executing"
  PROVE  /\ state[t] \in {"RUNNING", "FAILED", "ABORTED", "PURGED"}
         /\ state[t] = "RUNNING" => answers[t] = {}
<1>1. /\ state[t] \in TaskState \union {"ABSENT", "PURGED"}
      /\ state[t] # "ABSENT"
  BY Present DEF Whole, Untouched
<1>2. state[t] \notin {"PENDING", "DONE", "PAUSED"}
  BY Present DEF GWhole, Reports, NoPause
<1>3. state[t] = "RUNNING" => answers[t] = {}
  BY Present DEF GWhole, Reports
<1> QED
  BY <1>1, <1>2, <1>3 DEF TaskState

LEMMA ReturnsServes ==
  ASSUME IInv, GInv, NEW t \in Tasks, ExecutionReturns(t)
  PROVE  GInv'
<1> DEFINE st == UpdateState(state, t, "DONE")
<1>1. /\ "DONE" \in TaskState
      /\ Settle(t, st)
      /\ phase[t] = "executing"
      /\ answers' = Answer(t, "completed")
  BY DEF ExecutionReturns, TaskState, Settle
<1>2. /\ st \in [Tasks -> TaskState \union {"ABSENT", "PURGED"}]
      /\ \A u \in Tasks : st[u] = "ABSENT" <=> state[u] = "ABSENT"
      /\ \A u \in Tasks \ {t} : st[u] = state[u]
  BY <1>1, UpdateNow
<1>3. /\ st[t] \notin {"ABSENT", "PENDING", "RUNNING", "PAUSED"}
      /\ st[t] = "DONE" => state[t] = "RUNNING"
  BY <1>1, Present, InServiceState DEF UpdateState, ValidTransition
<1>4. /\ answers' \in [Tasks -> SUBSET {"completed", "failed"}]
      /\ answers'[t] # {}
      /\ \A u \in Tasks \ {t} : answers'[u] = answers[u]
  BY <1>1, InvTypes, AnswerAdds
<1>5. st[t] = "DONE" => answers'[t] = {"completed"}
  BY <1>1, <1>3, InServiceState, InvTypes DEF Answer
<1> HIDE DEF st
<1> QED
  BY <1>1, <1>2, <1>3, <1>4, <1>5, SettleServes

LEMMA ThrowsServes ==
  ASSUME IInv, GInv, NEW t \in Tasks, ExecutionThrows(t)
  PROVE  GInv'
<1> DEFINE st == UpdateState(state, t, "FAILED")
<1>1. /\ "FAILED" \in TaskState
      /\ Settle(t, st)
      /\ phase[t] = "executing"
      /\ answers' = IF Known(state, t) THEN Answer(t, "failed") ELSE answers
  BY DEF ExecutionThrows, TaskState, Settle
<1>2. /\ st \in [Tasks -> TaskState \union {"ABSENT", "PURGED"}]
      /\ \A u \in Tasks : st[u] = "ABSENT" <=> state[u] = "ABSENT"
      /\ \A u \in Tasks \ {t} : st[u] = state[u]
  BY <1>1, UpdateNow
<1>3. st[t] \notin {"ABSENT", "PENDING", "RUNNING", "PAUSED", "DONE"}
  BY <1>1, Present, InServiceState DEF UpdateState, ValidTransition
<1>4. /\ answers' \in [Tasks -> SUBSET {"completed", "failed"}]
      /\ answers'[t] # {}
      /\ \A u \in Tasks \ {t} : answers'[u] = answers[u]
  <2>1. CASE Known(state, t)
    BY <1>1, <2>1, InvTypes, AnswerAdds
  <2>2. CASE ~Known(state, t)
    <3>1. Over(state, t)
      BY <1>1, <2>2, InServiceState DEF Known, TaskState, Over
    <3>2. answers[t] # {}
      BY <1>1, <3>1, Present DEF Whole, Answered
    <3> QED
      BY <1>1, <2>2, <3>2, InvTypes
  <2> QED
    BY <2>1, <2>2
<1> HIDE DEF st
<1> QED
  BY <1>1, <1>2, <1>3, <1>4, SettleServes

LEMMA RefuseServes ==
  ASSUME IInv, GInv, NEW t \in Tasks, state[t] = "ABSENT", Refuse(t),
         UNCHANGED <<approvals, answers, intervals>>
  PROVE  GInv'
<1>1. /\ UNCHANGED <<queue, processing, phase, timers>>
      /\ state'[t] = "FAILED"
      /\ \A u \in Tasks \ {t} : state'[u] = state[u]
  BY Present DEF Refuse
<1> QED
  BY <1>1, StillServes, Present DEF GWhole, NoPause

LEMMA TimeoutServes ==
  ASSUME IInv, GInv, NEW t \in Tasks, Timeout(t)
  PROVE  GInv'
<1>1. /\ t \in timers
      /\ timers' = timers \ {t}
      /\ state' = UpdateState(state, t, "FAILED")
      /\ answers' = IF Known(state, t) THEN Answer(t, "failed") ELSE answers
      /\ UNCHANGED <<queue, processing, phase, mapped, approvals, intervals>>
      /\ "FAILED" \in TaskState
  BY DEF Timeout, TaskState
<1>2. phase[t] = "executing"
  BY <1>1, Present DEF Whole, Scoped
<1>3. \A u \in Tasks \ {t} : state'[u] = state[u] /\ answers'[u] = answers[u]
  BY <1>1, UpdateNow, InvTypes, AnswerAdds
<1>4. state'[t] \in {"FAILED", "ABORTED", "PURGED"}
  BY <1>1, <1>2, Present, InServiceState DEF UpdateState, ValidTransition
<1> QED
  BY <1>1, <1>3, <1>4, StillServes, Present DEF GWhole, NoPause

LEMMA AbortServes ==
  ASSUME IInv, GInv, NEW t \in Tasks, AbortTask(t)
  PROVE  GInv'
<1>1. /\ state'[t] = "ABORTED"
      /\ timers' = timers \ {t}
      /\ \A u \in Tasks \ {t} : state'[u] = state[u] /\ answers'[u] = answers[u]
      /\ UNCHANGED <<queue, processing, phase, approvals, intervals>>
  BY Present DEF AbortTask, Answer
<1> QED
  BY <1>1, StillServes, Present DEF GWhole, NoPause

LEMMA HousekeepingServes ==
  ASSUME IInv, GInv, Cleanup \/ ExpireMappings \/ ExpireApprovals \/ Shutdown
  PROVE  GInv'
<1>1. CASE Cleanup
  <2>1. /\ \A u \in Tasks :
             \/ state'[u] = state[u]
             \/ state'[u] = "PURGED"
        /\ UNCHANGED <<queue, processing, phase, timers, mapped, approvals, answers,
                       intervals>>
    BY <1>1 DEF Cleanup
  <2> QED
    BY <2>1, StillServes, Present DEF GWhole, NoPause
<1>2. CASE ExpireMappings \/ ExpireApprovals
  <2>1. UNCHANGED <<state, queue, processing, phase, timers, answers, intervals>>
    BY <1>2 DEF ExpireMappings, ExpireApprovals
  <2> QED
    BY <2>1, StillServes, Present DEF GWhole, NoPause
<1>3. CASE Shutdown
  <2>1. ~intervals' /\ UNCHANGED <<state, queue, processing, phase, answers>>
    BY <1>3 DEF Shutdown
  <2> QED
    BY <2>1, StillServes, Present DEF GWhole, NoPause
<1> QED
  BY <1>1, <1>2, <1>3

LEMMA GInvStep ==
  ASSUME ~Wired
  PROVE  IInv /\ GInv /\ [Next]_vars => GInv'
<1> SUFFICES ASSUME IInv, GInv, [Next]_vars
             PROVE  GInv'
  OBVIOUS
<1>1. ASSUME NEW t \in Tasks, CreateTask(t)
      PROVE  GInv'
  BY <1>1, AcceptServes, RefuseServes DEF CreateTask
<1>2. ASSUME NEW t \in Tasks, ExecutionReturns(t) \/ ExecutionThrows(t)
      PROVE  GInv'
  BY <1>2, ReturnsServes, ThrowsServes
<1>3. ASSUME NEW t \in Tasks, Timeout(t) \/ AbortTask(t)
      PROVE  GInv'
  BY <1>3, TimeoutServes, AbortServes
<1>4. \A t \in Tasks : ~ApprovalRequested(t) /\ ~ApprovalResolved(t) /\ ~GrantApproval(t)
  BY DEF ApprovalRequested, ApprovalResolved, GrantApproval
<1>5. ASSUME Cleanup \/ ExpireMappings \/ ExpireApprovals \/ Shutdown
      PROVE  GInv'
  BY <1>5, HousekeepingServes
<1>6. CASE UNCHANGED vars
  BY <1>6 DEF vars, GInv, GWhole, Guarded, Reports, NoPause, GLine, ServiceOK, Kept
<1> QED
  BY <1>1, <1>2, <1>3, <1>4, <1>5, <1>6 DEF Next

\* Every reachable state of the gateway's orchestrator satisfies both parts of
\* the invariant.
THEOREM GatewayInvariant ==
  ASSUME ~Wired
  PROVE  Spec => [](IInv /\ GInv)
<1>1. Init => IInv /\ GInv
  BY InvariantInit, GInvInit
<1>2. IInv /\ GInv /\ [Next]_vars => (IInv /\ GInv)'
  BY InvariantStep, GInvStep
<1> QED
  BY <1>1, <1>2, PTL DEF Spec

-----------------------------------------------------------------------------
(* The results                                                             *)

\* One execution per channel at a time, of the queue's head, and the busy flag
\* is set exactly while it runs.
THEOREM ExecutionIsSerial ==
  ASSUME ~Wired
  PROVE  Spec => []SerialExecution
<1>1. GInv => SerialExecution
  <2> SUFFICES ASSUME GInv, NEW c \in Channels
               PROVE  /\ processing[c] <=> InService(c) # {}
                      /\ \A t \in InService(c) : queue[c] # <<>> /\ t = Head(queue[c])
    BY DEF SerialExecution
  <2>1. ServiceOK(c, queue[c], processing[c], phase)
    BY DEF GInv, GLine
  <2> QED
    BY <2>1 DEF ServiceOK, InService
<1> QED
  BY <1>1, GatewayInvariant, PTL

\* A task that is still PENDING is still queued.
THEOREM NoTaskIsLost ==
  ASSUME ~Wired
  PROVE  Spec => []NoTaskLost
<1>1. GInv => NoTaskLost
  BY ChannelOfType DEF GInv, GLine, Kept, NoTaskLost
<1> QED
  BY <1>1, GatewayInvariant, PTL

\* A RUNNING task is being executed, under an armed timeout until shutdown.
THEOREM RunningAreGuarded ==
  ASSUME ~Wired
  PROVE  Spec => []RunningIsGuarded
<1>1. GInv => RunningIsGuarded
  BY DEF GInv, GWhole, Guarded, RunningIsGuarded
<1> QED
  BY <1>1, GatewayInvariant, PTL

\* What the registry calls DONE was reported as completed, and as nothing else.
THEOREM DoneAreReportedOnce ==
  ASSUME ~Wired
  PROVE  Spec => []DoneReportedOnce
<1>1. GInv => DoneReportedOnce
  BY DEF GInv, GWhole, Reports, DoneReportedOnce
<1> QED
  BY <1>1, GatewayInvariant, PTL

-----------------------------------------------------------------------------
(* A free channel has drained                                              *)
(*                                                                         *)
(* Whoever leaves a channel free with something queued must have dropped   *)
(* its head, so the property is inductive, given the invariant above.      *)

\* IdleOnlyWhenDrained for channel c
Drained(c, q, busy, ph) ==
  busy \/ q = <<>> \/ \E t \in Tasks : ChannelOf[t] = c /\ ph[t] = "skipped"

\* processChannel never leaves a channel free with a queue unless it has dropped
\* the head, and takes no task out of the skipped ones.
LEMMA ProcessChannelDrains ==
  ASSUME NEW c \in Channels, NEW q, NEW busy, NEW st, NEW ph, NEW tm, NEW mp, NEW ans,
         queue \in [Channels -> Seq(Tasks)],
         processing \in [Channels -> BOOLEAN],
         Whole(st, ph, tm, mp, ans),
         Line(c, q, busy, st, ph, ans),
         ProcessChannel(c, q, busy, st, ph, tm, mp)
  PROVE  /\ Drained(c, queue'[c], processing'[c], phase')
         /\ \A d \in Channels \ {c} : queue'[d] = queue[d] /\ processing'[d] = processing[d]
         /\ \A t \in Tasks : ph[t] = "skipped" => phase'[t] = "skipped"
<1>0. q \in Seq(Tasks) /\ busy \in BOOLEAN /\ ph \in [Tasks -> Phase]
  BY DEF Line, Whole
<1> DEFINE h == Head(q)
<1>1. CASE Leave(c, q, busy, st, ph, tm, mp)
  BY <1>1 DEF Leave, Drained
<1>2. ASSUME ~busy, q # <<>>
      PROVE  h \in Tasks /\ ph[h] = "idle" /\ ChannelOf[h] = c
  <2>1. h \in Tasks /\ h = q[1] /\ 1 \in 1 .. Len(q)
    BY <1>0, <1>2, HeadInLine
  <2> QED
    BY <1>2, <2>1 DEF Line, LineOK
<1>3. CASE Start(c, q, busy, st, ph, tm, mp)
  <2>1. /\ ~busy /\ q # <<>>
        /\ phase' = [ph EXCEPT ![h] = "executing"]
        /\ queue' = [queue EXCEPT ![c] = q]
        /\ processing' = [processing EXCEPT ![c] = TRUE]
    BY <1>3 DEF Start, ExecuteTaskLogic
  <2> HIDE DEF h
  <2>2. processing'[c]
    BY <2>1
  <2>3. \A t \in Tasks : ph[t] = "skipped" => phase'[t] = "skipped"
    BY <1>0, <1>2, <2>1
  <2> QED
    BY <2>1, <2>2, <2>3 DEF Drained
<1>4. CASE Skip(c, q, busy, st, ph, tm, mp)
  <2>1. /\ ~busy /\ q # <<>>
        /\ phase' = [ph EXCEPT ![h] = "skipped"]
        /\ queue' = [queue EXCEPT ![c] = Tail(q)]
        /\ processing' = [processing EXCEPT ![c] = FALSE]
    BY <1>4 DEF Skip
  <2> HIDE DEF h
  <2>2. phase'[h] = "skipped" /\ \A t \in Tasks \ {h} : phase'[t] = ph[t]
    BY <1>0, <1>2, <2>1
  <2>3. Drained(c, queue'[c], processing'[c], phase')
    BY <1>2, <2>1, <2>2 DEF Drained
  <2>4. \A t \in Tasks : ph[t] = "skipped" => phase'[t] = "skipped"
    BY <2>2
  <2> QED
    BY <2>1, <2>3, <2>4
<1> QED
  BY <1>1, <1>3, <1>4 DEF ProcessChannel

\* What processChannel left drained, other channels being as they were
LEMMA StillDrained ==
  ASSUME NEW S \in SUBSET Channels, IdleOnlyWhenDrained,
         \A c \in Channels \ S : Drained(c, queue'[c], processing'[c], phase'),
         \A c \in S : queue'[c] = queue[c] /\ processing'[c] = processing[c],
         \A t \in Tasks : phase[t] = "skipped" => phase'[t] = "skipped"
  PROVE  IdleOnlyWhenDrained'
<1>1. ASSUME NEW c \in S
      PROVE  Drained(c, queue'[c], processing'[c], phase')
  <2>1. Drained(c, queue[c], processing[c], phase)
    BY DEF IdleOnlyWhenDrained, Stalled, Drained
  <2> QED
    BY <2>1 DEF Drained
<1> QED
  BY <1>1 DEF IdleOnlyWhenDrained, Stalled, Drained

LEMMA AcceptDrains ==
  ASSUME IInv, IdleOnlyWhenDrained, NEW t \in Tasks, state[t] = "ABSENT", Accept(t)
  PROVE  IdleOnlyWhenDrained'
<1> DEFINE c == ChannelOf[t]
           q == Append(queue[c], t)
           st == [state EXCEPT ![t] = "PENDING"]
<1>1. /\ c \in Channels
      /\ ProcessChannel(c, q, processing[c], st, phase, timers, mapped)
  BY ChannelOfType DEF Accept
<1>2. /\ Whole(st, phase, timers, mapped, answers)
      /\ Line(c, q, processing[c], st, phase, answers)
  BY AcceptHands
<1> HIDE DEF c, q, st
<1>3. queue \in [Channels -> Seq(Tasks)] /\ processing \in [Channels -> BOOLEAN]
  BY DEF IInv
<1>4. /\ Drained(c, queue'[c], processing'[c], phase')
      /\ \A d \in Channels \ {c} : queue'[d] = queue[d] /\ processing'[d] = processing[d]
      /\ \A u \in Tasks : phase[u] = "skipped" => phase'[u] = "skipped"
  BY <1>1, <1>2, <1>3, ProcessChannelDrains
<1>5. \A d \in Channels \ (Channels \ {c}) : d = c
  OBVIOUS
<1> QED
  BY <1>4, <1>5, StillDrained

LEMMA SettleDrains ==
  ASSUME IInv, IdleOnlyWhenDrained, NEW t \in Tasks,
         NEW st \in [Tasks -> TaskState \union {"ABSENT", "PURGED"}],
         \A u \in Tasks : st[u] = "ABSENT" <=> state[u] = "ABSENT",
         \A u \in Tasks \ {t} : st[u] = state[u],
         answers' \in [Tasks -> SUBSET {"completed", "failed"}],
         answers'[t] # {},
         \A u \in Tasks \ {t} : answers'[u] = answers[u],
         Settle(t, st)
  PROVE  IdleOnlyWhenDrained'
<1> DEFINE c == ChannelOf[t]
           q == Dequeue(queue[c])
           ph == [phase EXCEPT ![t] = "ended"]
           tm == timers \ {t}
           mp == mapped \ {t}
           busy == FALSE
<1>1. /\ c \in Channels
      /\ phase[t] = "executing"
      /\ ProcessChannel(c, q, busy, st, ph, tm, mp)
  BY ChannelOfType DEF Settle
<1>2. /\ Whole(st, ph, tm, mp, answers')
      /\ Line(c, q, busy, st, ph, answers')
  BY <1>1, SettleHands
<1>3. \A u \in Tasks : phase[u] = "skipped" => ph[u] = "skipped"
  BY <1>1 DEF IInv, Whole
<1> HIDE DEF c, q, ph, tm, mp, busy
<1>4. queue \in [Channels -> Seq(Tasks)] /\ processing \in [Channels -> BOOLEAN]
  BY DEF IInv
<1>5. /\ Drained(c, queue'[c], processing'[c], phase')
      /\ \A d \in Channels \ {c} : queue'[d] = queue[d] /\ processing'[d] = processing[d]
      /\ \A u \in Tasks : ph[u] = "skipped" => phase'[u] = "skipped"
  BY <1>1, <1>2, <1>4, ProcessChannelDrains
<1>6. \A d \in Channels \ (Channels \ {c}) : d = c
  OBVIOUS
<1> QED
  BY <1>3, <1>5, <1>6, StillDrained

\* What an execution that ends leaves to Settle: the registry st, which differs at
\* most for its task, and a response to that task.
Hands(t, st) ==
  /\ st \in [Tasks -> TaskState \union {"ABSENT", "PURGED"}]
  /\ \A u \in Tasks : st[u] = "ABSENT" <=> state[u] = "ABSENT"
  /\ \A u \in Tasks \ {t} : st[u] = state[u]
  /\ answers' \in [Tasks -> SUBSET {"completed", "failed"}]
  /\ answers'[t] # {}
  /\ \A u \in Tasks \ {t} : answers'[u] = answers[u]
  /\ Settle(t, st)

LEMMA ExecutionHands ==
  ASSUME IInv, GInv, NEW t \in Tasks,
         ExecutionReturns(t) \/ ExecutionThrows(t)
  PROVE  \E st : Hands(t, st)
<1>0. phase[t] = "executing"
  BY DEF ExecutionReturns, ExecutionThrows, Settle
<1>1. "DONE" \in TaskState /\ "FAILED" \in TaskState
  BY DEF TaskState
<1>2. CASE ExecutionReturns(t)
  <2> DEFINE st == UpdateState(state, t, "DONE")
  <2>1. Settle(t, st) /\ answers' = Answer(t, "completed")
    BY <1>2 DEF ExecutionReturns
  <2>2. /\ st \in [Tasks -> TaskState \union {"ABSENT", "PURGED"}]
        /\ \A u \in Tasks : st[u] = "ABSENT" <=> state[u] = "ABSENT"
        /\ \A u \in Tasks \ {t} : st[u] = state[u]
    BY <1>1, UpdateNow
  <2>3. /\ answers' \in [Tasks -> SUBSET {"completed", "failed"}]
        /\ answers'[t] # {}
        /\ \A u \in Tasks \ {t} : answers'[u] = answers[u]
    BY <2>1, InvTypes, AnswerAdds
  <2> HIDE DEF st
  <2> QED
    BY <2>1, <2>2, <2>3 DEF Hands
<1>3. CASE ExecutionThrows(t)
  <2> DEFINE st == UpdateState(state, t, "FAILED")
  <2>1. /\ Settle(t, st)
        /\ answers' = IF Known(state, t) THEN Answer(t, "failed") ELSE answers
    BY <1>3 DEF ExecutionThrows
  <2>2. /\ st \in [Tasks -> TaskState \union {"ABSENT", "PURGED"}]
        /\ \A u \in Tasks : st[u] = "ABSENT" <=> state[u] = "ABSENT"
        /\ \A u \in Tasks \ {t} : st[u] = state[u]
    BY <1>1, UpdateNow
  <2>3. /\ answers' \in [Tasks -> SUBSET {"completed", "failed"}]
        /\ answers'[t] # {}
        /\ \A u \in Tasks \ {t} : answers'[u] = answers[u]
    <3>1. CASE Known(state, t)
      BY <2>1, <3>1, InvTypes, AnswerAdds
    <3>2. CASE ~Known(state, t)
      <4>1. Over(state, t)
        BY <1>0, <3>2, InServiceState DEF Known, TaskState, Over
      <4>2. answers[t] # {}
        BY <1>0, <4>1, Present DEF Whole, Answered
      <4> QED
        BY <2>1, <3>2, <4>2, InvTypes
    <3> QED
      BY <3>1, <3>2
  <2> HIDE DEF st
  <2> QED
    BY <2>1, <2>2, <2>3 DEF Hands
<1> QED
  BY <1>2, <1>3

LEMMA ExecutionDrains ==
  ASSUME IInv, GInv, IdleOnlyWhenDrained, NEW t \in Tasks,
         ExecutionReturns(t) \/ ExecutionThrows(t)
  PROVE  IdleOnlyWhenDrained'
<1>1. PICK st : Hands(t, st)
  BY ExecutionHands
<1> QED
  BY <1>1, SettleDrains DEF Hands

\* A channel that is free has nothing queued, unless a task that was aborted
\* while it waited was cleaned up before its turn.
THEOREM IdleMeansDrained ==
  ASSUME ~Wired
  PROVE  Spec => []IdleOnlyWhenDrained
<1>1. Init => IdleOnlyWhenDrained
  BY DEF Init, IdleOnlyWhenDrained
<1>2. IInv /\ GInv /\ IdleOnlyWhenDrained /\ [Next]_vars => IdleOnlyWhenDrained'
  <2> SUFFICES ASSUME IInv, GInv, IdleOnlyWhenDrained, [Next]_vars
               PROVE  IdleOnlyWhenDrained'
    OBVIOUS
  <2>1. ASSUME UNCHANGED <<queue, processing, phase>>
        PROVE  IdleOnlyWhenDrained'
    BY <2>1 DEF IdleOnlyWhenDrained, Stalled
  <2>2. ASSUME NEW t \in Tasks, CreateTask(t)
        PROVE  IdleOnlyWhenDrained'
    BY <2>1, <2>2, AcceptDrains DEF CreateTask, Refuse
  <2>3. ASSUME NEW t \in Tasks, Timeout(t) \/ AbortTask(t)
        PROVE  IdleOnlyWhenDrained'
    BY <2>1, <2>3 DEF Timeout, AbortTask
  <2>4. \A t \in Tasks : ~ApprovalRequested(t) /\ ~ApprovalResolved(t) /\ ~GrantApproval(t)
    BY DEF ApprovalRequested, ApprovalResolved, GrantApproval
  <2>5. ASSUME \/ Cleanup \/ ExpireMappings \/ ExpireApprovals \/ Shutdown
               \/ UNCHANGED vars
        PROVE  IdleOnlyWhenDrained'
    BY <2>1, <2>5 DEF Cleanup, ExpireMappings, ExpireApprovals, Shutdown, vars
  <2> QED
    BY <2>2, <2>3, <2>4, <2>5, ExecutionDrains DEF Next
<1> QED
  BY <1>1, <1>2, GatewayInvariant, PTL DEF Spec

-----------------------------------------------------------------------------
(* Only aborts stall a channel                                             *)

\* Every task that waits in the queue q is PENDING.
Awaited(q, st, ph) ==
  \A i \in 1 .. Len(q) : ph[q[i]] = "idle" => st[q[i]] = "PENDING"

NoneSkipped(ph) == \A t \in Tasks : ph[t] # "skipped"

Orderly ==
  /\ NoneSkipped(phase)
  /\ \A c \in Channels : Awaited(queue[c], state, phase)

\* A task that processChannel finds at the head of a free channel is PENDING, so
\* it is started and not dropped.
LEMMA ProcessChannelStarts ==
  ASSUME NEW c \in Channels, NEW q, NEW busy, NEW st, NEW ph, NEW tm, NEW mp, NEW ans,
         queue \in [Channels -> Seq(Tasks)],
         Whole(st, ph, tm, mp, ans),
         Line(c, q, busy, st, ph, ans),
         NoneSkipped(ph),
         Awaited(q, st, ph),
         \A d \in Channels \ {c} : Awaited(queue[d], st, ph),
         ProcessChannel(c, q, busy, st, ph, tm, mp)
  PROVE  Orderly'
<1>0. /\ q \in Seq(Tasks)
      /\ st \in [Tasks -> TaskState \union {"ABSENT", "PURGED"}]
      /\ ph \in [Tasks -> Phase]
  BY DEF Line, Whole
<1> DEFINE h == Head(q)
<1>1. CASE Leave(c, q, busy, st, ph, tm, mp)
  BY <1>1 DEF Leave, Orderly, NoneSkipped, Awaited
<1>2. ASSUME ~busy, q # <<>>
      PROVE  h \in Tasks /\ ph[h] = "idle" /\ st[h] = "PENDING"
  <2>1. h \in Tasks /\ h = q[1] /\ 1 \in 1 .. Len(q)
    BY <1>0, <1>2, HeadInLine
  <2>2. ph[h] = "idle"
    BY <1>2, <2>1 DEF Line, LineOK
  <2> QED
    BY <2>1, <2>2 DEF Awaited
<1>3. CASE Start(c, q, busy, st, ph, tm, mp)
  <2>1. /\ ~busy /\ q # <<>>
        /\ state' = UpdateState(st, h, "RUNNING")
        /\ phase' = [ph EXCEPT ![h] = "executing"]
        /\ queue' = [queue EXCEPT ![c] = q]
    BY <1>3 DEF Start, ExecuteTaskLogic
  <2> HIDE DEF h
  <2>2. phase'[h] = "executing" /\ \A u \in Tasks \ {h} : phase'[u] = ph[u]
    BY <1>0, <1>2, <2>1
  <2>3. \A u \in Tasks \ {h} : state'[u] = st[u]
    BY <1>0, <1>2, <2>1 DEF UpdateState
  <2>4. NoneSkipped(phase')
    BY <2>2 DEF NoneSkipped
  <2>5. ASSUME NEW p \in Seq(Tasks), Awaited(p, st, ph)
        PROVE  Awaited(p, state', phase')
    <3>1. \A i \in 1 .. Len(p) : p[i] \in Tasks
      BY <2>5, QueuedIsTask
    <3> QED
      BY <2>2, <2>3, <2>5, <3>1 DEF Awaited
  <2>6. \A d \in Channels : queue'[d] = IF d = c THEN q ELSE queue[d]
    BY <2>1
  <2>7. \A d \in Channels : Awaited(queue'[d], state', phase')
    BY <1>0, <2>5, <2>6
  <2> QED
    BY <2>4, <2>7 DEF Orderly
<1>4. CASE Skip(c, q, busy, st, ph, tm, mp)
  BY <1>2, <1>4 DEF Skip, Known, TaskState
<1> QED
  BY <1>1, <1>3, <1>4 DEF ProcessChannel

LEMMA AcceptKeepsOrder ==
  ASSUME IInv, Orderly, NEW t \in Tasks, state[t] = "ABSENT", Accept(t)
  PROVE  Orderly'
<1> DEFINE c == ChannelOf[t]
           q == Append(queue[c], t)
           st == [state EXCEPT ![t] = "PENDING"]
<1>1. /\ c \in Channels
      /\ ProcessChannel(c, q, processing[c], st, phase, timers, mapped)
  BY ChannelOfType DEF Accept
<1>2. /\ Whole(st, phase, timers, mapped, answers)
      /\ Line(c, q, processing[c], st, phase, answers)
  BY AcceptHands
<1>3. queue \in [Channels -> Seq(Tasks)]
  BY DEF IInv
<1>4. st[t] = "PENDING" /\ \A u \in Tasks \ {t} : st[u] = state[u]
  BY InvTypes
<1>5. ASSUME NEW d \in Channels
      PROVE  Awaited(queue[d], st, phase)
  <2>1. \A i \in 1 .. Len(queue[d]) : queue[d][i] \in Tasks
    BY <1>3, QueuedIsTask
  <2> QED
    BY <1>4, <2>1 DEF Orderly, Awaited
<1>6. Awaited(q, st, phase)
  <2>1. /\ Len(q) = Len(queue[c]) + 1
        /\ Len(queue[c]) \in Nat
        /\ \A i \in 1 .. Len(queue[c]) : q[i] = queue[c][i]
        /\ q[Len(q)] = t
    <3>1. queue[c] \in Seq(Tasks)
      BY <1>1, <1>3
    <3> QED
      BY <3>1, AppendProperties, LenProperties
  <2>2. Awaited(queue[c], st, phase)
    BY <1>1, <1>5
  <2> HIDE DEF q, st
  <2> QED
    BY <1>4, <2>1, <2>2 DEF Awaited
<1> HIDE DEF c, q, st
<1> QED
  BY <1>1, <1>2, <1>3, <1>5, <1>6, ProcessChannelStarts DEF Orderly

LEMMA SettleKeepsOrder ==
  ASSUME IInv, Orderly, NEW t \in Tasks, NEW st, Hands(t, st)
  PROVE  Orderly'
<1> DEFINE c == ChannelOf[t]
           q == Dequeue(queue[c])
           ph == [phase EXCEPT ![t] = "ended"]
           tm == timers \ {t}
           mp == mapped \ {t}
           busy == FALSE
<1>0. /\ st \in [Tasks -> TaskState \union {"ABSENT", "PURGED"}]
      /\ \A u \in Tasks : st[u] = "ABSENT" <=> state[u] = "ABSENT"
      /\ \A u \in Tasks \ {t} : st[u] = state[u]
      /\ answers' \in [Tasks -> SUBSET {"completed", "failed"}]
      /\ answers'[t] # {}
      /\ \A u \in Tasks \ {t} : answers'[u] = answers[u]
      /\ Settle(t, st)
  BY DEF Hands
<1>1. /\ c \in Channels
      /\ phase[t] = "executing"
      /\ ProcessChannel(c, q, busy, st, ph, tm, mp)
  BY <1>0, ChannelOfType DEF Settle
<1>2. /\ Whole(st, ph, tm, mp, answers')
      /\ Line(c, q, busy, st, ph, answers')
  BY <1>0, <1>1, SettleHands
<1>3. queue \in [Channels -> Seq(Tasks)]
  BY DEF IInv
<1>4. ph[t] = "ended" /\ \A u \in Tasks \ {t} : ph[u] = phase[u]
  BY InvTypes
<1>5. NoneSkipped(ph)
  BY <1>4 DEF Orderly, NoneSkipped
<1>6. ASSUME NEW d \in Channels
      PROVE  Awaited(queue[d], st, ph)
  <2>1. \A i \in 1 .. Len(queue[d]) : queue[d][i] \in Tasks
    BY <1>3, QueuedIsTask
  <2> HIDE DEF ph
  <2> QED
    BY <1>0, <1>4, <2>1 DEF Orderly, Awaited
<1>7. Awaited(q, st, ph)
  <2>1. Awaited(queue[c], st, ph) /\ queue[c] \in Seq(Tasks)
    BY <1>1, <1>3, <1>6
  <2> HIDE DEF ph
  <2>2. CASE queue[c] = <<>>
    BY <2>1, <2>2 DEF Dequeue
  <2>3. CASE queue[c] # <<>>
    <3>1. /\ Len(queue[c]) \in Nat
          /\ Len(Tail(queue[c])) = Len(queue[c]) - 1
          /\ \A i \in 1 .. Len(Tail(queue[c])) : Tail(queue[c])[i] = queue[c][i + 1]
      BY <2>1, <2>3, HeadTailProperties, LenProperties
    <3>2. \A i \in 1 .. Len(Tail(queue[c])) : i + 1 \in 1 .. Len(queue[c])
      BY <3>1
    <3> QED
      BY <2>1, <2>3, <3>1, <3>2 DEF Dequeue, Awaited
  <2> QED
    BY <2>2, <2>3
<1> HIDE DEF c, q, ph, tm, mp, busy
<1> QED
  BY <1>1, <1>2, <1>3, <1>5, <1>6, <1>7, ProcessChannelStarts

\* The exception of IdleOnlyWhenDrained is an abort of a task that waits: unless
\* abortTask is called, processChannel never comes upon a task the registry has
\* forgotten, whatever is cleaned up, times out or is refused, and every free
\* channel has drained.
THEOREM OnlyAbortsStall ==
  ASSUME ~Wired
  PROVE  Spec /\ [][\A t \in Tasks : ~AbortTask(t)]_vars =>
           [](\A c \in Channels : ~Stalled(c) /\ (processing[c] \/ queue[c] = <<>>))
<1>1. Init => Orderly
  BY DEF Init, Orderly, NoneSkipped, Awaited
<1>2. IInv /\ GInv /\ Orderly /\ [Next]_vars
        /\ [\A t \in Tasks : ~AbortTask(t)]_vars => Orderly'
  <2> SUFFICES ASSUME IInv, GInv, Orderly, [Next]_vars,
                      [\A t \in Tasks : ~AbortTask(t)]_vars
               PROVE  Orderly'
    OBVIOUS
  <2>1. CASE UNCHANGED vars
    BY <2>1 DEF vars, Orderly, NoneSkipped, Awaited
  <2>2. ASSUME UNCHANGED <<queue, phase>>,
               \A u \in Tasks : state[u] = "PENDING" =>
                 state'[u] = "PENDING" \/ phase[u] # "idle"
        PROVE  Orderly'
    <3>1. ASSUME NEW c \in Channels
          PROVE  Awaited(queue[c], state', phase)
      <4>1. \A i \in 1 .. Len(queue[c]) : queue[c][i] \in Tasks
        BY QueuedIsTask DEF IInv
      <4> QED
        BY <2>2, <4>1 DEF Orderly, Awaited
    <3> QED
      BY <2>2, <3>1 DEF Orderly
  <2>3. ASSUME NEW t \in Tasks, CreateTask(t)
        PROVE  Orderly'
    <3>1. CASE Accept(t)
      BY <2>3, <3>1, AcceptKeepsOrder DEF CreateTask
    <3>2. CASE Refuse(t)
      BY <2>2, <2>3, <3>2, InvTypes DEF CreateTask, Refuse
    <3> QED
      BY <2>3, <3>1, <3>2 DEF CreateTask
  <2>4. ASSUME NEW t \in Tasks, ExecutionReturns(t) \/ ExecutionThrows(t)
        PROVE  Orderly'
    BY <2>4, ExecutionHands, SettleKeepsOrder
  <2>5. ASSUME NEW t \in Tasks, Timeout(t)
        PROVE  Orderly'
    <3>1. phase[t] = "executing"
      BY <2>5 DEF Timeout, IInv, Whole, Scoped
    <3>2. state' = UpdateState(state, t, "FAILED")
      BY <2>5 DEF Timeout
    <3>3. \A u \in Tasks \ {t} : state'[u] = state[u]
      BY <3>2, InvTypes DEF UpdateState
    <3> QED
      BY <2>2, <2>5, <3>1, <3>3 DEF Timeout
  <2>6. CASE Cleanup
    BY <2>2, <2>6, InvTypes DEF Cleanup, Terminal
  <2>7. CASE ExpireMappings \/ ExpireApprovals \/ Shutdown
    BY <2>2, <2>7 DEF ExpireMappings, ExpireApprovals, Shutdown
  <2>8. \A t \in Tasks : ~ApprovalRequested(t) /\ ~ApprovalResolved(t) /\ ~GrantApproval(t)
    BY DEF ApprovalRequested, ApprovalResolved, GrantApproval
  <2> QED
    BY <2>1, <2>3, <2>4, <2>5, <2>6, <2>7, <2>8 DEF Next
<1>3. Orderly /\ IdleOnlyWhenDrained =>
        \A c \in Channels : ~Stalled(c) /\ (processing[c] \/ queue[c] = <<>>)
  BY DEF Orderly, NoneSkipped, IdleOnlyWhenDrained, Stalled
<1> QED
  BY <1>1, <1>2, <1>3, GatewayInvariant, IdleMeansDrained, PTL DEF Spec

-----------------------------------------------------------------------------
(***************************************************************************)
(* As the gateway builds it, TaskOrchestrator implements ChannelServer for *)
(* every set of tasks and channels and every queue size: PerChannelQueue's *)
(* "strict FIFO ordering", channel by channel.                             *)
(***************************************************************************)

\* What the refinement mapping of FIFO gives for serving and seen
Serving == {t \in Tasks : phase[t] = "executing"}
Seen    == {t \in Tasks : state[t] # "ABSENT"}

\* The queue never exceeds its capacity: ChannelServer turns a task away when
\* the line is exactly full.
Bounded == \A c \in Channels : Len(queue[c]) <= MaxQueue

-----------------------------------------------------------------------------
(* processChannel, seen from outside                                       *)

LEMMA Tails ==
  ASSUME NEW s \in Seq(Tasks)
  PROVE  /\ SubSeq(s, 1, Len(s)) = s
         /\ s # <<>> => SubSeq(s, 2, Len(s)) = Tail(s)
         /\ s # <<>> /\ Tail(s) # <<>> => SubSeq(s, 3, Len(s)) = Tail(Tail(s))
<1>1. SubSeq(s, 1, Len(s)) = s
  BY SubSeqFull
<1>2. s # <<>> => SubSeq(s, 2, Len(s)) = Tail(s)
  BY TailIsSubSeq
<1>3. ASSUME s # <<>>, Tail(s) # <<>>
      PROVE  SubSeq(s, 3, Len(s)) = Tail(Tail(s))
  <2>1. Len(s) \in Nat /\ Tail(s) \in Seq(Tasks) /\ Len(Tail(s)) = Len(s) - 1
    BY <1>3, HeadTailProperties, LenProperties
  <2>2. Len(Tail(s)) \in Nat \ {0}
    BY <1>3, <2>1, EmptySeq
  <2>3. 2 \in 1 .. Len(s) /\ Len(s) \in 2 .. Len(s)
    BY <2>1, <2>2
  <2>4. Tail(SubSeq(s, 2, Len(s))) = SubSeq(s, 2 + 1, Len(s))
    BY <2>3, HeadTailOfSubSeq
  <2> QED
    BY <1>2, <1>3, <2>4
<1> QED
  BY <1>1, <1>2, <1>3

\* ChannelServer's Move under the refinement mapping
Moves(c, before) ==
  \E n \in 0 .. Len(before) :
    LET rest == SubSeq(before, n + 1, Len(before))
        here == {t \in Serving : ChannelOf[t] = c}
    IN  /\ queue' = [queue EXCEPT ![c] = rest]
        /\ \E now \in {{}, IF rest = <<>> THEN {} ELSE {Head(rest)}} :
             /\ Serving' = (Serving \ here) \union now
             /\ n = 0 /\ here # {} => now = here

\* ... once its witnesses are known
LEMMA MoveBy ==
  ASSUME NEW c \in Channels, NEW before, NEW n \in 0 .. Len(before),
         NEW rest, rest = SubSeq(before, n + 1, Len(before)),
         queue' = [queue EXCEPT ![c] = rest],
         NEW now \in {{}, IF rest = <<>> THEN {} ELSE {Head(rest)}},
         NEW here, here = {t \in Serving : ChannelOf[t] = c},
         Serving' = (Serving \ here) \union now,
         n = 0 /\ here # {} => now = here
  PROVE  Moves(c, before)
BY DEF Moves

\* The first k tasks of the line `before` have left and q is what remains; if
\* any left, the one in service was among them.
Remains(c, before, k, q, busy, st, ph) ==
  /\ before \in Seq(Tasks)
  /\ q \in Seq(Tasks)
  /\ busy \in BOOLEAN
  /\ k \in {0, 1}
  /\ k \in 0 .. Len(before)
  /\ q = SubSeq(before, k + 1, Len(before))
  /\ q # <<>> => /\ k + 1 \in 0 .. Len(before)
                 /\ Tail(q) = SubSeq(before, k + 2, Len(before))
  /\ ph \in [Tasks -> Phase]
  /\ LineOK(c, q, busy, st, ph)
  /\ ServiceOK(c, q, busy, ph)
  /\ \A t \in Tasks : ChannelOf[t] # c \/ k = 0 =>
       (ph[t] = "executing" <=> phase[t] = "executing")
  /\ k = 1 => ~busy

\* ProcessChannel completes the move.
LEMMA ProcessMoves ==
  ASSUME NEW c \in Channels, NEW before, NEW k, NEW q, NEW busy, NEW st, NEW ph,
         NEW tm, NEW mp,
         Remains(c, before, k, q, busy, st, ph),
         ProcessChannel(c, q, busy, st, ph, tm, mp)
  PROVE  Moves(c, before)
<1> DEFINE here == {t \in Serving : ChannelOf[t] = c}
           h == Head(q)
<1> USE DEF Remains
<1>0. /\ q \in Seq(Tasks)
      /\ k \in 0 .. Len(before)
      /\ q = SubSeq(before, k + 1, Len(before))
  OBVIOUS
<1>1. CASE Leave(c, q, busy, st, ph, tm, mp)
  <2>1. /\ queue' = [queue EXCEPT ![c] = q]
        /\ phase' = ph
        /\ busy \/ q = <<>>
    BY <1>1 DEF Leave
  <2>2. CASE busy
    <3>1. k = 0 /\ q # <<>> /\ here = {h}
      BY <2>2 DEF ServiceOK, Serving
    <3>2. Serving' = (Serving \ here) \union here
      BY <2>1, <3>1 DEF Serving
    <3>3. here \in {{}, IF q = <<>> THEN {} ELSE {Head(q)}}
      BY <3>1
    <3>4. k = 0 /\ here # {} => here = here
      OBVIOUS
    <3> QED
      BY <1>0, <2>1, <3>2, <3>3, <3>4, MoveBy
  <2>3. CASE ~busy
    <3>1. \A t \in Tasks : ChannelOf[t] = c => ph[t] # "executing"
      BY <2>3 DEF ServiceOK
    <3>2. Serving' = (Serving \ here) \union {}
      BY <2>1, <3>1 DEF Serving
    <3>3. k = 0 /\ here # {} => {} = here
      BY <3>1 DEF Serving
    <3>4. {} \in {{}, IF q = <<>> THEN {} ELSE {Head(q)}}
      OBVIOUS
    <3> QED
      BY <1>0, <2>1, <3>2, <3>3, <3>4, MoveBy
  <2> QED
    BY <2>2, <2>3
<1>2. ASSUME ~busy, q # <<>>
      PROVE  /\ h \in Tasks
             /\ ChannelOf[h] = c
             /\ ph[h] = "idle"
             /\ \A t \in Tasks : ChannelOf[t] = c => ph[t] # "executing"
             /\ k = 0 => here = {}
  <2>1. h \in Tasks /\ h = q[1] /\ 1 \in 1 .. Len(q)
    BY <1>2, HeadInLine
  <2>2. ph[h] = "idle" /\ ChannelOf[h] = c
    BY <1>2, <2>1 DEF LineOK
  <2>3. \A t \in Tasks : ChannelOf[t] = c => ph[t] # "executing"
    BY <1>2 DEF ServiceOK
  <2>4. k = 0 => here = {}
    BY <2>3 DEF Serving
  <2> QED
    BY <2>1, <2>2, <2>3, <2>4
<1>3. CASE Start(c, q, busy, st, ph, tm, mp)
  <2>1. /\ ~busy /\ q # <<>>
        /\ queue' = [queue EXCEPT ![c] = q]
        /\ phase' = [ph EXCEPT ![h] = "executing"]
    BY <1>3 DEF Start, ExecuteTaskLogic
  <2>2. Serving' = (Serving \ here) \union {h}
    <3> HIDE DEF h
    <3> QED
      BY <1>2, <2>1 DEF Serving
  <2>3. {h} \in {{}, IF q = <<>> THEN {} ELSE {Head(q)}}
    BY <2>1
  <2>4. k = 0 /\ here # {} => {h} = here
    BY <1>2, <2>1
  <2> QED
    BY <1>0, <2>1, <2>2, <2>3, <2>4, MoveBy
<1>4. CASE Skip(c, q, busy, st, ph, tm, mp)
  <2>1. /\ ~busy /\ q # <<>>
        /\ queue' = [queue EXCEPT ![c] = Tail(q)]
        /\ phase' = [ph EXCEPT ![h] = "skipped"]
    BY <1>4 DEF Skip
  <2>2. Serving' = (Serving \ here) \union {}
    <3> HIDE DEF h
    <3> QED
      BY <1>2, <2>1 DEF Serving
  <2>3. /\ k + 1 \in 0 .. Len(before)
        /\ Tail(q) = SubSeq(before, (k + 1) + 1, Len(before))
        /\ k + 1 # 0
    <3>1. /\ k + 1 \in 0 .. Len(before)
          /\ Tail(q) = SubSeq(before, k + 2, Len(before))
      BY <2>1
    <3>2. k \in {0, 1}
      OBVIOUS
    <3>3. k + 2 = (k + 1) + 1 /\ k + 1 # 0
      BY <3>2
    <3> QED
      BY <3>1, <3>3
  <2>4. {} \in {{}, IF Tail(q) = <<>> THEN {} ELSE {Head(Tail(q))}}
    OBVIOUS
  <2> HIDE DEF here
  <2> QED
    BY <2>1, <2>2, <2>3, <2>4, MoveBy DEF here
<1> QED
  BY <1>1, <1>3, <1>4 DEF ProcessChannel

-----------------------------------------------------------------------------
(* Queues stay within their capacity                                       *)

LEMMA ProcessShrinks ==
  ASSUME NEW c \in Channels, NEW q \in Seq(Tasks), NEW busy, NEW st, NEW ph,
         NEW tm, NEW mp,
         queue \in [Channels -> Seq(Tasks)], Bounded, Len(q) <= MaxQueue,
         ProcessChannel(c, q, busy, st, ph, tm, mp)
  PROVE  Bounded'
<1>1. CASE queue' = [queue EXCEPT ![c] = q]
  BY <1>1 DEF Bounded
<1>2. CASE q # <<>> /\ queue' = [queue EXCEPT ![c] = Tail(q)]
  <2>1. Len(q) \in Nat /\ Len(Tail(q)) = Len(q) - 1
    BY <1>2, HeadTailProperties, LenProperties
  <2>2. Len(Tail(q)) <= MaxQueue
    BY <2>1, MaxQueueType
  <2> QED
    BY <1>2, <2>2 DEF Bounded
<1> QED
  BY <1>1, <1>2 DEF ProcessChannel, Leave, Start, ExecuteTaskLogic, Skip

LEMMA DequeueShrinks ==
  ASSUME NEW q \in Seq(Tasks), Len(q) <= MaxQueue
  PROVE  Dequeue(q) \in Seq(Tasks) /\ Len(Dequeue(q)) <= MaxQueue
<1>1. CASE q = <<>>
  BY <1>1 DEF Dequeue
<1>2. CASE q # <<>>
  <2>1. /\ Len(q) \in Nat
        /\ Tail(q) \in Seq(Tasks)
        /\ Len(Tail(q)) = Len(q) - 1
    BY <1>2, HeadTailProperties, LenProperties
  <2> QED
    BY <1>2, <2>1, MaxQueueType DEF Dequeue
<1> QED
  BY <1>1, <1>2

LEMMA BoundedInit == Init => Bounded
<1> SUFFICES ASSUME Init, NEW c \in Channels
             PROVE  Len(queue[c]) <= MaxQueue
  BY DEF Bounded
<1>1. queue[c] = <<>>
  BY DEF Init
<1> QED
  BY <1>1, MaxQueueType

\* The gateway's operations on a queue
LEMMA BoundedStep ==
  ASSUME ~Wired
  PROVE  IInv /\ Bounded /\ [Next]_vars => Bounded'
<1> SUFFICES ASSUME IInv, Bounded, [Next]_vars
             PROVE  Bounded'
  OBVIOUS
<1>0. queue \in [Channels -> Seq(Tasks)]
  BY DEF IInv
<1>1. ASSUME NEW t \in Tasks, Accept(t)
      PROVE  Bounded'
  <2> DEFINE c == ChannelOf[t]
             q == Append(queue[c], t)
  <2>1. /\ c \in Channels
        /\ Len(queue[c]) < MaxQueue
        /\ ProcessChannel(c, q, processing[c], [state EXCEPT ![t] = "PENDING"], phase,
                          timers, mapped)
    BY <1>1, ChannelOfType DEF Accept
  <2>2. queue[c] \in Seq(Tasks)
    BY <1>0, <2>1
  <2>3. Len(queue[c]) \in Nat /\ q \in Seq(Tasks) /\ Len(q) = Len(queue[c]) + 1
    BY <2>2, AppendProperties, LenProperties
  <2>4. Len(q) <= MaxQueue
    BY <2>1, <2>3, MaxQueueType
  <2> HIDE DEF c, q
  <2> QED
    BY <1>0, <2>1, <2>3, <2>4, ProcessShrinks
<1>2. ASSUME NEW t \in Tasks, NEW st, Settle(t, st)
      PROVE  Bounded'
  <2> DEFINE c == ChannelOf[t]
             q == Dequeue(queue[c])
  <2>1. /\ c \in Channels
        /\ ProcessChannel(c, q, FALSE, st, [phase EXCEPT ![t] = "ended"],
                          timers \ {t}, mapped \ {t})
    BY <1>2, ChannelOfType DEF Settle
  <2>2. queue[c] \in Seq(Tasks) /\ Len(queue[c]) <= MaxQueue
    BY <1>0, <2>1 DEF Bounded
  <2>3. q \in Seq(Tasks) /\ Len(q) <= MaxQueue
    BY <2>2, DequeueShrinks
  <2> HIDE DEF c, q
  <2> QED
    BY <1>0, <2>1, <2>3, ProcessShrinks
<1>3. CASE UNCHANGED queue
  BY <1>3 DEF Bounded
<1>4. \A t \in Tasks : ~ApprovalRequested(t) /\ ~ApprovalResolved(t) /\ ~GrantApproval(t)
  BY DEF ApprovalRequested, ApprovalResolved, GrantApproval
<1> QED
  BY <1>1, <1>2, <1>3, <1>4
     DEF Next, CreateTask, Refuse, ExecutionReturns, ExecutionThrows, Timeout, AbortTask,
         Cleanup, ExpireMappings, ExpireApprovals, Shutdown, vars

-----------------------------------------------------------------------------
(* Every step of the gateway's orchestrator is one of ChannelServer        *)

\* ProcessChannel registers nobody and forgets nobody.
LEMMA ProcessKeepsSeen ==
  ASSUME NEW c, NEW q \in Seq(Tasks), NEW busy,
         NEW st \in [Tasks -> TaskState \union {"ABSENT", "PURGED"}], NEW ph,
         NEW tm, NEW mp, ProcessChannel(c, q, busy, st, ph, tm, mp)
  PROVE  \A u \in Tasks : state'[u] = "ABSENT" <=> st[u] = "ABSENT"
<1>1. CASE state' = st
  BY <1>1
<1>2. CASE q # <<>> /\ state' = UpdateState(st, Head(q), "RUNNING")
  <2>1. Head(q) \in Tasks /\ "RUNNING" \in TaskState
    BY <1>2, HeadInLine DEF TaskState
  <2>2. \A u \in Tasks :
          UpdateState(st, Head(q), "RUNNING")[u] = "ABSENT" <=> st[u] = "ABSENT"
    BY <2>1, UpdateKeeps
  <2> QED
    BY <1>2, <2>2
<1> QED
  BY <1>1, <1>2 DEF ProcessChannel, Leave, Start, ExecuteTaskLogic, Skip

LEMMA AcceptArrives ==
  ASSUME IInv, GInv, NEW t \in Tasks, state[t] = "ABSENT", Accept(t)
  PROVE  FIFO!Arrive(t)
<1> DEFINE c == ChannelOf[t]
           q == Append(queue[c], t)
           st == [state EXCEPT ![t] = "PENDING"]
<1>1. /\ c \in Channels
      /\ Len(queue[c]) < MaxQueue
      /\ ProcessChannel(c, q, processing[c], st, phase, timers, mapped)
  BY ChannelOfType DEF Accept
<1>2. /\ Line(c, q, processing[c], st, phase, answers)
      /\ LineOK(c, q, processing[c], st, phase)
  BY AcceptHands DEF Line
<1>3. ServiceOK(c, q, processing[c], phase)
  BY AcceptInService DEF GLine
<1>4. /\ q \in Seq(Tasks)
      /\ processing[c] \in BOOLEAN
      /\ phase \in [Tasks -> Phase]
      /\ st \in [Tasks -> TaskState \union {"ABSENT", "PURGED"}]
      /\ \A u \in Tasks \ {t} : st[u] = state[u]
      /\ st[t] # "ABSENT"
  BY <1>2, Present DEF Line, TaskState
<1> HIDE DEF q, st
<1>5. Moves(c, q)
  <2>1. /\ Len(q) \in Nat
        /\ q # <<>> => 1 <= Len(q)
    <3>1. Len(q) \in Nat
      BY <1>4, LenProperties
    <3>2. q # <<>> => Len(q) \in Nat \ {0}
      BY <1>4, EmptySeq
    <3> QED
      BY <3>1, <3>2
  <2>2. /\ q = SubSeq(q, 0 + 1, Len(q))
        /\ q # <<>> => Tail(q) = SubSeq(q, 0 + 2, Len(q)) /\ 0 + 1 \in 0 .. Len(q)
        /\ 0 \in 0 .. Len(q)
    BY <1>4, <2>1, Tails
  <2> HIDE DEF c
  <2>3. Remains(c, q, 0, q, processing[c], st, phase)
    BY <1>2, <1>3, <1>4, <2>2 DEF Remains
  <2> QED
    BY <1>1, <2>3, ProcessMoves
<1>6. Seen' = Seen \union {t} /\ t \notin Seen
  <2>1. \A u \in Tasks : state'[u] = "ABSENT" <=> st[u] = "ABSENT"
    BY <1>1, <1>4, ProcessKeepsSeen
  <2> QED
    BY <1>4, <2>1 DEF Seen
<1> QED
  BY <1>1, <1>5, <1>6 DEF FIFO!Arrive, FIFO!Move, FIFO!Front, FIFO!OnChannel, Moves,
                             Serving, Seen, q

LEMMA SettleProceeds ==
  ASSUME IInv, GInv, NEW t \in Tasks, NEW to \in {"DONE", "FAILED"},
         Settle(t, UpdateState(state, t, to))
  PROVE  FIFO!Proceed(ChannelOf[t])
<1> DEFINE c == ChannelOf[t]
           q == Dequeue(queue[c])
           st == UpdateState(state, t, to)
           ph == [phase EXCEPT ![t] = "ended"]
<1>1. /\ c \in Channels
      /\ phase[t] = "executing"
      /\ ProcessChannel(c, q, FALSE, st, ph, timers \ {t}, mapped \ {t})
  BY ChannelOfType DEF Settle
<1>2. /\ st \in [Tasks -> TaskState \union {"ABSENT", "PURGED"}]
      /\ \A u \in Tasks : st[u] = "ABSENT" <=> state[u] = "ABSENT"
  BY UpdateNow DEF TaskState
<1>3. /\ ph \in [Tasks -> Phase]
      /\ ph[t] = "ended"
      /\ \A u \in Tasks \ {t} : ph[u] = phase[u]
  BY Present DEF Phase
<1>4. /\ queue[c] \in Seq(Tasks)
      /\ queue[c] # <<>>
      /\ \A u \in Tasks : ChannelOf[u] = c /\ phase[u] = "executing" => u = t
  <2>1. ServiceOK(c, queue[c], processing[c], phase)
    BY <1>1, Present DEF GLine
  <2> QED
    BY <1>1, <2>1, Present DEF ServiceOK
<1>5. LineOK(c, q, FALSE, st, ph) /\ ServiceOK(c, q, FALSE, ph) /\ q \in Seq(Tasks)
  <2>1. LineOK(c, queue[c], processing[c], state, phase)
    BY <1>1, Present DEF Line
  <2>2. q \in Seq(Tasks) /\ LineOK(c, q, FALSE, state, phase)
    BY <1>4, <2>1, TailUnstarted
  <2> HIDE DEF q, st, ph
  <2>3. \A i \in 1 .. Len(q) : q[i] \in Tasks
    BY <2>2, QueuedIsTask
  <2>4. \A i \in 1 .. Len(q) : phase[q[i]] = "idle" /\ q[i] # t
    BY <1>1, <2>2 DEF LineOK
  <2>5. LineOK(c, q, FALSE, st, ph)
    BY <1>2, <1>3, <2>2, <2>3, <2>4 DEF LineOK
  <2>6. ServiceOK(c, q, FALSE, ph)
    BY <1>3, <1>4 DEF ServiceOK
  <2> QED
    BY <2>2, <2>5, <2>6
<1>6. /\ q = SubSeq(queue[c], 1 + 1, Len(queue[c]))
      /\ q # <<>> => /\ 1 + 1 \in 0 .. Len(queue[c])
                     /\ Tail(q) = SubSeq(queue[c], 1 + 2, Len(queue[c]))
      /\ 1 \in 0 .. Len(queue[c])
  <2>1. q = Tail(queue[c])
    BY <1>4 DEF Dequeue
  <2>2. /\ Len(queue[c]) \in Nat \ {0}
        /\ Len(q) = Len(queue[c]) - 1
    BY <1>4, <2>1, EmptySeq, HeadTailProperties
  <2>3. q # <<>> => Len(q) \in Nat \ {0}
    BY <1>5, EmptySeq
  <2>4. /\ q = SubSeq(queue[c], 2, Len(queue[c]))
        /\ q # <<>> => Tail(q) = SubSeq(queue[c], 3, Len(queue[c]))
    BY <1>4, <2>1, Tails
  <2> HIDE DEF q, c
  <2> QED
    BY <2>2, <2>3, <2>4
<1> HIDE DEF st, ph, q
<1>7. Moves(c, queue[c])
  <2> HIDE DEF c
  <2>1. \A u \in Tasks : ChannelOf[u] # c \/ 1 = 0 =>
          (ph[u] = "executing" <=> phase[u] = "executing")
    BY <1>3 DEF c
  <2>2. Remains(c, queue[c], 1, q, FALSE, st, ph)
    BY <1>3, <1>4, <1>5, <1>6, <2>1 DEF Remains
  <2> QED
    BY <1>1, <2>2, ProcessMoves
<1>8. Seen' = Seen
  <2>1. \A u \in Tasks : state'[u] = "ABSENT" <=> st[u] = "ABSENT"
    BY <1>1, <1>2, <1>5, ProcessKeepsSeen
  <2> QED
    BY <1>2, <2>1 DEF Seen
<1> QED
  BY <1>7, <1>8 DEF FIFO!Proceed, FIFO!Move, FIFO!Front, FIFO!OnChannel, Moves,
                       Serving, Seen

LEMMA RefuseTurnsAway ==
  ASSUME IInv, Bounded, NEW t \in Tasks, state[t] = "ABSENT", Refuse(t)
  PROVE  FIFO!TurnAway(t)
<1> DEFINE c == ChannelOf[t]
<1>1. Len(queue[c]) = MaxQueue
  <2>1. c \in Channels /\ queue[c] \in Seq(Tasks)
    BY ChannelOfType DEF IInv
  <2>2. Len(queue[c]) \in Nat /\ Len(queue[c]) <= MaxQueue
    BY <2>1, LenProperties DEF Bounded
  <2>3. Len(queue[c]) >= MaxQueue
    BY DEF Refuse
  <2> QED
    BY <2>2, <2>3, MaxQueueType
<1>2. Seen' = Seen \union {t} /\ t \notin Seen
  BY DEF Refuse, IInv, Whole, Seen
<1>3. UNCHANGED <<queue, Serving>>
  BY DEF Refuse, Serving
<1> QED
  BY <1>1, <1>2, <1>3 DEF FIFO!TurnAway, Serving, Seen

\* The other operations are invisible from outside.
LEMMA OthersStutter ==
  ASSUME IInv,
         \/ \E t \in Tasks : Timeout(t) \/ AbortTask(t)
         \/ Cleanup \/ ExpireMappings \/ ExpireApprovals \/ Shutdown
         \/ UNCHANGED vars
  PROVE  UNCHANGED FIFO!vars
<1>0. state \in [Tasks -> TaskState \union {"ABSENT", "PURGED"}]
  BY InvTypes
<1>1. /\ UNCHANGED <<queue, phase>>
      /\ \A u \in Tasks : state'[u] = "ABSENT" <=> state[u] = "ABSENT"
  <2>1. ASSUME NEW t \in Tasks, Timeout(t)
        PROVE  /\ UNCHANGED <<queue, phase>>
               /\ \A u \in Tasks : state'[u] = "ABSENT" <=> state[u] = "ABSENT"
    <3>1. "FAILED" \in TaskState
      BY DEF TaskState
    <3> QED
      BY <2>1, <3>1, UpdateNow DEF Timeout
  <2>2. ASSUME NEW t \in Tasks, AbortTask(t)
        PROVE  /\ UNCHANGED <<queue, phase>>
               /\ \A u \in Tasks : state'[u] = "ABSENT" <=> state[u] = "ABSENT"
    BY <1>0, <2>2 DEF AbortTask
  <2>3. CASE Cleanup
    BY <2>3 DEF Cleanup, Terminal
  <2>4. CASE UNCHANGED <<state, queue, phase>>
    BY <2>4
  <2> QED
    BY <2>1, <2>2, <2>3, <2>4 DEF ExpireMappings, ExpireApprovals, Shutdown, vars
<1>2. Serving' = Serving /\ Seen' = Seen
  BY <1>1 DEF Serving, Seen
<1> QED
  BY <1>1, <1>2 DEF FIFO!vars, Serving, Seen

LEMMA StepImplements ==
  ASSUME ~Wired
  PROVE  IInv /\ GInv /\ Bounded /\ [Next]_vars => [FIFO!Next]_(FIFO!vars)
<1> SUFFICES ASSUME IInv, GInv, Bounded, [Next]_vars
             PROVE  [FIFO!Next]_(FIFO!vars)
  OBVIOUS
<1>1. ASSUME NEW t \in Tasks, CreateTask(t)
      PROVE  FIFO!Next
  <2>1. FIFO!Arrive(t) \/ FIFO!TurnAway(t)
    BY <1>1, AcceptArrives, RefuseTurnsAway DEF CreateTask
  <2> QED
    BY <2>1 DEF FIFO!Next
<1>2. ASSUME NEW t \in Tasks, ExecutionReturns(t) \/ ExecutionThrows(t)
      PROVE  FIFO!Next
  <2>1. PICK to \in {"DONE", "FAILED"} : Settle(t, UpdateState(state, t, to))
    BY <1>2 DEF ExecutionReturns, ExecutionThrows
  <2>2. FIFO!Proceed(ChannelOf[t])
    BY <2>1, SettleProceeds
  <2>3. ChannelOf[t] \in Channels
    BY ChannelOfType
  <2> QED
    BY <2>2, <2>3 DEF FIFO!Next
<1>3. ASSUME \/ \E t \in Tasks : Timeout(t) \/ AbortTask(t)
             \/ Cleanup \/ ExpireMappings \/ ExpireApprovals \/ Shutdown
             \/ UNCHANGED vars
      PROVE  UNCHANGED FIFO!vars
  BY <1>3, OthersStutter
<1>4. \A t \in Tasks : ~ApprovalRequested(t) /\ ~ApprovalResolved(t) /\ ~GrantApproval(t)
  BY DEF ApprovalRequested, ApprovalResolved, GrantApproval
<1> QED
  BY <1>1, <1>2, <1>3, <1>4 DEF Next

-----------------------------------------------------------------------------
(* The result                                                              *)

LEMMA InitImplements == Init => FIFO!Init
BY DEF Init, FIFO!Init

\* Each channel is a FIFO server: PerChannelQueue's "strict FIFO ordering" holds
\* of every run of the orchestrator that the gateway builds.
THEOREM ImplementsFIFO ==
  ASSUME ~Wired
  PROVE  Spec => ServesInOrder
<1>1. Init => Bounded /\ FIFO!Init
  BY BoundedInit, InitImplements
<1>2. IInv /\ Bounded /\ [Next]_vars => Bounded'
  BY BoundedStep
<1>3. IInv /\ GInv /\ Bounded /\ [Next]_vars => [FIFO!Next]_(FIFO!vars)
  BY StepImplements
<1> QED
  BY <1>1, <1>2, <1>3, GatewayInvariant, PTL DEF Spec, ServesInOrder, FIFO!Spec
=============================================================================
