----------------------------- MODULE ChannelServer -----------------------------
(***************************************************************************)
(* What the orchestrator promises each channel, whatever its tasks do: a   *)
(* bounded line of tasks in arrival order, at most one of them in service, *)
(* always the one in front.  Nobody overtakes, nobody enters service       *)
(* twice, and channels do not interfere.                                   *)
(***************************************************************************)
EXTENDS Naturals, Sequences

CONSTANTS Tasks, Channels, ChannelOf, Capacity

VARIABLES
  line,     \* tasks of each channel that have not left, oldest first
  serving,  \* tasks in service, over all channels
  seen      \* tasks that have arrived, whether or not they were let in

vars == <<line, serving, seen>>

Front(s) == IF s = <<>> THEN {} ELSE {Head(s)}

OnChannel(c) == {t \in Tasks : ChannelOf[t] = c}

Init ==
  /\ line = [c \in Channels |-> <<>>]
  /\ serving = {}
  /\ seen = {}

\* Channel c's line was `before`: its first n tasks leave, and the one then in
\* front may enter service.  Who is in service stays so until he leaves.
Move(c, before) ==
  \E n \in 0 .. Len(before) :
    LET rest == SubSeq(before, n + 1, Len(before))
        here == serving \intersect OnChannel(c)
    IN  /\ line' = [line EXCEPT ![c] = rest]
        /\ \E now \in {{}, Front(rest)} :
             /\ serving' = (serving \ here) \union now
             /\ n = 0 /\ here # {} => now = here

Arrive(t) ==
  /\ t \notin seen
  /\ seen' = seen \union {t}
  /\ Len(line[ChannelOf[t]]) < Capacity
  /\ Move(ChannelOf[t], Append(line[ChannelOf[t]], t))

TurnAway(t) ==
  /\ t \notin seen
  /\ seen' = seen \union {t}
  /\ Len(line[ChannelOf[t]]) = Capacity
  /\ UNCHANGED <<line, serving>>

Proceed(c) == Move(c, line[c]) /\ UNCHANGED seen

Next ==
  \/ \E t \in Tasks : Arrive(t) \/ TurnAway(t)
  \/ \E c \in Channels : Proceed(c)

Spec == Init /\ [][Next]_vars
=============================================================================
