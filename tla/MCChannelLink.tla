---------------------------- MODULE MCChannelLink ----------------------------
(***************************************************************************)
(* The link for TLC with the smallest rate limiter, and behaviours in which *)
(* a larger one is asked by somebody else and nothing else happens.        *)
(***************************************************************************)
EXTENDS ChannelLink

MCWindow == [k \in Keys |-> IF k = "other" THEN 3 ELSE 1]
MCLimit  == [k \in Keys |-> IF k = "other" THEN 2 ELSE 1]

\* As long as the larger one has no attempts the link may do something, and as
\* long as the link has done nothing the larger one may be asked.
Unasked == limiter["other"] = <<>> /\ recent["other"] = <<>>

MCNext ==
  \/ Unasked /\ Next
  \/ /\ Unasked => Init
     /\ CheckLimit("other") \/ Tick \/ Cleanup
     /\ UNCHANGED <<client, gateway, server, auth, task, overlapped, bounds>>

MCSpec == Init /\ [][MCNext]_vars /\ Fairness
=============================================================================
