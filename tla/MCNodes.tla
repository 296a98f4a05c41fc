-------------------------------- MODULE MCNodes --------------------------------
(* Two users, two sockets; a command and a capture, each retried once. *)
EXTENDS Nodes

Command(blocked) == [tooLong |-> FALSE, blocked |-> blocked, listed |-> TRUE,
                     badCwd |-> FALSE, badEnv |-> FALSE]

MCUsers == {"u1", "u2"}
MCCalls == {"o1", "o2"}
MCUserOf == [o \in MCCalls |-> "u1"]
MCInputOf == [o \in MCCalls |-> Command(o = "o2")]
MCCapabilities == {{"screen", "exec"}}

\* Bound: consent is asked of the first node only.
OneConsents == \A n \in Ids \ {1} : ~node'[n].consent

MCSpec == Init /\ [][Next /\ OneConsents]_vars /\ Fairness
=============================================================================
