--------------------------- MODULE MCToolSessions ---------------------------
(***************************************************************************)
(* Terminal and browser sessions for TLC.  They share no state, so a       *)
(* behaviour that interleaves them shows nothing that one of either alone  *)
(* does not: each behaviour here is of one of them.                        *)
(***************************************************************************)
EXTENDS ProcessSessions, BrowserSessions

MCUserOf == [tty |-> "ann", claude |-> "ann", node |-> "ann"]
MCKindOf == [tty |-> "exec_pty", claude |-> "claude", node |-> "claude_node"]
MCKeyOf  == [start1 |-> "k", start2 |-> "k", start3 |-> "l", use1 |-> "k", use2 |-> "k",
             close1 |-> "k", close2 |-> "k"]

MCInit == Init /\ BrowserInit

MCNext ==
  \/ Next /\ BrowserInit /\ UNCHANGED browserVars
  \/ BrowserNext /\ Init /\ UNCHANGED vars

MCSpec == MCInit /\ [][MCNext]_<<vars, browserVars>> /\ Fairness
=============================================================================
