------------------------------ MODULE MCRecovery ------------------------------
(* Two executions on the plans of a few messages and answers; an execution   *)
(* shares its step ids with one that got the same plan.  Before              *)
(* any execution the plan check is tried on every dependency graph.          *)
EXTENDS Recovery, PathReplanner, TLC

CONSTANTS x1, x2

MCExecutions == {x1, x2}
MCMessages == {{"search"}, {"file"}}
MCAnswers == {[form |-> "json", steps |-> <<[id |-> "step-1", tool |-> "open"],
                                            [id |-> "shell", tool |-> "shell"]>>],
              [form |-> "markup", steps |-> <<[id |-> "", tool |-> "http.request"]>>],
              [form |-> "unreadable", steps |-> << >>]}
MCRegistered == {"browser.goto", "browser.search", "http.request", "fs.write"}
MCErrors == {{"timed out"}, {"denied"}, {"not found"}}

MCInit == Init /\ CheckInit

\* Bound: the tool of the first step only is varied.
OneToolVaries == \A s \in Steps \ {1} : plan'.tool[s] = Unset

MCNext == \/ verdict = "none" /\ Next /\ UNCHANGED checkVars
          \/ exec = [x \in Executions |-> Idle] /\ CheckNext /\ OneToolVaries /\ UNCHANGED vars

MCSpec == /\ MCInit /\ [][MCNext]_<<vars, checkVars>>
          /\ \A x \in Executions : WF_vars(Proceed(x))
=============================================================================
