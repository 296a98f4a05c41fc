---------------------------- MODULE MCToolRuntime ----------------------------
(* Two invocations of a tool whose commands are checked and, unless the      *)
(* configuration makes i4 = i3, two of a tool that needs no approval.        *)
EXTENDS ToolRuntime

CONSTANTS i1, i2, i3, i4, run, read

MCInvs == {i1, i2, i3, i4}
MCTools == {run, read}
MCGated == {run}
MCToolOf == [i \in MCInvs |-> IF i \in {i1, i2} THEN run ELSE read]
=============================================================================
