--------------------------- MODULE MCApprovalStore ---------------------------
(* Three operations of any kind at once, on a request that both surfaces     *)
(* show and one that none shows.                                             *)
EXTENDS ApprovalStore, TLC

CONSTANTS r1, r2, o1, o2, o3

MCRequests == {r1, r2}
MCOperations == {o1, o2, o3}
MCSentTo == [r \in MCRequests |-> IF r = r1 THEN Surfaces ELSE {}]
MCSymmetry == Permutations(MCOperations)
=============================================================================
