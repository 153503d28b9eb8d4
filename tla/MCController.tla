---------------------------- MODULE MCController ----------------------------
(***************************************************************************)
(* Two dashes, which compete for the lead and may die and start again, and *)
(* the ring of one of them, with two search servers of two virtual nodes   *)
(* each on five slots where they collide.  The third lease is for a dash   *)
(* that starts again while its old lease has not ended.  No symmetry,      *)
(* since the run checks liveness.                                          *)
(***************************************************************************)
EXTENDS Controller

CONSTANTS d1, d2, n1, n2, l1, l2, l3

MCDashes == {d1, d2}
MCObserved == {d1}
MCNode == {n1, n2}
MCLease == {l1, l2, l3}
MCHash == [v \in MCNode \X (1..vNodeNum) |->
    [j \in 1..slotNum |->
        ((IF v[1] = n1 THEN 0 ELSE 2) + 2 * v[2] + j) % slotNum]]

=============================================================================
