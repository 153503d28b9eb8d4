---------------------------- MODULE MCEtcdLock ----------------------------
(***************************************************************************)
(* Two goroutines of one process share a lockRecord; a third goroutine, of *)
(* another process, competes with them.  Three leases: two goroutines that *)
(* wait and a stale record.  No symmetry, since the run checks liveness.   *)
(***************************************************************************)
EXTENDS EtcdLock

CONSTANTS p1, p2, g1, g2, g3, l1, l2, l3

MCProc == {p1, p2}
MCGor == {g1, g2, g3}
MCProcOf == [g \in MCGor |-> IF g = g3 THEN p2 ELSE p1]
MCLease == {l1, l2, l3}

=============================================================================
