------------------------------- MODULE MCDash -------------------------------
(***************************************************************************)
(* Two overlapping calls of one dash process; the lead may pass to another *)
(* process and come back.  No symmetry, since the run checks liveness.     *)
(***************************************************************************)
EXTENDS Dash

CONSTANTS d1, d2, c1, c2, u1, e1, e2, e3

MCDashes == {d1, d2}
MCCall == {c1, c2}
MCDashOf == [c \in MCCall |-> d1]
MCUid == {u1}
MCEndpoint == {e1, e2, e3}

=============================================================================
