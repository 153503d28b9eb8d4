------------------------------ MODULE MCProxy ------------------------------
(* Two requests and a cleaner, all about one uid, and two endpoints; no
   symmetry, since the run checks liveness. *)
EXTENDS Proxy

CONSTANTS q1, q2, k1, a, e1, e2

MCReq == {q1, q2}
MCCleaner == {k1}
MCUid == {a}
MCEndpoint == {e1, e2}

=============================================================================
