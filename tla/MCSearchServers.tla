-------------------------- MODULE MCSearchServers --------------------------
(* Two servers, one user with one connection, two calls at a time. *)
EXTENDS SearchServers, TLC

CONSTANTS s1, s2, u1, a1, w1, w2, c1

MCServer == {s1, s2}
MCUid == {u1}
MCAddr == {a1}
MCCall == {w1, w2}
MCCmd == {c1}
Symmetry == Permutations(MCServer) \cup Permutations(MCCall)

=============================================================================
