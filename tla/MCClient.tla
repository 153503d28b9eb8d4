------------------------------ MODULE MCClient ------------------------------
(***************************************************************************)
(* Two handlers that may overlap, and three commands for a history that    *)
(* has room for two.  Handlers, and commands, are interchangeable.         *)
(***************************************************************************)
EXTENDS Client, TLC

CONSTANTS h1, h2, c1, c2, c3

MCHandler == {h1, h2}
MCCmd == {c1, c2, c3}
Symmetry == Permutations(MCHandler) \cup Permutations(MCCmd)

=============================================================================
