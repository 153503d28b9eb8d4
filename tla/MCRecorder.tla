----------------------------- MODULE MCRecorder -----------------------------
(***************************************************************************)
(* Two users share a set with room for one recorder, so that every change  *)
(* of user evicts; a third object lets a stopped recorder linger while its *)
(* successor is made.  Ids, commands and objects are interchangeable.      *)
(***************************************************************************)
EXTENDS Recorder, TLC

CONSTANTS u1, u2, c1, c2, r1, r2, r3

MCId == {u1, u2}
MCCmd == {c1, c2}
MCObj == {r1, r2, r3}
Symmetry == Permutations(MCId) \cup Permutations(MCCmd) \cup Permutations(MCObj)

(* For liveness, which symmetry would not preserve: one command and two
   objects keep the graph small. *)
LiveCmd == {c1}
LiveObj == {r1, r2}

=============================================================================
