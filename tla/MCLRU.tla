------------------------------- MODULE MCLRU -------------------------------
(* Instance of LRU: more keys than room, two values to tell updates apart. *)
EXTENDS LRU

MCKey == {"k1", "k2", "k3"}
MCValue == {"v1", "v2"}
MCCapacity == 2

=============================================================================
