------------------------------ MODULE History ------------------------------
(***************************************************************************)
(* The commands one recorder holds (src/recorder/recorder.go): the most    *)
(* recently used first, each once, at most Capacity of them.               *)
(***************************************************************************)
EXTENDS RecencyList

CONSTANTS
    Cmd,            \* non-empty commands
    Capacity        \* defaultEtcdRecorderSize

ASSUME CapacityAssumption == Capacity \in Nat \ {0}

Commands == {s \in UNION {[1..n -> Cmd] : n \in 0..Capacity} : Distinct(s)}

(* recorder.Add: "" is refused, a known command moves to the front
   (Contains, "add weight"), a new one may push out the oldest. *)
Serve(s, q) == IF q \in Cmd THEN Touch(s, q, Capacity) ELSE s

Replay_Forward(s) ==                \* mutant: i counts up from 0
    LET added[n \in 0..Len(s)] ==
          IF n = 0 THEN <<>> ELSE Serve(added[n - 1], s[n])
    IN  added[Len(s)]

(* initOrLoad adds what is stored from the last command to the first. *)
Replay(s) ==
    LET added[n \in 0..Len(s)] ==
          IF n = 0 THEN <<>>
          ELSE Serve(added[n - 1], s[Len(s) + 1 - n])
    IN  added[Len(s)]

=============================================================================
