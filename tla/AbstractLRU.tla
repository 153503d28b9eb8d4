---------------------------- MODULE AbstractLRU ----------------------------
(***************************************************************************)
(* What a least-recently-used cache promises, without a list: the value    *)
(* held for each key, and which of two held keys was used more recently.   *)
(* Whether Contains counts as a use is left open: the interface says it    *)
(* does not, the code says it does (see LRU!ContainsKeepsOrder).           *)
(***************************************************************************)
EXTENDS Naturals, FiniteSets

CONSTANTS Key, Value, None, capacity

VARIABLES
    store,      \* the value held for a key, None when there is none
    newer,      \* <<a, b>>: both are held and a was used after b
    ret         \* the result of the last operation

vars == <<store, newer, ret>>

Held == {k \in Key : store[k] # None}
Returned(op, k, v, ok) == [op |-> op, key |-> k, value |-> v, ok |-> ok]
Nothing(op) == Returned(op, None, None, FALSE)

(* The order on the keys in S once k, then the newest of them, is used. *)
Using(k, S) ==
    (newer \cap ((S \ {k}) \X (S \ {k}))) \cup ({k} \X (S \ {k}))

IsOldest(k) == k \in Held /\ \A x \in Held \ {k} : <<x, k>> \in newer

Init ==
    /\ store = [k \in Key |-> None]
    /\ newer = {}
    /\ ret = Nothing("New")

Add(k, v) ==
    \/ /\ k \in Held \/ Cardinality(Held) < capacity
       /\ store' = [store EXCEPT ![k] = v]
       /\ newer' = Using(k, Held)
       /\ ret' = Returned("Add", k, None, FALSE)
    \/ /\ k \notin Held /\ Cardinality(Held) = capacity
       /\ \E o \in Held :
            /\ IsOldest(o)
            /\ store' = [store EXCEPT ![o] = None, ![k] = v]
            /\ newer' = Using(k, Held \ {o})
            /\ ret' = Returned("Add", k, store[o], TRUE)

Lookup(op, k, order) ==
    /\ \/ k \notin Held /\ ret' = Nothing(op) /\ UNCHANGED newer
       \/ k \in Held /\ ret' = Returned(op, k, store[k], TRUE) /\ newer' = order
    /\ UNCHANGED store

Drop(op, k, v) ==
    /\ store' = [store EXCEPT ![k] = None]
    /\ newer' = newer \cap ((Held \ {k}) \X (Held \ {k}))
    /\ ret' = Returned(op, k, v, TRUE)

Nop(op) == ret' = Nothing(op) /\ UNCHANGED <<store, newer>>

Next ==
    \/ \E k \in Key, v \in Value : Add(k, v)
    \/ \E k \in Key :
        \/ Lookup("Get", k, Using(k, Held))
        \/ \E order \in {newer, Using(k, Held)} : Lookup("Contains", k, order)
        \/ Lookup("Peek", k, newer)
        \/ k \in Held /\ Drop("Remove", k, None)
        \/ k \notin Held /\ Nop("Remove")
        \/ IsOldest(k) /\ Drop("RemoveOldest", k, store[k])
        \/ /\ IsOldest(k)
           /\ ret' = Returned("GetOldest", k, store[k], TRUE)
           /\ UNCHANGED <<store, newer>>
    \/ Held = {} /\ (Nop("RemoveOldest") \/ Nop("GetOldest"))
    \/ /\ store' = [k \in Key |-> None]
       /\ newer' = {}
       /\ ret' = Nothing("Purge")

Spec == Init /\ [][Next]_vars

=============================================================================
