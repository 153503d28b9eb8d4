-------------------------------- MODULE LRU --------------------------------
(***************************************************************************)
(* Package lru (src/lru/lru.go): a list of nodes, most recently used       *)
(* first, and a map from a key to its list element.  Every operation but   *)
(* Len and Purge holds l.mtx from its first statement to its return, so    *)
(* each is one action; Len and Purge take no lock and nothing in the       *)
(* repository calls them beside another operation.                         *)
(***************************************************************************)
EXTENDS RecencyList

CONSTANTS
    Key,        \* keys, after fmt.Sprint
    Value,      \* cached values
    None,       \* Go's nil
    capacity    \* lru.capacity

ASSUME CapacityAssumption == capacity \in Nat \ {0}  \* NewLRU panics below 1
ASSUME NoneAssumption == None \notin Key \cup Value

VARIABLES
    l,      \* lru.l: the nodes, front first
    m,      \* lru.m: the keys that have an element
    ret     \* what the last call returned (and handed to its callbacks)

vars == <<l, m, ret>>

Node == [key : Key, value : Value]
Op == {"New", "Add", "Get", "Contains", "Peek", "Remove", "RemoveOldest",
       "GetOldest", "Purge"}
Result == [op : Op, key : Key \cup {None}, value : Value \cup {None},
           ok : BOOLEAN]

TypeOK ==
    /\ l \in Seq(Node)
    /\ m \in SUBSET Key
    /\ ret \in Result

Returned(op, k, v, ok) == [op |-> op, key |-> k, value |-> v, ok |-> ok]
Nothing(op) == Returned(op, None, None, FALSE)

(* The position of the element m[k] points to. *)
Pos(k) == CHOOSE i \in 1..Len(l) : l[i].key = k
Oldest == l[Len(l)]

-----------------------------------------------------------------------------

Init ==
    /\ l = <<>>
    /\ m = {}
    /\ ret = Nothing("New")

(***************************************************************************)
(* Add of a key that is present replaces the node and moves it to the      *)
(* front; Add of a new key first evicts the last node when the list has    *)
(* reached capacity.  The callbacks of this call get the evicted value.    *)
(***************************************************************************)
AddUpdate_NotMoved(k, v) ==         \* mutant: MoveToFront forgotten
    /\ k \in m
    /\ l' = [l EXCEPT ![Pos(k)] = [key |-> k, value |-> v]]
    /\ ret' = Returned("Add", k, None, FALSE)
    /\ UNCHANGED m

AddUpdate(k, v) ==
    /\ k \in m
    /\ l' = PushFront(DropAt(l, Pos(k)), [key |-> k, value |-> v])
    /\ ret' = Returned("Add", k, None, FALSE)
    /\ UNCHANGED m

AddEvict_KeyToCallback(k, v) ==     \* mutant: f(v.key) for f(v.value)
    /\ k \notin m
    /\ Len(l) = capacity
    /\ l' = PushFront(DropAt(l, Len(l)), [key |-> k, value |-> v])
    /\ m' = (m \ {Oldest.key}) \cup {k}
    /\ ret' = Returned("Add", k, Oldest.key, TRUE)

AddEvict_NoDelete(k, v) ==          \* mutant: delete(l.m, ...) forgotten
    /\ k \notin m
    /\ Len(l) = capacity
    /\ l' = PushFront(DropAt(l, Len(l)), [key |-> k, value |-> v])
    /\ m' = m \cup {k}
    /\ ret' = Returned("Add", k, Oldest.value, TRUE)

AddEvict(k, v) ==
    /\ k \notin m
    /\ Len(l) = capacity
    /\ l' = PushFront(DropAt(l, Len(l)), [key |-> k, value |-> v])
    /\ m' = (m \ {Oldest.key}) \cup {k}
    /\ ret' = Returned("Add", k, Oldest.value, TRUE)

AddInsert_OffByOne(k, v) ==         \* mutant: Len() > capacity evicts
    /\ k \notin m
    /\ Len(l) <= capacity
    /\ l' = PushFront(l, [key |-> k, value |-> v])
    /\ m' = m \cup {k}
    /\ ret' = Returned("Add", k, None, FALSE)

AddInsert(k, v) ==
    /\ k \notin m
    /\ Len(l) # capacity
    /\ l' = PushFront(l, [key |-> k, value |-> v])
    /\ m' = m \cup {k}
    /\ ret' = Returned("Add", k, None, FALSE)

Add(k, v) == AddUpdate(k, v) \/ AddEvict(k, v) \/ AddInsert(k, v)

(***************************************************************************)
(* commonGet: a miss on an empty list or an unknown key, otherwise the     *)
(* value; unless it only peeks, the element moves before the front.        *)
(***************************************************************************)
commonGet(op, k, peek) ==
    /\ \/ /\ Len(l) = 0 \/ k \notin m
          /\ ret' = Nothing(op)
          /\ UNCHANGED l
       \/ /\ Len(l) # 0 /\ k \in m
          /\ ret' = Returned(op, k, l[Pos(k)].value, TRUE)
          /\ l' = IF peek THEN l ELSE ToFront(l, Pos(k))
    /\ UNCHANGED m

Get(k) == commonGet("Get", k, FALSE)
Contains(k) == commonGet("Contains", k, FALSE)
Peek(k) == commonGet("Peek", k, TRUE)

Remove(k) ==
    \/ /\ Len(l) = 0 \/ k \notin m
       /\ ret' = Nothing("Remove")
       /\ UNCHANGED <<l, m>>
    \/ /\ Len(l) # 0 /\ k \in m
       /\ l' = DropAt(l, Pos(k))
       /\ m' = m \ {k}
       /\ ret' = Returned("Remove", k, None, TRUE)

RemoveOldest ==
    \/ /\ Len(l) = 0
       /\ ret' = Nothing("RemoveOldest")
       /\ UNCHANGED <<l, m>>
    \/ /\ Len(l) # 0
       /\ m' = m \ {Oldest.key}
       /\ l' = DropAt(l, Len(l))
       /\ ret' = Returned("RemoveOldest", Oldest.key, Oldest.value, TRUE)

GetOldest ==
    /\ ret' = IF Len(l) = 0
              THEN Nothing("GetOldest")
              ELSE Returned("GetOldest", Oldest.key, Oldest.value, TRUE)
    /\ UNCHANGED <<l, m>>

Purge ==
    /\ l' = <<>>
    /\ m' = {}
    /\ ret' = Nothing("Purge")

Next ==
    \/ \E k \in Key, v \in Value : Add(k, v)
    \/ \E k \in Key : Get(k) \/ Contains(k) \/ Peek(k) \/ Remove(k)
    \/ RemoveOldest
    \/ GetOldest
    \/ Purge

Spec == Init /\ [][Next]_vars

-----------------------------------------------------------------------------

(***************************************************************************)
(* The map and the list never disagree: a key has an entry in lru.m        *)
(* exactly when one node carries it, and no two nodes do.  Add, Remove and *)
(* RemoveOldest each update both by hand.                                  *)
(***************************************************************************)
MapListAgree ==
    /\ m = {l[i].key : i \in 1..Len(l)}
    /\ \A i, j \in 1..Len(l) : l[i].key = l[j].key => i = j

(***************************************************************************)
(* The list never outgrows its capacity, although Add tests Len for        *)
(* equality with the capacity and not for reaching it.                     *)
(***************************************************************************)
WithinCapacity == Len(l) <= capacity

(* The value held for each key, and which key is before which. *)
Store == [k \in Key |-> IF k \in m THEN l[Pos(k)].value ELSE None]
Newer == {<<l[p[1]].key, l[p[2]].key>> :
            p \in {q \in (1..Len(l)) \X (1..Len(l)) : q[1] < q[2]}}

(***************************************************************************)
(* What the cache promises: the value last added for a key, and eviction   *)
(* of the key whose last use is the oldest.                                *)
(***************************************************************************)
Promise == INSTANCE AbstractLRU WITH store <- Store, newer <- Newer

KeepsPromise == Promise!Spec

(***************************************************************************)
(* What the LRUCache interface says of Contains: it looks a key up         *)
(* "without updating the recent-ness", so the order in which keys will be  *)
(* evicted is the same before and after it.  It does not hold: Contains    *)
(* goes through Get.                                                       *)
(***************************************************************************)
ContainsKeepsOrder == [][ret'.op = "Contains" => Newer' = Newer]_vars

=============================================================================
