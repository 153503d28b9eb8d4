----------------------------- MODULE LRUProofs -----------------------------
(***************************************************************************)
(* The LRU cache for every key set, value set and capacity: its map and    *)
(* its list agree, the list stays within the capacity, and together they   *)
(* implement AbstractLRU.                                                  *)
(***************************************************************************)
EXTENDS LRU, RecencyListProofs, FiniteSetTheorems

(* The keys of a list of nodes, in its order. *)
KeySeq(s) == [i \in 1..Len(s) |-> s[i].key]

(* The invariant in terms of the sequence of keys; it is inductive. *)
IInv ==
    /\ TypeOK
    /\ m = Elements(KeySeq(l))
    /\ Distinct(KeySeq(l))
    /\ WithinCapacity

(* Taking the keys commutes with the list operations. *)
LEMMA KeySeqType ==
    ASSUME NEW s \in Seq(Node)
    PROVE  /\ KeySeq(s) \in Seq(Key)
           /\ Len(KeySeq(s)) = Len(s)
           /\ \A i \in 1..Len(s) : KeySeq(s)[i] = s[i].key
<1>1. Len(s) \in Nat
  BY LenProperties
<1>2. ASSUME NEW i \in 1..Len(s)  PROVE s[i].key \in Key
  <2>1. s[i] \in Node
    BY ElementOfSeq
  <2> QED  BY <2>1 DEF Node
<1>3. KeySeq(s) \in [1..Len(s) -> Key]
  BY <1>2 DEF KeySeq
<1>4. KeySeq(s) \in Seq(Key)
  BY <1>1, <1>3
<1>5. Len(KeySeq(s)) = Len(s)
  BY <1>1, <1>4 DEF KeySeq
<1> QED  BY <1>4, <1>5 DEF KeySeq

(* list.Remove commutes with taking the keys of the nodes. *)
LEMMA KeySeqDropAt ==
    ASSUME NEW s \in Seq(Node), NEW i \in 1..Len(s)
    PROVE  KeySeq(DropAt(s, i)) = DropAt(KeySeq(s), i)
<1> DEFINE a == KeySeq(DropAt(s, i))
           k == KeySeq(s)
           b == DropAt(k, i)
           d == DropAt(s, i)
<1>1. /\ k \in Seq(Key) /\ Len(k) = Len(s)
      /\ \A j \in 1..Len(s) : k[j] = s[j].key
  BY KeySeqType
<1>2. /\ d \in Seq(Node) /\ Len(d) = Len(s) - 1
      /\ \A j \in 1..(Len(s) - 1) : d[j] = IF j < i THEN s[j] ELSE s[j + 1]
  BY DropAtIndexed
<1>3. /\ a \in Seq(Key) /\ Len(a) = Len(d)
      /\ \A j \in 1..Len(d) : a[j] = d[j].key
  BY <1>2, KeySeqType
<1> HIDE DEF k
<1>4. /\ b \in Seq(Key) /\ Len(b) = Len(s) - 1
      /\ \A j \in 1..(Len(s) - 1) : b[j] = IF j < i THEN k[j] ELSE k[j + 1]
  BY <1>1, DropAtIndexed
<1> HIDE DEF a, b, d
<1>5. Len(s) \in Nat
  BY LenProperties
<1>6. ASSUME NEW j \in 1..Len(a)  PROVE a[j] = b[j]
  <2>1. j \in 1..(Len(s) - 1) /\ j \in 1..Len(s) /\ j + 1 \in 1..Len(s)
    BY <1>2, <1>3, <1>5
  <2> QED  BY <1>1, <1>2, <1>3, <1>4, <2>1
<1>7. a = b
  BY <1>2, <1>3, <1>4, <1>6, SeqEqual
<1> QED  BY <1>7 DEF a, b, k

(* So does list.PushFront. *)
LEMMA KeySeqPushFront ==
    ASSUME NEW s \in Seq(Node), NEW x \in Node
    PROVE  KeySeq(PushFront(s, x)) = PushFront(KeySeq(s), x.key)
<1> DEFINE z == x.key
           k == KeySeq(s)
           d == PushFront(s, x)
           a == KeySeq(d)
           b == PushFront(k, z)
<1>0. z \in Key
  BY DEF Node
<1>1. /\ k \in Seq(Key) /\ Len(k) = Len(s)
      /\ \A j \in 1..Len(s) : k[j] = s[j].key
  BY KeySeqType
<1>2. /\ d \in Seq(Node) /\ Len(d) = Len(s) + 1
      /\ \A j \in 1..(Len(s) + 1) : d[j] = IF j = 1 THEN x ELSE s[j - 1]
  BY PushFrontIndexed
<1> HIDE DEF d
<1>3. /\ a \in Seq(Key) /\ Len(a) = Len(d)
      /\ \A j \in 1..Len(d) : a[j] = d[j].key
  BY <1>2, KeySeqType
<1> HIDE DEF k, z
<1>4. /\ b \in Seq(Key) /\ Len(b) = Len(s) + 1
      /\ \A j \in 1..(Len(s) + 1) : b[j] = IF j = 1 THEN z ELSE k[j - 1]
  <2>1. /\ PushFront(k, z) \in Seq(Key)
        /\ Len(PushFront(k, z)) = Len(k) + 1
        /\ \A j \in 1..(Len(k) + 1) :
             PushFront(k, z)[j] = IF j = 1 THEN z ELSE k[j - 1]
    BY <1>0, <1>1, PushFrontIndexed
  <2> QED  BY <1>1, <2>1
<1> HIDE DEF a, b
<1>5. Len(s) \in Nat
  BY LenProperties
<1>6. ASSUME NEW j \in 1..Len(a)  PROVE a[j] = b[j]
  <2>1. CASE j = 1
    BY <1>2, <1>3, <1>4, <1>5, <2>1 DEF z
  <2>2. CASE j # 1
    <3>1. j \in 1..(Len(s) + 1) /\ j - 1 \in 1..Len(s)
      BY <1>2, <1>3, <1>5, <2>2
    <3>2. a[j] = d[j].key /\ d[j] = s[j - 1]
      BY <1>2, <1>3, <2>2, <3>1
    <3>3. b[j] = k[j - 1] /\ k[j - 1] = s[j - 1].key
      BY <1>1, <1>4, <2>2, <3>1
    <3> QED  BY <3>2, <3>3
  <2> QED  BY <2>1, <2>2
<1>7. a = b
  BY <1>2, <1>3, <1>4, <1>6, SeqEqual
<1> QED  BY <1>7 DEF a, b, k, d, z

(* Removing a node takes exactly its key out of the keys. *)
LEMMA DropNode ==
    ASSUME NEW s \in Seq(Node), Distinct(KeySeq(s)), NEW i \in 1..Len(s)
    PROVE  /\ DropAt(s, i) \in Seq(Node)
           /\ Len(DropAt(s, i)) = Len(s) - 1
           /\ Elements(KeySeq(DropAt(s, i))) = Elements(KeySeq(s)) \ {s[i].key}
           /\ Distinct(KeySeq(DropAt(s, i)))
<1> DEFINE k == KeySeq(s)
<1>1. k \in Seq(Key) /\ i \in 1..Len(k) /\ k[i] = s[i].key /\ Distinct(k)
  BY KeySeqType
<1> HIDE DEF k
<1>2. /\ Elements(DropAt(k, i)) = Elements(k) \ {k[i]}
      /\ Distinct(DropAt(k, i))
  BY <1>1, DropAtElements
<1>3. KeySeq(DropAt(s, i)) = DropAt(k, i)
  BY KeySeqDropAt DEF k
<1>4. DropAt(s, i) \in Seq(Node) /\ Len(DropAt(s, i)) = Len(s) - 1
  BY DropAtIndexed
<1> QED  BY <1>1, <1>2, <1>3, <1>4 DEF k

(* Pushing a node with a new key adds exactly its key. *)
LEMMA PushNode ==
    ASSUME NEW s \in Seq(Node), Distinct(KeySeq(s)), NEW x \in Node,
           x.key \notin Elements(KeySeq(s))
    PROVE  /\ PushFront(s, x) \in Seq(Node)
           /\ Len(PushFront(s, x)) = Len(s) + 1
           /\ Elements(KeySeq(PushFront(s, x))) = Elements(KeySeq(s)) \cup {x.key}
           /\ Distinct(KeySeq(PushFront(s, x)))
<1> DEFINE k == KeySeq(s)
           z == x.key
<1>1. k \in Seq(Key) /\ Distinct(k) /\ z \in Key /\ z \notin Elements(k)
  BY KeySeqType DEF Node
<1>2. KeySeq(PushFront(s, x)) = PushFront(k, z)
  BY KeySeqPushFront
<1>3. PushFront(s, x) \in Seq(Node) /\ Len(PushFront(s, x)) = Len(s) + 1
  BY PushFrontIndexed
<1> HIDE DEF k, z
<1>4. /\ Elements(PushFront(k, z)) = Elements(k) \cup {z}
      /\ Distinct(PushFront(k, z))
  BY <1>1, PushFrontElements
<1> QED  BY <1>2, <1>3, <1>4 DEF k, z

(* A key of the map points to a node that carries it. *)
LEMMA PosOfKey ==
    ASSUME IInv, NEW k \in m
    PROVE  Pos(k) \in 1..Len(l) /\ l[Pos(k)].key = k /\ k \in Key
<1>1. l \in Seq(Node) /\ m \in SUBSET Key
  BY DEF IInv, TypeOK
<1>2. \E i \in 1..Len(l) : l[i].key = k
  <2>1. k \in Elements(KeySeq(l))
    BY DEF IInv
  <2>2. PICK i \in 1..Len(KeySeq(l)) : KeySeq(l)[i] = k
    BY <2>1 DEF Elements
  <2> QED  BY <1>1, <2>2, KeySeqType
<1> QED  BY <1>1, <1>2 DEF Pos

(* The last node of a non-empty list, and its key. *)
LEMMA OldestNode ==
    ASSUME IInv, Len(l) # 0
    PROVE  /\ Len(l) \in 1..Len(l)
           /\ Oldest \in Node
           /\ Oldest.key \in Key
           /\ Oldest.value \in Value
<1>1. l \in Seq(Node) /\ Len(l) \in Nat
  BY LenProperties DEF IInv, TypeOK
<1>2. Len(l) \in 1..Len(l)
  BY <1>1
<1>3. Oldest \in Node
  BY <1>1, <1>2, ElementOfSeq DEF Oldest
<1> QED  BY <1>2, <1>3 DEF Node

(* Moving a key's node to the front, with the same or with a new value. *)
LEMMA RefreshNode ==
    ASSUME IInv, NEW i \in 1..Len(l), NEW x \in Node, x.key = l[i].key
    PROVE  /\ PushFront(DropAt(l, i), x) \in Seq(Node)
           /\ Len(PushFront(DropAt(l, i), x)) = Len(l)
           /\ Elements(KeySeq(PushFront(DropAt(l, i), x))) = m
           /\ Distinct(KeySeq(PushFront(DropAt(l, i), x)))
<1> DEFINE d == DropAt(l, i)
<1>1. l \in Seq(Node) /\ Len(l) \in Nat /\ Distinct(KeySeq(l))
      /\ m = Elements(KeySeq(l))
  BY LenProperties DEF IInv, TypeOK
<1>2. /\ d \in Seq(Node) /\ Len(d) = Len(l) - 1
      /\ Elements(KeySeq(d)) = m \ {x.key} /\ Distinct(KeySeq(d))
  BY <1>1, DropNode
<1>3. x.key \in m
  <2>1. i \in 1..Len(KeySeq(l)) /\ KeySeq(l)[i] = x.key
    BY <1>1, KeySeqType
  <2> QED  BY <1>1, <2>1 DEF Elements
<1> HIDE DEF d
<1>4. /\ PushFront(d, x) \in Seq(Node) /\ Len(PushFront(d, x)) = Len(d) + 1
      /\ Elements(KeySeq(PushFront(d, x))) = Elements(KeySeq(d)) \cup {x.key}
      /\ Distinct(KeySeq(PushFront(d, x)))
  BY <1>2, PushNode
<1> QED  BY <1>1, <1>2, <1>3, <1>4 DEF d

(* Every result an operation builds is a Result. *)
LEMMA ReturnedType ==
    ASSUME NEW op \in Op, NEW k \in Key \cup {None},
           NEW v \in Value \cup {None},
           NEW ok \in BOOLEAN
    PROVE  Returned(op, k, v, ok) \in Result /\ Nothing(op) \in Result
BY DEF Returned, Nothing, Result

-----------------------------------------------------------------------------

(* lru.Add, its three cases: update, evict and insert. *)
LEMMA AddKeepsIInv ==
    ASSUME IInv, NEW k \in Key, NEW v \in Value, Add(k, v)
    PROVE  IInv'
<1> DEFINE x == [key |-> k, value |-> v]
<1>1. x \in Node /\ x.key = k
  BY DEF Node
<1>2. /\ l \in Seq(Node) /\ m \in SUBSET Key /\ Len(l) \in Nat
      /\ Len(l) <= capacity
      /\ m = Elements(KeySeq(l)) /\ Distinct(KeySeq(l))
      /\ capacity \in Nat \ {0}
  BY LenProperties, CapacityAssumption DEF IInv, TypeOK, WithinCapacity
<1> HIDE DEF x
<1>3. "Add" \in Op
  BY DEF Op
<1>4. CASE AddUpdate(k, v)
  <2>1. /\ k \in m /\ m' = m /\ l' = PushFront(DropAt(l, Pos(k)), x)
        /\ ret' = Returned("Add", k, None, FALSE)
    BY <1>4 DEF AddUpdate, x
  <2>2. Pos(k) \in 1..Len(l) /\ l[Pos(k)].key = k
    BY <2>1, PosOfKey
  <2>3. /\ l' \in Seq(Node) /\ Len(l') = Len(l)
        /\ Elements(KeySeq(l')) = m /\ Distinct(KeySeq(l'))
    BY <1>1, <2>1, <2>2, RefreshNode
  <2>4. ret' \in Result
    BY <1>3, <2>1, ReturnedType
  <2> QED  BY <1>2, <2>1, <2>3, <2>4 DEF IInv, TypeOK, WithinCapacity
<1>5. CASE AddEvict(k, v)
  <2> DEFINE d == DropAt(l, Len(l))
  <2>1. /\ k \notin m /\ Len(l) = capacity /\ l' = PushFront(d, x)
        /\ m' = (m \ {Oldest.key}) \cup {k}
        /\ ret' = Returned("Add", k, Oldest.value, TRUE)
    BY <1>5 DEF AddEvict, x
  <2>2. /\ Len(l) \in 1..Len(l) /\ Oldest.key \in Key /\ Oldest.value \in Value
    BY <1>2, <2>1, OldestNode
  <2>3. /\ d \in Seq(Node) /\ Len(d) = Len(l) - 1
        /\ Elements(KeySeq(d)) = m \ {Oldest.key} /\ Distinct(KeySeq(d))
    BY <1>2, <2>2, DropNode DEF Oldest
  <2> HIDE DEF d
  <2>4. /\ l' \in Seq(Node) /\ Len(l') = Len(d) + 1
        /\ Elements(KeySeq(l')) = Elements(KeySeq(d)) \cup {k}
        /\ Distinct(KeySeq(l'))
    BY <1>1, <2>1, <2>3, PushNode
  <2>5. ret' \in Result
    BY <1>3, <2>1, <2>2, ReturnedType
  <2>6. Len(l') <= capacity /\ m' = Elements(KeySeq(l')) /\ m' \in SUBSET Key
    BY <1>2, <2>1, <2>3, <2>4
  <2> QED  BY <2>4, <2>5, <2>6 DEF IInv, TypeOK, WithinCapacity
<1>6. CASE AddInsert(k, v)
  <2>1. /\ k \notin m /\ Len(l) # capacity /\ l' = PushFront(l, x)
        /\ m' = m \cup {k} /\ ret' = Returned("Add", k, None, FALSE)
    BY <1>6 DEF AddInsert, x
  <2>2. /\ l' \in Seq(Node) /\ Len(l') = Len(l) + 1
        /\ Elements(KeySeq(l')) = m \cup {k} /\ Distinct(KeySeq(l'))
    BY <1>1, <1>2, <2>1, PushNode
  <2>3. ret' \in Result
    BY <1>3, <2>1, ReturnedType
  <2>4. Len(l') <= capacity /\ m' \in SUBSET Key
    BY <1>2, <2>1, <2>2
  <2> QED  BY <2>1, <2>2, <2>3, <2>4 DEF IInv, TypeOK, WithinCapacity
<1> QED  BY <1>4, <1>5, <1>6 DEF Add

(* commonGet, behind Get, Contains and Peek: a reordering at most. *)
LEMMA commonGetKeepsIInv ==
    ASSUME IInv, NEW k \in Key, NEW op \in Op, NEW peek \in BOOLEAN,
           commonGet(op, k, peek)
    PROVE  IInv'
<1>1. /\ l \in Seq(Node) /\ m \in SUBSET Key /\ Len(l) \in Nat
      /\ Len(l) <= capacity
      /\ m = Elements(KeySeq(l)) /\ Distinct(KeySeq(l)) /\ m' = m
  BY LenProperties DEF IInv, TypeOK, WithinCapacity, commonGet
<1>2. CASE ret' = Nothing(op) /\ UNCHANGED l
  <2>1. ret' \in Result
    BY <1>2, ReturnedType
  <2> QED  BY <1>1, <1>2, <2>1 DEF IInv, TypeOK, WithinCapacity
<1>3. CASE /\ k \in m
           /\ ret' = Returned(op, k, l[Pos(k)].value, TRUE)
           /\ l' = IF peek THEN l ELSE ToFront(l, Pos(k))
  <2>1. Pos(k) \in 1..Len(l) /\ l[Pos(k)] \in Node
    BY <1>1, <1>3, PosOfKey, ElementOfSeq
  <2>2. l[Pos(k)].value \in Value
    BY <2>1 DEF Node
  <2>3. ret' \in Result
    BY <1>3, <2>2, ReturnedType
  <2>4. CASE peek
    BY <1>1, <1>3, <2>3, <2>4 DEF IInv, TypeOK, WithinCapacity
  <2>5. CASE ~peek
    <3>1. l' = PushFront(DropAt(l, Pos(k)), l[Pos(k)])
      BY <1>3, <2>5 DEF ToFront
    <3>2. /\ l' \in Seq(Node) /\ Len(l') = Len(l)
          /\ Elements(KeySeq(l')) = m /\ Distinct(KeySeq(l'))
      BY <2>1, <3>1, RefreshNode
    <3> QED  BY <1>1, <2>3, <3>2 DEF IInv, TypeOK, WithinCapacity
  <2> QED  BY <2>4, <2>5
<1> QED  BY <1>2, <1>3 DEF commonGet

(* Both removals take out one node and its key. *)
LEMMA DropKeepsIInv ==
    ASSUME IInv, NEW i \in 1..Len(l), l' = DropAt(l, i), m' = m \ {l[i].key},
           ret' \in Result
    PROVE  IInv'
<1>1. /\ l \in Seq(Node) /\ m \in SUBSET Key /\ Len(l) \in Nat
      /\ Len(l) <= capacity
      /\ m = Elements(KeySeq(l)) /\ Distinct(KeySeq(l))
      /\ capacity \in Nat \ {0}
  BY LenProperties, CapacityAssumption DEF IInv, TypeOK, WithinCapacity
<1>2. /\ l' \in Seq(Node) /\ Len(l') = Len(l) - 1
      /\ Elements(KeySeq(l')) = m \ {l[i].key} /\ Distinct(KeySeq(l'))
  BY <1>1, DropNode
<1>3. Len(l') <= capacity /\ m' \in SUBSET Key
  BY <1>1, <1>2
<1> QED  BY <1>2, <1>3 DEF IInv, TypeOK, WithinCapacity

(* The empty cache of NewLRU and of Purge satisfies the invariant. *)
LEMMA EmptyIsIInv ==
    ASSUME l' = <<>>, m' = {}, ret' \in Result
    PROVE  IInv'
<1>1. l' \in Seq(Node) /\ Len(l') = 0
  BY EmptySeq
<1>2. /\ KeySeq(l') \in Seq(Key) /\ Len(KeySeq(l')) = 0
  BY <1>1, KeySeqType
<1>3. Elements(KeySeq(l')) = {} /\ Distinct(KeySeq(l'))
  BY <1>2 DEF Elements, Distinct
<1> QED  BY <1>1, <1>3, CapacityAssumption DEF IInv, TypeOK, WithinCapacity

(* Every operation of package lru keeps the invariant. *)
LEMMA NextKeepsIInv ==
    ASSUME IInv, Next
    PROVE  IInv'
<1>0. /\ "Get" \in Op /\ "Contains" \in Op /\ "Peek" \in Op /\ "Remove" \in Op
      /\ "RemoveOldest" \in Op /\ "GetOldest" \in Op /\ "Purge" \in Op
  BY DEF Op
<1>1. ASSUME NEW k \in Key, NEW v \in Value, Add(k, v)  PROVE IInv'
  BY <1>1, AddKeepsIInv
<1>2. ASSUME NEW k \in Key, Get(k) \/ Contains(k) \/ Peek(k)  PROVE IInv'
  BY <1>0, <1>2, commonGetKeepsIInv DEF Get, Contains, Peek
<1>3. ASSUME NEW k \in Key, Remove(k)  PROVE IInv'
  <2>1. CASE ret' = Nothing("Remove") /\ UNCHANGED <<l, m>>
    <3>1. ret' \in Result
      BY <1>0, <2>1, ReturnedType
    <3> QED  BY <2>1, <3>1 DEF IInv, TypeOK, WithinCapacity
  <2>2. CASE /\ k \in m /\ l' = DropAt(l, Pos(k)) /\ m' = m \ {k}
             /\ ret' = Returned("Remove", k, None, TRUE)
    <3>1. ret' \in Result
      BY <1>0, <2>2, ReturnedType
    <3> QED  BY <2>2, <3>1, PosOfKey, DropKeepsIInv
  <2> QED  BY <1>3, <2>1, <2>2 DEF Remove
<1>4. CASE RemoveOldest
  <2>1. CASE ret' = Nothing("RemoveOldest") /\ UNCHANGED <<l, m>>
    <3>1. ret' \in Result
      BY <1>0, <2>1, ReturnedType
    <3> QED  BY <2>1, <3>1 DEF IInv, TypeOK, WithinCapacity
  <2>2. CASE /\ Len(l) # 0 /\ l' = DropAt(l, Len(l)) /\ m' = m \ {Oldest.key}
             /\ ret' = Returned("RemoveOldest", Oldest.key, Oldest.value, TRUE)
    <3>1. /\ Len(l) \in 1..Len(l) /\ Oldest.key \in Key
          /\ Oldest.value \in Value
      BY <2>2, OldestNode
    <3>2. ret' \in Result
      BY <1>0, <2>2, <3>1, ReturnedType
    <3> QED  BY <2>2, <3>1, <3>2, DropKeepsIInv DEF Oldest
  <2> QED  BY <1>4, <2>1, <2>2 DEF RemoveOldest
<1>5. CASE GetOldest
  <2>1. ret' \in Result
    <3>1. CASE Len(l) = 0
      BY <1>0, <1>5, <3>1, ReturnedType DEF GetOldest
    <3>2. CASE Len(l) # 0
      <4>1. Oldest.key \in Key /\ Oldest.value \in Value
        BY <3>2, OldestNode
      <4> QED  BY <1>0, <1>5, <3>2, <4>1, ReturnedType DEF GetOldest
    <3> QED  BY <3>1, <3>2
  <2> QED  BY <1>5, <2>1 DEF GetOldest, IInv, TypeOK, WithinCapacity
<1>6. CASE Purge
  BY <1>0, <1>6, ReturnedType, EmptyIsIInv DEF Purge
<1> QED  BY <1>1, <1>2, <1>3, <1>4, <1>5, <1>6 DEF Next

(* The invariant in LRU's own terms. *)
LEMMA IInvImplies ==
    ASSUME IInv
    PROVE  TypeOK /\ MapListAgree /\ WithinCapacity
<1>1. /\ l \in Seq(Node) /\ m = Elements(KeySeq(l)) /\ Distinct(KeySeq(l))
  BY DEF IInv, TypeOK
<1>2. Len(KeySeq(l)) = Len(l) /\ \A i \in 1..Len(l) : KeySeq(l)[i] = l[i].key
  BY <1>1, KeySeqType
<1>3. m = {l[i].key : i \in 1..Len(l)}
  BY <1>1, <1>2 DEF Elements
<1>4. \A i, j \in 1..Len(l) : l[i].key = l[j].key => i = j
  BY <1>1, <1>2 DEF Distinct
<1> QED  BY <1>3, <1>4 DEF MapListAgree, IInv

(* After any sequence of calls. *)
LEMMA IInvHolds == Spec => []IInv
<1>1. Init => IInv
  <2> SUFFICES ASSUME Init PROVE IInv
    OBVIOUS
  <2>1. l = <<>> /\ m = {} /\ ret \in Result
    BY ReturnedType DEF Init, Nothing, Op, Returned, Result
  <2>2. l \in Seq(Node) /\ Len(l) = 0
    BY <2>1, EmptySeq
  <2>3. KeySeq(l) \in Seq(Key) /\ Len(KeySeq(l)) = 0
    BY <2>2, KeySeqType
  <2>4. Elements(KeySeq(l)) = {} /\ Distinct(KeySeq(l))
    BY <2>3 DEF Elements, Distinct
  <2> QED
    BY <2>1, <2>2, <2>4, CapacityAssumption DEF IInv, TypeOK, WithinCapacity
<1>2. IInv /\ [Next]_vars => IInv'
  <2>1. ASSUME IInv, UNCHANGED vars  PROVE IInv'
    BY <2>1 DEF IInv, TypeOK, WithinCapacity, vars
  <2> QED  BY <2>1, NextKeepsIInv
<1> QED  BY <1>1, <1>2, PTL DEF Spec

(***************************************************************************)
(* After any sequence of calls lru.m and lru.l hold the same keys, each    *)
(* once, and there are at most capacity of them.                           *)
(***************************************************************************)
THEOREM CacheConsistent == Spec => [](TypeOK /\ MapListAgree /\ WithinCapacity)
<1>1. IInv => TypeOK /\ MapListAgree /\ WithinCapacity
  BY IInvImplies
<1> QED  BY <1>1, IInvHolds, PTL

-----------------------------------------------------------------------------
(* The list as AbstractLRU sees it. *)

(* The keys of a list of nodes, their values, and which is before which. *)
KeysIn(s) == Elements(KeySeq(s))
At(s, k) == CHOOSE i \in 1..Len(s) : s[i].key = k
StoreFor(s) ==
    [k \in Key |-> IF k \in KeysIn(s) THEN s[At(s, k)].value ELSE None]
NewerIn(s) == {<<s[p[1]].key, s[p[2]].key>> :
                 p \in {q \in (1..Len(s)) \X (1..Len(s)) : q[1] < q[2]}}

LEMMA KeysInIndexed ==
    ASSUME NEW s \in Seq(Node)
    PROVE  /\ Len(s) \in Nat
           /\ \A i \in 1..Len(s) : s[i] \in Node /\ s[i].key \in KeysIn(s)
           /\ \A k \in KeysIn(s) :
                k \in Key /\ \E i \in 1..Len(s) : s[i].key = k
<1>1. /\ KeySeq(s) \in Seq(Key) /\ Len(KeySeq(s)) = Len(s)
      /\ \A i \in 1..Len(s) : KeySeq(s)[i] = s[i].key
  BY KeySeqType
<1>2. /\ Len(s) \in Nat
      /\ \A i \in 1..Len(s) : s[i] \in Node /\ KeySeq(s)[i] \in Key
  BY <1>1, LenProperties, ElementOfSeq
<1> QED  BY <1>1, <1>2 DEF KeysIn, Elements

(* The pairs of NewerIn, by positions. *)
LEMMA NewerIndexed ==
    ASSUME NEW s \in Seq(Node)
    PROVE  /\ NewerIn(s) \subseteq KeysIn(s) \X KeysIn(s)
           /\ \A a, b : <<a, b>> \in NewerIn(s) <=>
                \E i, j \in 1..Len(s) : i < j /\ s[i].key = a /\ s[j].key = b
<1> DEFINE I == {q \in (1..Len(s)) \X (1..Len(s)) : q[1] < q[2]}
<1>1. \A p \in I : /\ p[1] \in 1..Len(s) /\ p[2] \in 1..Len(s) /\ p[1] < p[2]
  OBVIOUS
<1>2. \A i, j \in 1..Len(s) : i < j => /\ <<i, j>> \in I
                                       /\ <<i, j>>[1] = i /\ <<i, j>>[2] = j
  OBVIOUS
<1>3. NewerIn(s) = {<<s[p[1]].key, s[p[2]].key>> : p \in I}
  BY DEF NewerIn
<1> HIDE DEF I
<1>4. NewerIn(s) \subseteq KeysIn(s) \X KeysIn(s)
  BY <1>1, <1>3, KeysInIndexed
<1>5. ASSUME NEW a, NEW b, <<a, b>> \in NewerIn(s)
      PROVE  \E i, j \in 1..Len(s) : i < j /\ s[i].key = a /\ s[j].key = b
  <2>1. PICK p \in I : <<a, b>> = <<s[p[1]].key, s[p[2]].key>>
    BY <1>3, <1>5
  <2> QED  BY <1>1, <2>1
<1>6. ASSUME NEW a, NEW b, NEW i \in 1..Len(s), NEW j \in 1..Len(s),
             i < j, s[i].key = a, s[j].key = b
      PROVE  <<a, b>> \in NewerIn(s)
  BY <1>2, <1>3, <1>6
<1> QED  BY <1>4, <1>5, <1>6

(* With distinct keys every node's value is found under its key. *)
LEMMA StoreIndexed ==
    ASSUME NEW s \in Seq(Node), Distinct(KeySeq(s))
    PROVE  /\ StoreFor(s) \in [Key -> Value \cup {None}]
           /\ \A i \in 1..Len(s) : StoreFor(s)[s[i].key] = s[i].value
           /\ \A k \in Key : StoreFor(s)[k] # None <=> k \in KeysIn(s)
<1>1. \A i, j \in 1..Len(s) : s[i].key = s[j].key => i = j
  BY KeySeqType DEF Distinct
<1>2. \A k \in KeysIn(s) : At(s, k) \in 1..Len(s) /\ s[At(s, k)].key = k
  BY KeysInIndexed DEF At
<1>3. \A i \in 1..Len(s) : /\ s[i].key \in Key /\ s[i].key \in KeysIn(s)
                           /\ s[i].value \in Value
  BY KeysInIndexed DEF Node
<1>4. \A i \in 1..Len(s) : At(s, s[i].key) = i
  BY <1>1, <1>2, <1>3
<1>5. \A k \in KeysIn(s) : s[At(s, k)].value \in Value
  BY <1>2, <1>3
<1> QED  BY <1>2, <1>3, <1>4, <1>5, NoneAssumption DEF StoreFor

(* Two caches with the same keys and the same values are the same. *)
LEMMA SameStore ==
    ASSUME NEW f \in [Key -> Value \cup {None}],
           NEW g \in [Key -> Value \cup {None}],
           \A k \in Key : f[k] = g[k]
    PROVE  f = g
OBVIOUS

(* list.Remove forgets one key, its value and its place in the order. *)
LEMMA DropPromised ==
    ASSUME NEW s \in Seq(Node), Distinct(KeySeq(s)), NEW i \in 1..Len(s)
    PROVE  LET d == DropAt(s, i)
               k == s[i].key
               R == KeysIn(s) \ {k}
           IN  /\ KeysIn(d) = R
               /\ StoreFor(d) = [StoreFor(s) EXCEPT ![k] = None]
               /\ NewerIn(d) = NewerIn(s) \cap (R \X R)
<1> DEFINE d == DropAt(s, i)
           k == s[i].key
           R == KeysIn(s) \ {k}
<1>1. /\ d \in Seq(Node) /\ Len(d) = Len(s) - 1
      /\ KeysIn(d) = R /\ Distinct(KeySeq(d))
  BY DropNode DEF KeysIn
<1>2. \A j \in 1..(Len(s) - 1) : d[j] = IF j < i THEN s[j] ELSE s[j + 1]
  BY DropAtIndexed
<1>3. /\ Len(s) \in Nat
      /\ \A j \in 1..Len(s) : s[j].key \in KeysIn(s)
      /\ KeysIn(s) \subseteq Key
      /\ \A y \in KeysIn(s) : \E j \in 1..Len(s) : s[j].key = y
  BY KeysInIndexed
<1>4. \A a, b \in 1..Len(s) : s[a].key = s[b].key => a = b
  BY KeySeqType DEF Distinct
<1> HIDE DEF d
(* Where the nodes of d were in s. *)
<1> DEFINE old(j) == IF j < i THEN j ELSE j + 1
           new(j) == IF j < i THEN j ELSE j - 1
<1>5. \A j \in 1..Len(d) : /\ old(j) \in 1..Len(s) /\ old(j) # i
                           /\ d[j] = s[old(j)]
  BY <1>1, <1>2, <1>3
<1>6. \A j \in 1..Len(s) : j # i => /\ new(j) \in 1..Len(d) /\ old(new(j)) = j
                                    /\ d[new(j)] = s[j]
  BY <1>1, <1>2, <1>3
<1>7. /\ \A a, b \in 1..Len(d) : a < b => old(a) < old(b)
      /\ \A a, b \in 1..Len(s) : a < b /\ a # i /\ b # i => new(a) < new(b)
  BY <1>1, <1>3
<1> HIDE DEF old, new
<1>8. StoreFor(d) = [StoreFor(s) EXCEPT ![k] = None]
  <2> DEFINE g == [StoreFor(s) EXCEPT ![k] = None]
  <2>1. /\ StoreFor(s) \in [Key -> Value \cup {None}]
        /\ \A j \in 1..Len(s) : StoreFor(s)[s[j].key] = s[j].value
        /\ \A y \in Key : StoreFor(s)[y] # None <=> y \in KeysIn(s)
    BY StoreIndexed
  <2>2. /\ StoreFor(d) \in [Key -> Value \cup {None}]
        /\ \A j \in 1..Len(d) : StoreFor(d)[d[j].key] = d[j].value
        /\ \A y \in Key : StoreFor(d)[y] # None <=> y \in KeysIn(d)
    BY <1>1, StoreIndexed
  <2>3. g \in [Key -> Value \cup {None}]
    BY <2>1
  <2>4. ASSUME NEW y \in Key PROVE StoreFor(d)[y] = g[y]
    <3>1. CASE y \in R
      <4>1. PICK j \in 1..Len(s) : s[j].key = y
        BY <1>3, <3>1
      <4>2. j # i /\ y # k
        BY <3>1, <4>1
      <4>3. StoreFor(d)[y] = s[j].value
        BY <1>6, <2>2, <4>1, <4>2
      <4>4. g[y] = StoreFor(s)[y]
        BY <2>1, <4>2
      <4> QED  BY <2>1, <4>1, <4>3, <4>4
    <3>2. CASE y \notin R
      <4>1. StoreFor(d)[y] = None
        BY <1>1, <2>2, <3>2
      <4>2. y = k \/ StoreFor(s)[y] = None
        BY <2>1, <3>2
      <4> QED  BY <2>1, <4>1, <4>2
    <3> QED  BY <3>1, <3>2
  <2> HIDE DEF g
  <2>5. StoreFor(d) = g
    BY <2>2, <2>3, <2>4, SameStore
  <2> QED  BY <2>5 DEF g
<1>9. NewerIn(d) = NewerIn(s) \cap (R \X R)
  <2>1. /\ NewerIn(d) \subseteq R \X R
        /\ \A a, b : <<a, b>> \in NewerIn(d) <=>
             \E x, y \in 1..Len(d) : x < y /\ d[x].key = a /\ d[y].key = b
    BY <1>1, NewerIndexed
  <2>2. /\ \A a, b : <<a, b>> \in NewerIn(s) <=>
             \E x, y \in 1..Len(s) : x < y /\ s[x].key = a /\ s[y].key = b
    BY NewerIndexed
  <2>3. ASSUME NEW a \in R, NEW b \in R
        PROVE  <<a, b>> \in NewerIn(d) <=> <<a, b>> \in NewerIn(s)
    <3>1. ASSUME <<a, b>> \in NewerIn(d) PROVE <<a, b>> \in NewerIn(s)
      <4>1. PICK x \in 1..Len(d), y \in 1..Len(d) :
              x < y /\ d[x].key = a /\ d[y].key = b
        BY <2>1, <3>1
      <4>2. /\ old(x) \in 1..Len(s) /\ old(y) \in 1..Len(s) /\ old(x) < old(y)
            /\ s[old(x)].key = a /\ s[old(y)].key = b
        BY <1>5, <1>7, <4>1
      <4> QED  BY <2>2, <4>2
    <3>2. ASSUME <<a, b>> \in NewerIn(s) PROVE <<a, b>> \in NewerIn(d)
      <4>1. PICK x \in 1..Len(s), y \in 1..Len(s) :
              x < y /\ s[x].key = a /\ s[y].key = b
        BY <2>2, <3>2
      <4>2. x # i /\ y # i
        BY <4>1
      <4>3. /\ new(x) \in 1..Len(d) /\ new(y) \in 1..Len(d) /\ new(x) < new(y)
            /\ d[new(x)].key = a /\ d[new(y)].key = b
        BY <1>6, <1>7, <4>1, <4>2
      <4> QED  BY <2>1, <4>3
    <3> QED  BY <3>1, <3>2
  <2> HIDE DEF R
  <2>4. NewerIn(d) \subseteq NewerIn(s) \cap (R \X R)
    BY <2>1, <2>3
  <2>5. NewerIn(s) \cap (R \X R) \subseteq NewerIn(d)
    BY <2>3
  <2> QED  BY <2>4, <2>5
<1> QED  BY <1>1, <1>8, <1>9 DEF d

(* list.PushFront of a new key makes it the newest of all. *)
LEMMA PushPromised ==
    ASSUME NEW s \in Seq(Node), Distinct(KeySeq(s)), NEW x \in Node,
           x.key \notin KeysIn(s)
    PROVE  LET d == PushFront(s, x) IN
           /\ KeysIn(d) = KeysIn(s) \cup {x.key}
           /\ StoreFor(d) = [StoreFor(s) EXCEPT ![x.key] = x.value]
           /\ NewerIn(d) = NewerIn(s) \cup ({x.key} \X KeysIn(s))
<1> DEFINE d == PushFront(s, x)
           k == x.key
<1>1. /\ d \in Seq(Node) /\ Len(d) = Len(s) + 1
      /\ KeysIn(d) = KeysIn(s) \cup {k} /\ Distinct(KeySeq(d))
  BY PushNode DEF KeysIn
<1>2. \A j \in 1..(Len(s) + 1) : d[j] = IF j = 1 THEN x ELSE s[j - 1]
  BY PushFrontIndexed
<1>3. /\ Len(s) \in Nat
      /\ \A j \in 1..Len(s) : s[j].key \in KeysIn(s)
      /\ KeysIn(s) \subseteq Key
      /\ \A y \in KeysIn(s) : \E j \in 1..Len(s) : s[j].key = y
      /\ k \in Key /\ x.value \in Value
  BY KeysInIndexed DEF Node
<1> HIDE DEF d
<1>4. \A j \in 1..Len(s) : j + 1 \in 1..Len(d) /\ d[j + 1] = s[j]
  BY <1>1, <1>2, <1>3
<1>5. 1 \in 1..Len(d) /\ d[1] = x
  BY <1>1, <1>2, <1>3
<1>6. \A j \in 1..Len(d) : j # 1 => j - 1 \in 1..Len(s) /\ d[j] = s[j - 1]
  BY <1>1, <1>2, <1>3
<1>7. StoreFor(d) = [StoreFor(s) EXCEPT ![k] = x.value]
  <2> DEFINE g == [StoreFor(s) EXCEPT ![k] = x.value]
  <2>1. /\ StoreFor(s) \in [Key -> Value \cup {None}]
        /\ \A j \in 1..Len(s) : StoreFor(s)[s[j].key] = s[j].value
        /\ \A y \in Key : StoreFor(s)[y] # None <=> y \in KeysIn(s)
    BY StoreIndexed
  <2>2. /\ StoreFor(d) \in [Key -> Value \cup {None}]
        /\ \A j \in 1..Len(d) : StoreFor(d)[d[j].key] = d[j].value
        /\ \A y \in Key : StoreFor(d)[y] # None <=> y \in KeysIn(d)
    BY <1>1, StoreIndexed
  <2>3. g \in [Key -> Value \cup {None}]
    BY <1>3, <2>1
  <2>4. ASSUME NEW y \in Key PROVE StoreFor(d)[y] = g[y]
    <3>1. CASE y = k
      BY <1>5, <2>1, <2>2, <3>1
    <3>2. CASE y \in KeysIn(s)
      <4>1. PICK j \in 1..Len(s) : s[j].key = y
        BY <1>3, <3>2
      <4>2. y # k
        BY <3>2
      <4>3. StoreFor(d)[y] = s[j].value
        BY <1>4, <2>2, <4>1
      <4>4. g[y] = StoreFor(s)[y]
        BY <2>1, <4>2
      <4> QED  BY <2>1, <4>1, <4>3, <4>4
    <3>3. CASE y # k /\ y \notin KeysIn(s)
      <4>1. StoreFor(d)[y] = None /\ StoreFor(s)[y] = None
        BY <1>1, <2>1, <2>2, <3>3
      <4> QED  BY <2>1, <3>3, <4>1
    <3> QED  BY <3>1, <3>2, <3>3
  <2> HIDE DEF g
  <2>5. StoreFor(d) = g
    BY <2>2, <2>3, <2>4, SameStore
  <2> QED  BY <2>5 DEF g
<1>8. NewerIn(d) = NewerIn(s) \cup ({k} \X KeysIn(s))
  <2> DEFINE K == KeysIn(s)
  <2>1. /\ NewerIn(d) \subseteq KeysIn(d) \X KeysIn(d)
        /\ \A a, b : <<a, b>> \in NewerIn(d) <=>
             \E p, q \in 1..Len(d) : p < q /\ d[p].key = a /\ d[q].key = b
    BY <1>1, NewerIndexed
  <2>2. /\ NewerIn(s) \subseteq K \X K
        /\ \A a, b : <<a, b>> \in NewerIn(s) <=>
             \E p, q \in 1..Len(s) : p < q /\ s[p].key = a /\ s[q].key = b
    BY NewerIndexed
  <2>3. ASSUME NEW a, NEW b, <<a, b>> \in NewerIn(d)
        PROVE  <<a, b>> \in NewerIn(s) \cup ({k} \X K)
    <3>1. PICK p \in 1..Len(d), q \in 1..Len(d) :
            p < q /\ d[p].key = a /\ d[q].key = b
      BY <2>1, <2>3
    <3>2. q # 1
      BY <1>1, <1>3, <3>1
    <3>3. CASE p = 1
      <4>1. a = k /\ b \in K
        BY <1>3, <1>5, <1>6, <3>1, <3>2, <3>3
      <4> QED  BY <4>1
    <3>4. CASE p # 1
      <4>1. /\ p - 1 \in 1..Len(s) /\ q - 1 \in 1..Len(s) /\ p - 1 < q - 1
            /\ s[p - 1].key = a /\ s[q - 1].key = b
        BY <1>1, <1>3, <1>6, <3>1, <3>2, <3>4
      <4> QED  BY <2>2, <4>1
    <3> QED  BY <3>3, <3>4
  <2>4. ASSUME NEW a, NEW b, <<a, b>> \in NewerIn(s)
        PROVE  <<a, b>> \in NewerIn(d)
    <3>1. PICK p \in 1..Len(s), q \in 1..Len(s) :
            p < q /\ s[p].key = a /\ s[q].key = b
      BY <2>2, <2>4
    <3>2. /\ p + 1 \in 1..Len(d) /\ d[p + 1].key = a
          /\ q + 1 \in 1..Len(d) /\ d[q + 1].key = b
      BY <1>4, <3>1
    <3>3. p + 1 < q + 1
      BY <1>3, <3>1
    <3> QED  BY <2>1, <3>2, <3>3
  <2>5. ASSUME NEW b \in K PROVE <<k, b>> \in NewerIn(d)
    <3>1. PICK q \in 1..Len(s) : s[q].key = b
      BY <1>3
    <3>2. q + 1 \in 1..Len(d) /\ 1 < q + 1 /\ d[q + 1].key = b
      BY <1>3, <1>4, <3>1
    <3> QED  BY <1>5, <2>1, <3>2
  <2> HIDE DEF K
  <2>6. NewerIn(d) \subseteq NewerIn(s) \cup ({k} \X K)
    BY <2>1, <2>3
  <2>7. NewerIn(s) \subseteq NewerIn(d)
    BY <2>2, <2>4
  <2>8. {k} \X K \subseteq NewerIn(d)
    BY <2>5
  <2> QED  BY <2>6, <2>7, <2>8 DEF K
<1> QED  BY <1>1, <1>7, <1>8 DEF d

-----------------------------------------------------------------------------
(* The refinement, one operation after the other. *)

LEMMA Mapped == IInv => /\ Store = StoreFor(l) /\ Newer = NewerIn(l)
                        /\ Promise!Held = m /\ m = KeysIn(l)
<1> SUFFICES ASSUME IInv PROVE /\ Store = StoreFor(l) /\ Newer = NewerIn(l)
                               /\ Promise!Held = m /\ m = KeysIn(l)
  OBVIOUS
<1>1. m = KeysIn(l) /\ l \in Seq(Node) /\ Distinct(KeySeq(l)) /\ m \subseteq Key
  BY DEF IInv, KeysIn, TypeOK
<1>2. Store = StoreFor(l)
  BY <1>1 DEF Store, StoreFor, Pos, At
<1>3. Newer = NewerIn(l)
  BY DEF Newer, NewerIn
<1>4. \A k \in Key : StoreFor(l)[k] # None <=> k \in m
  BY <1>1, StoreIndexed
<1>5. Promise!Held = m
  BY <1>1, <1>2, <1>4 DEF Promise!Held
<1> QED  BY <1>1, <1>2, <1>3, <1>5

LEMMA MappedNext == IInv' => Store' = StoreFor(l') /\ Newer' = NewerIn(l')
<1> SUFFICES ASSUME IInv' PROVE Store' = StoreFor(l') /\ Newer' = NewerIn(l')
  OBVIOUS
<1>1. m' = KeysIn(l')
  BY DEF IInv, KeysIn
<1>2. Store' = StoreFor(l')
  BY <1>1 DEF Store, StoreFor, Pos, At
<1> QED  BY <1>2 DEF Newer, NewerIn

(* An empty list is a cache without keys. *)
LEMMA EmptyHolds == IInv /\ Len(l) = 0 => m = {}
<1> SUFFICES ASSUME IInv, Len(l) = 0, NEW k \in m PROVE FALSE
  OBVIOUS
<1>1. l \in Seq(Node) /\ k \in KeysIn(l)
  BY Mapped DEF IInv, TypeOK
<1>2. \E i \in 1..Len(l) : l[i].key = k
  BY <1>1, KeysInIndexed
<1> QED  BY <1>2

(* AbstractLRU counts the keys where LRU takes the length of the list. *)
LEMMA SameCardinality == \A S : Promise!Cardinality(S) = Cardinality(S)
BY Zenon DEF Promise!Cardinality, Cardinality

LEMMA HeldCount == IInv => Promise!Cardinality(Promise!Held) = Len(l)
<1> SUFFICES ASSUME IInv PROVE Cardinality(m) = Len(l)
  BY Mapped, SameCardinality
<1> DEFINE f == KeySeq(l)
<1>1. l \in Seq(Node) /\ m = Elements(f) /\ Distinct(f)
  BY DEF IInv, TypeOK
<1>2. f \in Seq(Key) /\ Len(f) = Len(l) /\ Len(l) \in Nat
  BY <1>1, KeySeqType, LenProperties
<1>3. f \in Bijection(1..Len(l), m)
  <2>1. DOMAIN f = 1..Len(l) /\ f \in [1..Len(l) -> m]
    BY <1>1, <1>2 DEF Elements
  <2>2. IsInjective(f)
    BY <1>1, <1>2, <2>1 DEF Distinct, IsInjective
  <2>3. \A t \in m : \E s \in 1..Len(l) : f[s] = t
    BY <1>1, <1>2 DEF Elements
  <2> HIDE DEF f
  <2> QED  BY <2>1, <2>2, <2>3 DEF Bijection, Injection, Surjection
<1> HIDE DEF f
<1>4. IsFiniteSet(1..Len(l)) /\ Cardinality(1..Len(l)) = Len(l)
  <2>1. 1 \in Int /\ Len(l) \in Int
    BY <1>2
  <2>2. /\ IsFiniteSet(1..Len(l))
        /\ Cardinality(1..Len(l)) = IF 1 > Len(l) THEN 0 ELSE Len(l) - 1 + 1
    BY <2>1, FS_Interval
  <2> QED  BY <1>2, <2>2
<1>5. ExistsBijection(1..Len(l), m)
  BY <1>3 DEF ExistsBijection
<1> QED  BY <1>4, <1>5, FS_Bijection

(* The last node carries the key that was used before all others. *)
LEMMA OldestPromised ==
    ASSUME IInv, Len(l) # 0
    PROVE  /\ Promise!IsOldest(Oldest.key) /\ Oldest.key \in m
           /\ Store[Oldest.key] = Oldest.value
<1>1. /\ l \in Seq(Node) /\ Distinct(KeySeq(l))
      /\ m = KeysIn(l) /\ Promise!Held = m /\ Store = StoreFor(l)
      /\ Newer = NewerIn(l)
  BY Mapped DEF IInv, TypeOK
<1>2. Len(l) \in 1..Len(l) /\ Len(l) \in Nat
  BY <1>1, OldestNode, LenProperties
<1>3. Oldest.key \in m
  BY <1>1, <1>2, KeysInIndexed DEF Oldest
<1>4. ASSUME NEW x \in m \ {Oldest.key} PROVE <<x, Oldest.key>> \in Newer
  <2>1. PICK i \in 1..Len(l) : l[i].key = x
    BY <1>1, KeysInIndexed
  <2>2. i < Len(l)
    BY <1>2, <2>1 DEF Oldest
  <2>3. \E a, b \in 1..Len(l) : a < b /\ l[a].key = x /\ l[b].key = Oldest.key
    BY <1>2, <2>1, <2>2 DEF Oldest
  <2> QED  BY <1>1, <2>3, NewerIndexed
<1>5. Store[Oldest.key] = Oldest.value
  BY <1>1, <1>2, StoreIndexed DEF Oldest
<1> QED  BY <1>1, <1>3, <1>4, <1>5 DEF Promise!IsOldest

(* Moving a key's node to the front, with the same or with a new value, is a
   use of the key. *)
LEMMA RefreshPromised ==
    ASSUME IInv, IInv', NEW k \in m, NEW v \in Value,
           l' = PushFront(DropAt(l, Pos(k)), [key |-> k, value |-> v])
    PROVE  /\ Store' = [Store EXCEPT ![k] = v]
           /\ Newer' = Promise!Using(k, Promise!Held)
<1> DEFINE d == DropAt(l, Pos(k))
           x == [key |-> k, value |-> v]
<1>1. /\ l \in Seq(Node) /\ Distinct(KeySeq(l))
      /\ m = KeysIn(l) /\ Promise!Held = m /\ Store = StoreFor(l)
      /\ Newer = NewerIn(l)
  BY Mapped DEF IInv, TypeOK
<1>2. Store' = StoreFor(l') /\ Newer' = NewerIn(l')
  BY MappedNext
<1>3. Pos(k) \in 1..Len(l) /\ l[Pos(k)].key = k /\ k \in Key
  BY PosOfKey
<1>4. /\ KeysIn(d) = m \ {k}
      /\ StoreFor(d) = [Store EXCEPT ![k] = None]
      /\ NewerIn(d) = Newer \cap ((m \ {k}) \X (m \ {k}))
      /\ d \in Seq(Node) /\ Distinct(KeySeq(d))
  BY <1>1, <1>3, DropPromised, DropNode
<1>5. x \in Node /\ x.key = k /\ x.value = v
  BY <1>3 DEF Node
<1> HIDE DEF d, x
<1>6. /\ StoreFor(PushFront(d, x)) = [StoreFor(d) EXCEPT ![k] = v]
      /\ NewerIn(PushFront(d, x)) = NewerIn(d) \cup ({k} \X KeysIn(d))
  BY <1>4, <1>5, PushPromised
<1>7. l' = PushFront(d, x)
  BY DEF d, x
<1>8. Store \in [Key -> Value \cup {None}]
  BY <1>1, StoreIndexed
<1>9. [[Store EXCEPT ![k] = None] EXCEPT ![k] = v] = [Store EXCEPT ![k] = v]
  BY <1>3, <1>8
<1> QED  BY <1>1, <1>2, <1>4, <1>6, <1>7, <1>9 DEF Promise!Using

(* Removing one node drops its key. *)
LEMMA RemovePromised ==
    ASSUME IInv, IInv', NEW i \in 1..Len(l), l' = DropAt(l, i),
           NEW op, NEW v, ret' = Returned(op, l[i].key, v, TRUE)
    PROVE  Promise!Drop(op, l[i].key, v)
<1>1. /\ l \in Seq(Node) /\ Distinct(KeySeq(l))
      /\ m = KeysIn(l) /\ Promise!Held = m /\ Store = StoreFor(l)
      /\ Newer = NewerIn(l) /\ Store' = StoreFor(l') /\ Newer' = NewerIn(l')
  BY Mapped, MappedNext DEF IInv, TypeOK
<1> DEFINE k == l[i].key
<1>2. /\ StoreFor(DropAt(l, i)) = [StoreFor(l) EXCEPT ![k] = None]
      /\ NewerIn(DropAt(l, i))
          = NewerIn(l) \cap ((KeysIn(l) \ {k}) \X (KeysIn(l) \ {k}))
  BY <1>1, DropPromised
<1> HIDE DEF k
<1>3. ret' = Promise!Returned(op, k, v, TRUE)
  BY DEF k, Returned, Promise!Returned
<1>4. Promise!Drop(op, k, v)
  BY <1>1, <1>2, <1>3 DEF Promise!Drop
<1> QED  BY <1>4 DEF k

LEMMA AddPromised ==
    ASSUME IInv, IInv', NEW k \in Key, NEW v \in Value, Add(k, v)
    PROVE  Promise!Add(k, v)
<1> DEFINE x == [key |-> k, value |-> v]
<1>1. /\ l \in Seq(Node) /\ Distinct(KeySeq(l)) /\ Len(l) \in Nat
      /\ m = KeysIn(l) /\ Promise!Held = m /\ Store = StoreFor(l)
      /\ Newer = NewerIn(l) /\ Store' = StoreFor(l') /\ Newer' = NewerIn(l')
      /\ Promise!Cardinality(Promise!Held) = Len(l)
      /\ Len(l) <= capacity /\ capacity \in Nat \ {0}
  BY Mapped, MappedNext, HeldCount, LenProperties, CapacityAssumption
     DEF IInv, TypeOK, WithinCapacity
<1>2. x \in Node /\ x.key = k /\ x.value = v
  BY DEF Node
<1>3. Store \in [Key -> Value \cup {None}] /\ Newer \subseteq m \X m
  BY <1>1, StoreIndexed, NewerIndexed
<1>4. \A y, ok : Returned("Add", k, y, ok) = Promise!Returned("Add", k, y, ok)
  BY DEF Returned, Promise!Returned
<1> HIDE DEF x
<1>5. CASE AddUpdate(k, v)
  <2>1. /\ Store' = [Store EXCEPT ![k] = v]
        /\ Newer' = Promise!Using(k, Promise!Held)
        /\ k \in m
    BY <1>5, RefreshPromised DEF AddUpdate
  <2>2. ret' = Promise!Returned("Add", k, None, FALSE)
    BY <1>4, <1>5 DEF AddUpdate
  <2> QED  BY <1>1, <2>1, <2>2 DEF Promise!Add
<1>6. CASE AddEvict(k, v)
  <2> DEFINE d == DropAt(l, Len(l))
             o == Oldest.key
  <2>1. /\ k \notin m /\ Len(l) = capacity /\ l' = PushFront(d, x)
        /\ ret' = Returned("Add", k, Oldest.value, TRUE)
    BY <1>6 DEF AddEvict, x
  <2>2. Len(l) # 0 /\ Len(l) \in 1..Len(l) /\ o = l[Len(l)].key
    BY <1>1, <2>1 DEF Oldest
  <2>3. /\ Promise!IsOldest(o) /\ o \in m
        /\ Store[o] = Oldest.value
    BY <2>2, OldestPromised
  <2>4. /\ KeysIn(d) = m \ {o}
        /\ StoreFor(d) = [Store EXCEPT ![o] = None]
        /\ NewerIn(d) = Newer \cap ((m \ {o}) \X (m \ {o}))
        /\ d \in Seq(Node) /\ Distinct(KeySeq(d))
    <3>1. /\ KeysIn(d) = KeysIn(l) \ {l[Len(l)].key}
          /\ StoreFor(d) = [StoreFor(l) EXCEPT ![l[Len(l)].key] = None]
          /\ NewerIn(d) = NewerIn(l) \cap ((KeysIn(l) \ {l[Len(l)].key})
                                             \X (KeysIn(l) \ {l[Len(l)].key}))
      BY <1>1, <2>2, DropPromised
    <3>2. d \in Seq(Node) /\ Distinct(KeySeq(d))
      BY <1>1, <2>2, DropNode
    <3> HIDE DEF d, o
    <3> QED  BY <1>1, <2>2, <3>1, <3>2
  <2> HIDE DEF d, o
  <2>5. /\ StoreFor(PushFront(d, x)) = [StoreFor(d) EXCEPT ![k] = v]
        /\ NewerIn(PushFront(d, x)) = NewerIn(d) \cup ({k} \X KeysIn(d))
    BY <1>2, <2>1, <2>4, PushPromised
  <2>6. Newer' = Promise!Using(k, m \ {o})
    <3>1. (m \ {o}) \ {k} = m \ {o}
      BY <2>1
    <3>2. Newer' = (Newer \cap ((m \ {o}) \X (m \ {o}))) \cup ({k} \X (m \ {o}))
      BY <1>1, <2>1, <2>4, <2>5
    <3> QED  BY <3>1, <3>2 DEF Promise!Using
  <2>7. Store' = [Store EXCEPT ![o] = None, ![k] = v]
    BY <1>1, <1>3, <2>1, <2>4, <2>5
  <2>8. ret' = Promise!Returned("Add", k, Store[o], TRUE)
    BY <1>4, <2>1, <2>3
  <2> QED  BY <1>1, <2>1, <2>3, <2>6, <2>7, <2>8 DEF Promise!Add
<1>7. CASE AddInsert(k, v)
  <2>1. /\ k \notin m /\ Len(l) # capacity /\ l' = PushFront(l, x)
        /\ ret' = Returned("Add", k, None, FALSE)
    BY <1>7 DEF AddInsert, x
  <2>2. /\ StoreFor(PushFront(l, x)) = [StoreFor(l) EXCEPT ![k] = v]
        /\ NewerIn(PushFront(l, x)) = NewerIn(l) \cup ({k} \X KeysIn(l))
    BY <1>1, <1>2, <2>1, PushPromised
  <2>3. Newer' = Promise!Using(k, m)
    <3>1. m \ {k} = m
      BY <2>1
    <3>2. Newer \cap (m \X m) = Newer
      BY <1>3
    <3> QED  BY <1>1, <2>1, <2>2, <3>1, <3>2 DEF Promise!Using
  <2>4. Promise!Cardinality(Promise!Held) < capacity
    BY <1>1, <2>1
  <2> QED  BY <1>1, <1>4, <2>1, <2>2, <2>3, <2>4 DEF Promise!Add
<1> QED  BY <1>5, <1>6, <1>7 DEF Add

LEMMA commonGetPromised ==
    ASSUME IInv, IInv', NEW k \in Key, NEW op, NEW peek \in BOOLEAN,
           commonGet(op, k, peek)
    PROVE  Promise!Lookup(op, k, IF peek THEN Newer
                                 ELSE Promise!Using(k, Promise!Held))
<1>1. /\ l \in Seq(Node) /\ Distinct(KeySeq(l)) /\ Len(l) \in Nat
      /\ m = KeysIn(l) /\ Promise!Held = m /\ Store = StoreFor(l)
      /\ Newer = NewerIn(l) /\ Store' = StoreFor(l') /\ Newer' = NewerIn(l')
  BY Mapped, MappedNext, LenProperties DEF IInv, TypeOK
<1>2. CASE (Len(l) = 0 \/ k \notin m) /\ ret' = Nothing(op) /\ UNCHANGED l
  <2>1. k \notin m
    BY <1>2, EmptyHolds
  <2>2. ret' = Promise!Nothing(op)
    BY <1>2 DEF Nothing, Returned, Promise!Nothing, Promise!Returned
  <2> QED  BY <1>1, <1>2, <2>1, <2>2 DEF Promise!Lookup
<1>3. CASE /\ k \in m
           /\ ret' = Returned(op, k, l[Pos(k)].value, TRUE)
           /\ l' = IF peek THEN l ELSE ToFront(l, Pos(k))
  <2> DEFINE v == l[Pos(k)].value
  <2>1. /\ Pos(k) \in 1..Len(l) /\ l[Pos(k)].key = k
        /\ l[Pos(k)] \in Node
    BY <1>1, <1>3, PosOfKey, ElementOfSeq
  <2>2. v \in Value /\ l[Pos(k)] = [key |-> k, value |-> v]
    BY <2>1 DEF Node
  <2>3. Store[k] = v
    BY <1>1, <2>1, StoreIndexed
  <2>4. ret' = Promise!Returned(op, k, Store[k], TRUE)
    BY <1>3, <2>3 DEF Returned, Promise!Returned
  <2>5. CASE peek
    BY <1>1, <1>3, <2>4, <2>5 DEF Promise!Lookup
  <2>6. CASE ~peek
    <3>1. l' = PushFront(DropAt(l, Pos(k)), [key |-> k, value |-> v])
      BY <1>3, <2>2, <2>6 DEF ToFront
    <3> HIDE DEF v
    <3>2. /\ Store' = [Store EXCEPT ![k] = v]
          /\ Newer' = Promise!Using(k, Promise!Held)
      BY <1>3, <2>2, <3>1, RefreshPromised
    <3>3. Store \in [Key -> Value \cup {None}]
      BY <1>1, StoreIndexed
    <3>4. Store' = Store
      BY <2>3, <3>2, <3>3
    <3> QED  BY <1>1, <1>3, <2>4, <2>6, <3>2, <3>4 DEF Promise!Lookup
  <2> QED  BY <2>5, <2>6
<1> QED  BY <1>2, <1>3 DEF commonGet

LEMMA NextPromised ==
    ASSUME IInv, IInv', Next
    PROVE  Promise!Next
<1>1. /\ l \in Seq(Node) /\ Distinct(KeySeq(l)) /\ Len(l) \in Nat
      /\ m = KeysIn(l) /\ Promise!Held = m /\ Store = StoreFor(l)
      /\ Newer = NewerIn(l) /\ Store' = StoreFor(l') /\ Newer' = NewerIn(l')
  BY Mapped, MappedNext, LenProperties DEF IInv, TypeOK
<1>2. Len(l) = 0 => m = {}
  BY EmptyHolds
<1>3. \A op : Nothing(op) = Promise!Nothing(op)
  BY DEF Nothing, Returned, Promise!Nothing, Promise!Returned
<1>4. m \subseteq Key
  BY DEF IInv, TypeOK
<1>5. ASSUME NEW k \in Key, NEW v \in Value, Add(k, v)  PROVE Promise!Next
  BY <1>5, AddPromised DEF Promise!Next
<1>6. ASSUME NEW k \in Key, Get(k)  PROVE Promise!Next
  <2>1. Promise!Lookup("Get", k, Promise!Using(k, Promise!Held))
    BY <1>6, commonGetPromised DEF Get
  <2> QED  BY <2>1 DEF Promise!Next
<1>7. ASSUME NEW k \in Key, Contains(k)  PROVE Promise!Next
  <2>1. \E order \in {Newer, Promise!Using(k, Promise!Held)} :
          Promise!Lookup("Contains", k, order)
    BY <1>7, commonGetPromised DEF Contains
  <2> QED  BY <2>1 DEF Promise!Next
<1>8. ASSUME NEW k \in Key, Peek(k)  PROVE Promise!Next
  <2>1. Promise!Lookup("Peek", k, Newer)
    BY <1>8, commonGetPromised DEF Peek
  <2> QED  BY <2>1 DEF Promise!Next
<1>9. ASSUME NEW k \in Key, Remove(k)  PROVE Promise!Next
  <2>1. CASE /\ Len(l) = 0 \/ k \notin m
             /\ ret' = Nothing("Remove") /\ UNCHANGED <<l, m>>
    <3>1. k \notin Promise!Held
      BY <1>1, <1>2, <2>1
    <3>2. Promise!Nop("Remove")
      BY <1>1, <1>3, <2>1 DEF Promise!Nop
    <3> QED  BY <3>1, <3>2 DEF Promise!Next
  <2>2. CASE /\ k \in m /\ l' = DropAt(l, Pos(k))
             /\ ret' = Returned("Remove", k, None, TRUE)
    <3>1. Pos(k) \in 1..Len(l) /\ l[Pos(k)].key = k
      BY <2>2, PosOfKey
    <3>2. Promise!Drop("Remove", k, None)
      BY <2>2, <3>1, RemovePromised
    <3> QED  BY <1>1, <2>2, <3>2 DEF Promise!Next
  <2> QED  BY <1>9, <2>1, <2>2 DEF Remove
<1>10. CASE RemoveOldest
  <2>1. CASE Len(l) = 0 /\ ret' = Nothing("RemoveOldest") /\ UNCHANGED <<l, m>>
    <3>1. Promise!Held = {} /\ Promise!Nop("RemoveOldest")
      BY <1>1, <1>2, <1>3, <2>1 DEF Promise!Nop
    <3> QED  BY <3>1 DEF Promise!Next
  <2>2. CASE /\ Len(l) # 0 /\ l' = DropAt(l, Len(l))
             /\ ret' = Returned("RemoveOldest", Oldest.key, Oldest.value, TRUE)
    <3>1. /\ Promise!IsOldest(Oldest.key) /\ Oldest.key \in m
          /\ Store[Oldest.key] = Oldest.value /\ Len(l) \in 1..Len(l)
      BY <2>2, OldestPromised, OldestNode
    <3>2. Promise!Drop("RemoveOldest", Oldest.key, Store[Oldest.key])
      BY <2>2, <3>1, RemovePromised DEF Oldest
    <3> QED  BY <1>4, <3>1, <3>2 DEF Promise!Next
  <2> QED  BY <1>10, <2>1, <2>2 DEF RemoveOldest
<1>11. CASE GetOldest
  <2>1. UNCHANGED <<Store, Newer>>
    BY <1>1, <1>11 DEF GetOldest
  <2>2. CASE Len(l) = 0
    <3>1. Promise!Held = {} /\ Promise!Nop("GetOldest")
      BY <1>1, <1>2, <1>3, <1>11, <2>1, <2>2 DEF GetOldest, Promise!Nop
    <3> QED  BY <3>1 DEF Promise!Next
  <2>3. CASE Len(l) # 0
    <3>1. /\ Promise!IsOldest(Oldest.key) /\ Oldest.key \in m
          /\ Store[Oldest.key] = Oldest.value
      BY <2>3, OldestPromised
    <3>2. ret' = Promise!Returned("GetOldest", Oldest.key, Store[Oldest.key], TRUE)
      BY <1>11, <2>3, <3>1 DEF GetOldest, Returned, Promise!Returned
    <3> QED  BY <1>4, <2>1, <3>1, <3>2 DEF Promise!Next
  <2> QED  BY <2>2, <2>3
<1>12. CASE Purge
  <2>1. l' = <<>> /\ m' = {} /\ ret' = Nothing("Purge")
    BY <1>12 DEF Purge
  <2>2. Store' = [k \in Key |-> None]
    BY <2>1 DEF Store
  <2>3. Newer' = {}
    BY <2>1 DEF Newer
  <2> QED  BY <1>3, <2>1, <2>2, <2>3 DEF Promise!Next
<1> QED  BY <1>5, <1>6, <1>7, <1>8, <1>9, <1>10, <1>11, <1>12 DEF Next

(***************************************************************************)
(* Package lru keeps what a least-recently-used cache promises: the list   *)
(* and the map together implement AbstractLRU, where a key has the value   *)
(* last added for it and an eviction takes the key whose use is oldest.    *)
(***************************************************************************)
THEOREM ImplementsPromise == Spec => KeepsPromise
<1>1. Init => Promise!Init
  <2> SUFFICES ASSUME Init PROVE Promise!Init
    OBVIOUS
  <2>1. Store = [k \in Key |-> None]
    BY DEF Init, Store
  <2>2. Newer = {}
    BY DEF Init, Newer
  <2>3. ret = Promise!Nothing("New")
    BY DEF Init, Nothing, Returned, Promise!Nothing, Promise!Returned
  <2> QED  BY <2>1, <2>2, <2>3 DEF Promise!Init
<1>2. IInv /\ IInv' /\ [Next]_vars => [Promise!Next]_Promise!vars
  <2> SUFFICES ASSUME IInv, IInv', [Next]_vars
               PROVE  Promise!Next \/ UNCHANGED Promise!vars
    OBVIOUS
  <2>1. CASE Next
    BY <2>1, NextPromised
  <2>2. CASE UNCHANGED vars
    BY <2>2 DEF vars, Promise!vars, Store, Newer, Pos
  <2> QED  BY <2>1, <2>2
<1>3. Spec => []IInv
  BY IInvHolds
<1> QED  BY <1>1, <1>2, <1>3, PTL DEF Spec, KeepsPromise, Promise!Spec

(* The types of the cache's list, map and results. *)
THEOREM CacheTyped == Spec => []TypeOK
BY CacheConsistent, PTL

=============================================================================
