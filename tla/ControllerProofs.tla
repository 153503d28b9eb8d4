-------------------------- MODULE ControllerProofs --------------------------
(***************************************************************************)
(* The cluster of module Controller, for any number of dashes, search      *)
(* servers, slots, virtual nodes, leases and failures: the election, what  *)
(* AddNode and DelNode do to a ring, and that rings follow the registry.   *)
(***************************************************************************)
EXTENDS Controller, RecencyListProofs, FiniteSetTheorems

(* One step of the cluster keeps the leader or has ended its lease. *)
StableLeader ==
    leader # Nobody => leader' = leader \/ leader.LeaseID \notin live'

(* The elections' own steps: a campaign needs a free key, and a lease that
   ends takes only its own key along. *)
LEMMA ElectionStep == ElectionNext => StableLeader
<1> SUFFICES ASSUME ElectionNext PROVE StableLeader
  OBVIOUS
<1>1. ASSUME NEW d \in Dashes,
             Elect(d) \/ GrantFails(d) \/ Campaign(d) \/ CampaignFails(d)
      PROVE  StableLeader
  BY <1>1 DEF Elect, GrantFails, Campaign, CampaignFails, StableLeader
<1>2. ASSUME NEW i \in Lease, Expire(i) \/ LoseLease(i)
      PROVE  StableLeader
  BY <1>2 DEF Expire, LoseLease, EndLease, StableLeader
<1> QED  BY <1>1, <1>2 DEF ElectionNext

(* What the registry, the controllers and a crash of a dash leave alone. *)
LEMMA OtherStep ==
  ASSUME \/ \E n \in Node : Registry(n) \/ Expiry(n)
         \/ \E d \in Observed : Control(d) \/ WatchFails(d)
         \/ \E d \in Dashes : DashCrash(d)
  PROVE  leader' = leader
<1>1. ASSUME NEW n \in Node, Registry(n) \/ Expiry(n) PROVE leader' = leader
  BY <1>1 DEF Registry, Expiry, electionVars
<1>2. ASSUME NEW d \in Observed, Control(d) \/ WatchFails(d)
      PROVE  leader' = leader
  BY <1>2 DEF Control, Watch, Deal, AddLoop, DelLoop, WatchFails, electionVars
<1>3. ASSUME NEW d \in Dashes, DashCrash(d) PROVE leader' = leader
  BY <1>3 DEF DashCrash, ElectCrash
<1> QED  BY <1>1, <1>2, <1>3

(***************************************************************************)
(* Leadership changes hands only through the end of the leader's lease,    *)
(* whatever campaigns, answers, crashes and restarts there are (Elect).    *)
(***************************************************************************)
THEOREM LeadershipStable == Spec => LeadsUntilLeaseEnds
<1>1. [Next]_vars => [StableLeader]_electionVars
  <2> SUFFICES ASSUME [Next]_vars PROVE StableLeader \/ UNCHANGED electionVars
    OBVIOUS
  <2>1. CASE UNCHANGED vars
    BY <2>1 DEF vars
  <2>2. CASE Next
    BY <2>2, ElectionStep, OtherStep DEF Next, StableLeader
  <2> QED  BY <2>1, <2>2
<1> QED  BY <1>1, PTL DEF Spec, LeadsUntilLeaseEnds, StableLeader

-----------------------------------------------------------------------------
(* The ring: what AddNode and DelNode keep. *)

Free(r) == {s \in Slot : r.vnodeSlice[s] = None}

(* The two tables of a ring agree, and just the virtual nodes of V are in
   them. *)
Agree(r) ==
    \A s \in Slot, v \in VNode : r.vnodeSlice[s] = v <=> r.nodeVNameMap[v] = s
Owned(r, V) == \A v \in VNode : r.nodeVNameMap[v] # None <=> v \in V
OfNodes(S) == {v \in VNode : v[1] \in S}
Sound(r) == r \in Ring /\ Agree(r) /\ Owned(r, OfNodes(r.addedNode))

(* The search of a virtual node for a slot ends at the first free one. *)
LEMMA FreeSlotIsFree ==
    ASSUME NEW r \in Ring, NEW v \in VNode, Free(r) # {}
    PROVE  FreeSlot(r, v) \in Free(r)
<1> DEFINE h == hashToSlot[v]
           J == {j \in DOMAIN h : r.vnodeSlice[h[j]] = None}
<1>1. /\ h \in Seq(Slot)
      /\ Slot = {h[j] : j \in DOMAIN h}
  BY HashRingAssumption
<1>2. DOMAIN h = 1..Len(h) /\ Len(h) \in Nat
  BY <1>1
<1>3. J \subseteq Nat /\ J # {}
  BY <1>1, <1>2 DEF Free
<1>4. PICK x \in J : \A y \in J : ~(y < x)
  BY <1>3, LeastNatural
<1>5. \A i \in 1..(x - 1) : i \in DOMAIN h /\ i < x
  BY <1>2, <1>4
<1>6. /\ x \in DOMAIN h /\ r.vnodeSlice[h[x]] = None
      /\ \A i \in 1..(x - 1) : ~(r.vnodeSlice[h[i]] = None)
  BY <1>4, <1>5
<1>7. \E j \in DOMAIN h : /\ r.vnodeSlice[h[j]] = None
                          /\ \A i \in 1..(j - 1) : ~(r.vnodeSlice[h[i]] = None)
  BY <1>6
<1> DEFINE first == CHOOSE j \in DOMAIN h :
                        /\ r.vnodeSlice[h[j]] = None
                        /\ \A i \in 1..(j - 1) : ~(r.vnodeSlice[h[i]] = None)
<1>8. first \in DOMAIN h /\ r.vnodeSlice[h[first]] = None
  BY <1>7
<1>9. FreeSlot(r, v) = h[first]
  BY DEF FreeSlot
<1> HIDE DEF first
<1>10. h[first] \in Slot
  BY <1>1, <1>8
<1> QED  BY <1>8, <1>9, <1>10 DEF Free

(* Placing a virtual node that is not in the tables uses up one slot. *)
LEMMA PlaceKeeps ==
    ASSUME NEW r \in Ring, NEW V, Agree(r), Owned(r, V),
           NEW v \in VNode, v \notin V, Free(r) # {}
    PROVE  /\ Place(r, v) \in Ring
           /\ Agree(Place(r, v))
           /\ Owned(Place(r, v), V \cup {v})
           /\ Place(r, v).addedNode = r.addedNode
           /\ \E s \in Free(r) : Free(Place(r, v)) = Free(r) \ {s}
<1> DEFINE s == FreeSlot(r, v)
           p == Place(r, v)
<1>1. s \in Slot /\ r.vnodeSlice[s] = None
  BY FreeSlotIsFree DEF Free
<1>2. p = [r EXCEPT !.vnodeSlice[s] = v, !.nodeVNameMap[v] = s]
  BY DEF Place
<1> HIDE DEF s, p
<1>3. /\ p.vnodeSlice = [r.vnodeSlice EXCEPT ![s] = v]
      /\ p.nodeVNameMap = [r.nodeVNameMap EXCEPT ![v] = s]
      /\ p.addedNode = r.addedNode
      /\ p \in Ring
  BY <1>1, <1>2 DEF Ring
<1>4. r.nodeVNameMap[v] = None /\ None \notin VNode \cup Slot
  BY HashRingAssumption DEF Owned
<1>5. /\ r.vnodeSlice \in [Slot -> VNode \cup {None}]
      /\ r.nodeVNameMap \in [VNode -> Slot \cup {None}]
  BY DEF Ring
<1>6. Agree(p)
  BY <1>1, <1>3, <1>4, <1>5 DEF Agree
<1>7. Owned(p, V \cup {v})
  BY <1>1, <1>3, <1>4, <1>5 DEF Owned
<1>8. Free(p) = Free(r) \ {s} /\ s \in Free(r)
  BY <1>1, <1>3, <1>4, <1>5 DEF Free
<1> QED  BY <1>3, <1>6, <1>7, <1>8 DEF p

(* The recursion of AddNode has a solution, up to every m. *)
PlacedUpTo(f, r, n, m) ==
    f = [i \in 0..m |-> IF i = 0 THEN r ELSE Place(f[i - 1], <<n, i>>)]

LEMMA PlacedExists ==
    ASSUME NEW r, NEW n, NEW m \in Nat
    PROVE  \E f : PlacedUpTo(f, r, n, m)
<1> DEFINE Step(f, k) == [i \in 0..k |->
                            IF i = 0 THEN r ELSE Place(f[i - 1], <<n, i>>)]
           T == {k \in Nat : \E f : f = Step(f, k)}
<1>1. 0 \in T
  <2> DEFINE f == [i \in 0..0 |-> r]
  <2>1. f = Step(f, 0)
    OBVIOUS
  <2> QED  BY <2>1
<1>2. ASSUME NEW k \in T  PROVE k + 1 \in T
  <2>1. PICK f : f = Step(f, k)
    OBVIOUS
  <2> DEFINE g == [i \in 0..(k + 1) |->
                     IF i = k + 1 THEN Place(f[k], <<n, k + 1>>) ELSE f[i]]
  <2>2. k \in Nat /\ k + 1 \in Nat
    OBVIOUS
  <2>3. \A i \in 0..(k + 1) :
          g[i] = IF i = 0 THEN r ELSE Place(g[i - 1], <<n, i>>)
    <3>1. \A i \in 0..k : f[i] = IF i = 0 THEN r ELSE Place(f[i - 1], <<n, i>>)
      BY <2>1, <2>2
    <3>2. \A i \in 0..k : g[i] = f[i]
      BY <2>2
    <3>3. g[k + 1] = Place(f[k], <<n, k + 1>>)
      BY <2>2
    <3> HIDE DEF g
    <3>4. ASSUME NEW i \in 0..k
          PROVE  g[i] = IF i = 0 THEN r ELSE Place(g[i - 1], <<n, i>>)
      <4>1. i # 0 => i - 1 \in 0..k
        BY <2>2
      <4> QED  BY <3>1, <3>2, <4>1
    <3>5. g[k + 1] = Place(g[(k + 1) - 1], <<n, k + 1>>) /\ k + 1 # 0
      <4>1. (k + 1) - 1 = k /\ k \in 0..k
        BY <2>2
      <4> QED  BY <2>2, <3>2, <3>3, <4>1
    <3>6. \A i \in 0..(k + 1) : i \in 0..k \/ i = k + 1
      BY <2>2
    <3> QED  BY <3>4, <3>5, <3>6
  <2>4. g = Step(g, k + 1)
    BY <2>3
  <2> HIDE DEF g
  <2> QED  BY <2>2, <2>4
<1> HIDE DEF T
<1>3. Nat \subseteq T
  BY <1>1, <1>2, SetInduction
<1>4. PICK f : f = Step(f, m)
  BY <1>3 DEF T
<1> QED  BY <1>4 DEF PlacedUpTo

(* The slots are finite in number. *)
LEMMA FreeFinite ==
    ASSUME NEW r
    PROVE  IsFiniteSet(Free(r)) /\ Cardinality(Free(r)) \in Nat
<1>1. IsFiniteSet(Slot)
  BY HashRingAssumption, FS_Interval DEF Slot
<1>2. Free(r) \in SUBSET Slot
  BY DEF Free
<1> QED  BY <1>1, <1>2, FS_Subset, FS_CardinalityType

(* The virtual nodes of n that the loop of AddNode has placed after i rounds. *)
FirstOf(n, i) == {<<n, j>> : j \in 1..i}

(***************************************************************************)
(* AddNode, as long as there is room, gives a new node all its virtual     *)
(* nodes and takes no slot from another.                                   *)
(***************************************************************************)
LEMMA AddNodeKeeps ==
    ASSUME NEW r, Sound(r), NEW n \in Node, Room(r) \/ n \in r.addedNode
    PROVE  /\ Sound(AddNode(r, n))
           /\ AddNode(r, n).addedNode = r.addedNode \cup {n}
<1>1. CASE n \in r.addedNode
  <2>1. AddNode(r, n) = r
    BY <1>1 DEF AddNode
  <2> QED  BY <1>1, <2>1
<1>2. CASE n \notin r.addedNode
  <2> DEFINE placed == CHOOSE f : f = [i \in 0..vNodeNum |->
                          IF i = 0 THEN r ELSE Place(f[i - 1], <<n, i>>)]
             V == OfNodes(r.addedNode)
             Good(i) == /\ placed[i] \in Ring
                        /\ Agree(placed[i])
                        /\ Owned(placed[i], V \cup FirstOf(n, i))
                        /\ placed[i].addedNode = r.addedNode
                        /\ Cardinality(Free(placed[i]))
                            = Cardinality(Free(r)) - i
             T == {i \in Nat : i <= vNodeNum => Good(i)}
  <2>1. vNodeNum \in Nat
    BY HashRingAssumption
  <2>2. placed = [i \in 0..vNodeNum |->
                    IF i = 0 THEN r ELSE Place(placed[i - 1], <<n, i>>)]
    <3>1. \E f : PlacedUpTo(f, r, n, vNodeNum)
      BY <2>1, PlacedExists
    <3>2. \E f : f = [i \in 0..vNodeNum |->
                        IF i = 0 THEN r ELSE Place(f[i - 1], <<n, i>>)]
      BY <3>1, Zenon DEF PlacedUpTo
    <3> QED  BY <3>2, Zenon
  <2>3. AddNode(r, n) = [placed[vNodeNum] EXCEPT !.addedNode = @ \cup {n}]
    BY <1>2 DEF AddNode
  <2> HIDE DEF placed
  <2>4. placed[0] = r
    BY <2>1, <2>2
  <2>5. \A i \in Nat : i + 1 <= vNodeNum
                         => placed[i + 1] = Place(placed[i], <<n, i + 1>>)
    <3> SUFFICES ASSUME NEW i \in Nat, i + 1 <= vNodeNum
                 PROVE  placed[i + 1] = Place(placed[i], <<n, i + 1>>)
      OBVIOUS
    <3>1. i + 1 \in 0..vNodeNum /\ i + 1 # 0 /\ (i + 1) - 1 = i
      BY <2>1
    <3> QED  BY <2>2, <3>1
  <2>6. Cardinality(Free(r)) \in Nat /\ Cardinality(Free(r)) >= vNodeNum
    BY <1>2, FreeFinite DEF Room, Free
  <2>7. 0 \in T
    <3>1. FirstOf(n, 0) = {}
      BY DEF FirstOf
    <3>2. Good(0)
      BY <2>4, <2>6, <3>1 DEF Sound
    <3> QED  BY <3>2
  <2>8. ASSUME NEW i \in T, i \in Nat PROVE i + 1 \in T
    <3> SUFFICES ASSUME i + 1 <= vNodeNum PROVE Good(i + 1)
      OBVIOUS
    <3> DEFINE q == placed[i]
               v == <<n, i + 1>>
    <3>1. Good(i)
      BY <2>1, <2>8
    <3>2. v \in VNode /\ v \notin V \cup FirstOf(n, i)
      BY <1>2, <2>1 DEF VNode, OfNodes, FirstOf
    <3>3. Free(q) # {}
      <4>1. Cardinality(Free(q)) # 0
        BY <2>1, <2>6, <3>1
      <4> QED  BY <4>1, FS_EmptySet
    <3>4. placed[i + 1] = Place(q, v)
      BY <2>5
    <3>5. FirstOf(n, i + 1) = FirstOf(n, i) \cup {v}
      BY DEF FirstOf
    <3> HIDE DEF q, v, V
    <3>6. /\ Place(q, v) \in Ring
          /\ Agree(Place(q, v))
          /\ Owned(Place(q, v), (V \cup FirstOf(n, i)) \cup {v})
          /\ Place(q, v).addedNode = q.addedNode
          /\ \E s \in Free(q) : Free(Place(q, v)) = Free(q) \ {s}
      <4>1. q \in Ring /\ Agree(q) /\ Owned(q, V \cup FirstOf(n, i))
        BY <3>1 DEF q
      <4> QED  BY <3>2, <3>3, <4>1, PlaceKeeps
    <3>7. Cardinality(Free(Place(q, v))) = Cardinality(Free(q)) - 1
      BY <3>6, FreeFinite, FS_RemoveElement
    <3>8. (V \cup FirstOf(n, i)) \cup {v} = V \cup FirstOf(n, i + 1)
      BY <3>5
    <3>9. /\ Cardinality(Free(q)) = Cardinality(Free(r)) - i
          /\ q.addedNode = r.addedNode
      BY <3>1 DEF q
    <3>10. Cardinality(Free(Place(q, v))) = Cardinality(Free(r)) - (i + 1)
      BY <2>6, <3>7, <3>9
    <3> QED  BY <3>4, <3>6, <3>8, <3>9, <3>10
  <2> HIDE DEF T
  <2>9. Nat \subseteq T
    BY <2>7, <2>8, SetInduction
  <2>10. Good(vNodeNum)
    BY <2>1, <2>9 DEF T
  <2> DEFINE p == placed[vNodeNum]
             a == AddNode(r, n)
  <2>11. V \cup FirstOf(n, vNodeNum) = OfNodes(r.addedNode \cup {n})
    BY DEF OfNodes, FirstOf, VNode
  <2>12. r.addedNode \cup {n} \in SUBSET Node
    BY DEF Sound, Ring
  <2> HIDE DEF a, p
  <2>13. /\ a \in Ring
         /\ a.vnodeSlice = p.vnodeSlice /\ a.nodeVNameMap = p.nodeVNameMap
         /\ a.addedNode = r.addedNode \cup {n}
    BY <2>3, <2>10, <2>12 DEF a, p, Ring
  <2>14. Agree(a)
    BY <2>10, <2>13 DEF p, Agree
  <2>15. Owned(a, OfNodes(a.addedNode))
    BY <2>10, <2>11, <2>13 DEF p, Owned
  <2> QED  BY <2>13, <2>14, <2>15 DEF a, Sound
<1> QED  BY <1>1, <1>2

(* DelNode frees just the slots of the node. *)
LEMMA DelNodeKeeps ==
    ASSUME NEW r, Sound(r), NEW n \in Node
    PROVE  Sound(DelNode(r, n)) /\ DelNode(r, n).addedNode = r.addedNode \ {n}
<1>1. CASE n \notin r.addedNode
  <2>1. DelNode(r, n) = r
    BY <1>1 DEF DelNode
  <2> QED  BY <1>1, <2>1
<1>2. CASE n \in r.addedNode
  <2> DEFINE a == DelNode(r, n)
             Mine(s) == \E i \in 1..vNodeNum : r.nodeVNameMap[<<n, i>>] = s
  <2>1. /\ r.vnodeSlice \in [Slot -> VNode \cup {None}]
        /\ r.nodeVNameMap \in [VNode -> Slot \cup {None}]
        /\ r.addedNode \in SUBSET Node
    BY DEF Sound, Ring
  <2>2. None \notin VNode \cup Slot
    BY HashRingAssumption
  <2>3. a = [vnodeSlice |-> [s \in Slot |->
                IF Mine(s) THEN None ELSE r.vnodeSlice[s]],
             nodeVNameMap |-> [v \in VNode |->
                IF v[1] = n THEN None ELSE r.nodeVNameMap[v]],
             addedNode |-> r.addedNode \ {n}]
    BY <1>2 DEF DelNode
  <2> HIDE DEF a
  <2>4. /\ \A s \in Slot : a.vnodeSlice[s] =
                             IF Mine(s) THEN None ELSE r.vnodeSlice[s]
        /\ \A v \in VNode : a.nodeVNameMap[v] =
                              IF v[1] = n THEN None ELSE r.nodeVNameMap[v]
        /\ a.addedNode = r.addedNode \ {n}
    BY <2>3
  <2>5. \A s \in Slot : Mine(s) <=>
          \E v \in VNode : v[1] = n /\ r.nodeVNameMap[v] = s
    <3>1. /\ \A v \in VNode : v = <<v[1], v[2]>> /\ v[2] \in 1..vNodeNum
          /\ \A i \in 1..vNodeNum : <<n, i>> \in VNode /\ <<n, i>>[1] = n
      BY DEF VNode
    <3> QED  BY <3>1
  <2> HIDE DEF Mine
  <2>6. a \in Ring
    BY <2>1, <2>3 DEF Ring
  <2>7. Agree(a)
    <3>1. ASSUME NEW s \in Slot, NEW v \in VNode
          PROVE  a.vnodeSlice[s] = v <=> a.nodeVNameMap[v] = s
      <4>1. r.vnodeSlice[s] = v <=> r.nodeVNameMap[v] = s
        BY DEF Sound, Agree
      <4>2. \A w \in VNode : r.nodeVNameMap[w] = s => r.vnodeSlice[s] = w
        BY DEF Sound, Agree
      <4>3. CASE Mine(s)
        BY <2>2, <2>4, <2>5, <4>1, <4>2, <4>3
      <4>4. CASE ~Mine(s)
        BY <2>2, <2>4, <2>5, <4>1, <4>4
      <4> QED  BY <4>3, <4>4
    <3> QED  BY <3>1 DEF Agree
  <2>8. Owned(a, OfNodes(a.addedNode))
    BY <2>4 DEF Sound, Owned, OfNodes
  <2> QED  BY <2>4, <2>6, <2>7, <2>8 DEF a, Sound
<1> QED  BY <1>1, <1>2

LEMMA NewRingSound == Sound(NewHashRing) /\ NewHashRing.addedNode = {}
<1>1. None \notin VNode \cup Slot
  BY HashRingAssumption
<1>2. NewHashRing \in Ring
  BY DEF NewHashRing, Ring
<1>3. Agree(NewHashRing) /\ Owned(NewHashRing, OfNodes({}))
  BY <1>1 DEF NewHashRing, Agree, Owned, OfNodes
<1> QED  BY <1>2, <1>3 DEF NewHashRing, Sound

-----------------------------------------------------------------------------
(* The inductive invariant: what is on its way to a ring ends where the
   registry is. *)

(* Of the events of q about node n, P has the places after which the node is
   there, and 0 if it is there before the first; only an update needs the
   node to be there already. *)
Tells(q, n, P) ==
    \A i \in 1..Len(q) :
        IF q[i][2] = n
        THEN /\ i \in P <=> q[i][1] # "del"
             /\ q[i][1] = "update" => i - 1 \in P
        ELSE i \in P <=> i - 1 \in P

(* What ring r will say of node n once the channels a and x, of adds and of
   deletes, are empty. *)
Heard(a, x, r, n) == Holds(a, n) \/ (~Holds(x, n) /\ n \in r.addedNode)

(* The events that have not been dealt out lead from what a dash has heard of
   n to the keys of the registry. *)
InformedOf(q, a, x, r, n, keys) ==
    \E P \in SUBSET (0..Len(q)) :
        /\ Tells(q, n, P)
        /\ 0 \in P <=> Heard(a, x, r, n)
        /\ Len(q) \in P <=> n \in keys

(* The controller of a dash: a dash that does not watch has heard nothing, one
   that does is informed of every node that has not crossed. *)
ControllerOK(w, q, a, x, r, c, keys) ==
    /\ q \in Seq(Event) /\ a \in Channel /\ x \in Channel /\ Sound(r)
    /\ w # "yes" => q = <<>> /\ a = <<>> /\ x = <<>> /\ r.addedNode = {}
    /\ \A n \in Node \ c : ~(Holds(a, n) /\ Holds(x, n))
    /\ w = "yes" => \A n \in Node \ c : InformedOf(q, a, x, r, n, keys)

Keys == {n \in Node : Registered(n)}

ControllersOK ==
    \A d \in Observed :
        ControllerOK(watching[d], eventCh[d], addChan[d], delChan[d], hr[d],
                     crossed[d], Keys)

IInv == TypeOK /\ IsFiniteSet(Keys) /\ ControllersOK

LEMMA HoldsAppend ==
    ASSUME NEW S, NEW ch \in Seq(S), NEW m \in S, NEW n
    PROVE  Holds(Append(ch, m), n) <=> Holds(ch, n) \/ m = n
<1>1. Len(Append(ch, m)) = Len(ch) + 1 /\ Len(ch) \in Nat
  OBVIOUS
<1>2. \A i \in 1..Len(ch) : Append(ch, m)[i] = ch[i]
  OBVIOUS
<1>3. Append(ch, m)[Len(ch) + 1] = m
  OBVIOUS
<1>4. \A i \in 1..(Len(ch) + 1) : i \in 1..Len(ch) \/ i = Len(ch) + 1
  BY <1>1
<1>5. 1..Len(ch) \subseteq 1..(Len(ch) + 1) /\ Len(ch) + 1 \in 1..(Len(ch) + 1)
  BY <1>1
<1> QED  BY <1>1, <1>2, <1>3, <1>4, <1>5 DEF Holds

LEMMA HoldsTail ==
    ASSUME NEW S, NEW ch \in Seq(S), ch # <<>>, NEW n
    PROVE  Holds(ch, n) <=> Head(ch) = n \/ Holds(Tail(ch), n)
<1>1. Len(ch) \in Nat \ {0} /\ Len(Tail(ch)) = Len(ch) - 1 /\ Head(ch) = ch[1]
  OBVIOUS
<1>2. \A i \in 1..(Len(ch) - 1) : Tail(ch)[i] = ch[i + 1]
  OBVIOUS
<1>3. \A i \in 1..Len(ch) :
        i # 1 => i - 1 \in 1..(Len(ch) - 1) /\ (i - 1) + 1 = i
  BY <1>1
<1>4. 1 \in 1..Len(ch) /\ \A i \in 1..(Len(ch) - 1) : i + 1 \in 1..Len(ch)
  BY <1>1
<1>5. ASSUME Holds(ch, n) PROVE Head(ch) = n \/ Holds(Tail(ch), n)
  <2>1. PICK i \in 1..Len(ch) : ch[i] = n
    BY <1>5 DEF Holds
  <2>2. CASE i = 1
    BY <1>1, <2>1, <2>2
  <2>3. CASE i # 1
    <3>1. i - 1 \in 1..Len(Tail(ch)) /\ Tail(ch)[i - 1] = n
      BY <1>1, <1>2, <1>3, <2>1, <2>3
    <3> QED  BY <3>1 DEF Holds
  <2> QED  BY <2>2, <2>3
<1>6. ASSUME Head(ch) = n \/ Holds(Tail(ch), n) PROVE Holds(ch, n)
  BY <1>1, <1>2, <1>4, <1>6 DEF Holds
<1> QED  BY <1>5, <1>6

(* A channel takes one more element when it is not full, and gives up its
   first. *)
LEMMA ChannelSteps ==
    ASSUME NEW ch \in Channel
    PROVE  /\ \A m \in Node :
                Len(ch) <= eventQueueLen => Append(ch, m) \in Channel
           /\ ch # <<>> => Head(ch) \in Node /\ Tail(ch) \in Channel
<1>1. ch \in Seq(Node) /\ Len(ch) \in Nat /\ Len(ch) <= eventQueueLen + 1
  BY DEF Channel
<1>2. eventQueueLen \in Nat
  BY ControllerAssumption
<1>3. ASSUME NEW m \in Node, Len(ch) <= eventQueueLen
      PROVE  Append(ch, m) \in Channel
  <2>1. Append(ch, m) \in Seq(Node) /\ Len(Append(ch, m)) = Len(ch) + 1
    BY <1>1
  <2> QED  BY <1>1, <1>2, <1>3, <2>1 DEF Channel
<1>4. ASSUME ch # <<>>
      PROVE  Head(ch) \in Node /\ Tail(ch) \in Channel
  <2>1. /\ Head(ch) \in Node /\ Tail(ch) \in Seq(Node)
        /\ Len(Tail(ch)) = Len(ch) - 1
    BY <1>1, <1>4
  <2> QED  BY <1>1, <1>2, <2>1 DEF Channel
<1> QED  BY <1>3, <1>4

LEMMA EmptyChannel == <<>> \in Channel /\ \A n : ~Holds(<<>>, n)
BY ControllerAssumption DEF Channel, Holds

(* A story that says nothing of a node leaves it as it was. *)
LEMMA TellsNothing ==
    ASSUME NEW q \in Seq(Event), NEW n, NEW P, Tells(q, n, P),
           \A i \in 1..Len(q) : q[i][2] # n
    PROVE  Len(q) \in P <=> 0 \in P
<1> DEFINE T == {i \in Nat : i <= Len(q) => (i \in P <=> 0 \in P)}
<1>1. Len(q) \in Nat
  OBVIOUS
<1>2. 0 \in T
  OBVIOUS
<1>3. ASSUME NEW i \in T, i \in Nat PROVE i + 1 \in T
  <2> SUFFICES ASSUME i + 1 <= Len(q) PROVE i + 1 \in P <=> 0 \in P
    OBVIOUS
  <2>1. i + 1 \in 1..Len(q) /\ (i + 1) - 1 = i /\ i <= Len(q)
    BY <1>1
  <2>2. i + 1 \in P <=> i \in P
    BY <2>1 DEF Tells
  <2> QED  BY <2>1, <2>2
<1> HIDE DEF T
<1>4. Nat \subseteq T
  BY <1>2, <1>3, SetInduction
<1> QED  BY <1>1, <1>4 DEF T

(* One more event at the end of the story. *)
LEMMA TellsAppend ==
    ASSUME NEW q \in Seq(Event), NEW n, NEW P \in SUBSET (0..Len(q)),
           Tells(q, n, P), NEW e \in Event, NEW after \in BOOLEAN,
           IF e[2] = n
           THEN /\ after <=> e[1] # "del"
                /\ e[1] = "update" => Len(q) \in P
           ELSE after <=> Len(q) \in P
    PROVE  \E Q \in SUBSET (0..Len(Append(q, e))) :
              /\ Tells(Append(q, e), n, Q)
              /\ 0 \in Q <=> 0 \in P
              /\ Len(Append(q, e)) \in Q <=> after
<1> DEFINE l == Len(q)
           Q == P \cup {i \in {l + 1} : after}
<1>1. l \in Nat /\ Len(Append(q, e)) = l + 1
  OBVIOUS
<1>2. /\ \A i \in 1..l : Append(q, e)[i] = q[i]
      /\ Append(q, e)[l + 1] = e
  OBVIOUS
<1>3. Q \in SUBSET (0..(l + 1))
  <2>1. 0..l \subseteq 0..(l + 1) /\ l + 1 \in 0..(l + 1)
    BY <1>1
  <2> QED  BY <2>1
<1>4. /\ \A i \in 0..l : i \in Q <=> i \in P
      /\ l + 1 \in Q <=> after
  BY <1>1
<1> HIDE DEF Q
<1>5. ASSUME NEW i \in 1..(l + 1)
      PROVE  IF Append(q, e)[i][2] = n
             THEN /\ i \in Q <=> Append(q, e)[i][1] # "del"
                  /\ Append(q, e)[i][1] = "update" => i - 1 \in Q
             ELSE i \in Q <=> i - 1 \in Q
  <2>1. CASE i \in 1..l
    <3>1. i \in 0..l /\ i - 1 \in 0..l
      BY <1>1, <2>1
    <3>2. IF q[i][2] = n
          THEN /\ i \in P <=> q[i][1] # "del"
               /\ q[i][1] = "update" => i - 1 \in P
          ELSE i \in P <=> i - 1 \in P
      BY <2>1 DEF Tells
    <3> QED  BY <1>2, <1>4, <2>1, <3>1, <3>2
  <2>2. CASE i = l + 1
    <3>1. i - 1 = l /\ l \in 0..l
      BY <1>1, <2>2
    <3> QED  BY <1>2, <1>4, <2>2, <3>1
  <2> QED  BY <1>1, <2>1, <2>2
<1>6. Tells(Append(q, e), n, Q)
  BY <1>1, <1>5 DEF Tells
<1>7. 0 \in Q <=> 0 \in P
  BY <1>1, <1>4
<1> QED  BY <1>1, <1>3, <1>4, <1>6, <1>7

(* The first event is dealt out. *)
LEMMA TellsTail ==
    ASSUME NEW q \in Seq(Event), q # <<>>, NEW n, NEW P \in SUBSET (0..Len(q)),
           Tells(q, n, P)
    PROVE  /\ IF Head(q)[2] = n
              THEN /\ 1 \in P <=> Head(q)[1] # "del"
                   /\ Head(q)[1] = "update" => 0 \in P
              ELSE 1 \in P <=> 0 \in P
           /\ \E Q \in SUBSET (0..Len(Tail(q))) :
                 /\ Tells(Tail(q), n, Q)
                 /\ 0 \in Q <=> 1 \in P
                 /\ Len(Tail(q)) \in Q <=> Len(q) \in P
<1> DEFINE l == Len(Tail(q))
           Q == {i \in 0..l : i + 1 \in P}
<1>1. /\ l \in Nat /\ Len(q) = l + 1 /\ Head(q) = q[1]
      /\ \A i \in 1..l : Tail(q)[i] = q[i + 1]
  OBVIOUS
<1>2. \A i \in 0..l : i \in Q <=> i + 1 \in P
  OBVIOUS
<1>3. Q \in SUBSET (0..l)
  OBVIOUS
<1> HIDE DEF Q
<1>4. ASSUME NEW i \in 1..l
      PROVE  IF Tail(q)[i][2] = n
             THEN /\ i \in Q <=> Tail(q)[i][1] # "del"
                  /\ Tail(q)[i][1] = "update" => i - 1 \in Q
             ELSE i \in Q <=> i - 1 \in Q
  <2>1. /\ i + 1 \in 1..Len(q) /\ (i + 1) - 1 = i
        /\ i \in 0..l /\ i - 1 \in 0..l /\ (i - 1) + 1 = i
    BY <1>1
  <2>2. IF q[i + 1][2] = n
        THEN /\ i + 1 \in P <=> q[i + 1][1] # "del"
             /\ q[i + 1][1] = "update" => i \in P
        ELSE i + 1 \in P <=> i \in P
    BY <2>1 DEF Tells
  <2> QED  BY <1>1, <1>2, <2>1, <2>2
<1>5. Tells(Tail(q), n, Q)
  BY <1>4 DEF Tells
<1>6. /\ 0 \in Q <=> 1 \in P
      /\ l \in Q <=> Len(q) \in P
  BY <1>1, <1>2
<1>7. IF q[1][2] = n
      THEN /\ 1 \in P <=> q[1][1] # "del"
           /\ q[1][1] = "update" => 0 \in P
      ELSE 1 \in P <=> 0 \in P
  <2>1. 1 \in 1..Len(q) /\ 1 - 1 = 0
    BY <1>1
  <2> QED  BY <2>1 DEF Tells
<1> QED  BY <1>1, <1>3, <1>5, <1>6, <1>7

(* A finite set as a sequence, as Get lists the keys: all of it, nothing
   else. *)
LEMMA SetToSeqLists ==
    ASSUME NEW S, IsFiniteSet(S)
    PROVE  /\ SetToSeq(S) \in Seq(S)
           /\ \A e \in S : \E i \in 1..Len(SetToSeq(S)) : SetToSeq(S)[i] = e
<1> DEFINE c == Cardinality(S)
           f == SetToSeq(S)
<1>1. c \in Nat /\ ExistsBijection(1..c, S)
  BY FS_CardinalityType
<1>2. \E g \in [1..c -> S] : IsInjective(g)
  BY <1>1 DEF ExistsBijection, Bijection, Injection
<1>3. f \in [1..c -> S] /\ IsInjective(f)
  BY <1>2 DEF SetToSeq
<1>4. IsFiniteSet(1..c) /\ Cardinality(1..c) = c
  BY <1>1, FS_Interval
<1> HIDE DEF c, f
<1>5. f \in Surjection(1..c, S)
  <2>1. f \in Injection(1..c, S)
    BY <1>3 DEF Injection
  <2> QED  BY <1>4, <2>1, FS_Injection DEF c
<1>6. f \in Seq(S) /\ Len(f) = c
  BY <1>1, <1>3
<1> QED  BY <1>5, <1>6 DEF f, Surjection

-----------------------------------------------------------------------------
(* What the steps of the registry and of a controller do to one dash. *)

(* etcd tells a dash that watches of a change of one key. *)
LEMMA NotifyKeeps ==
    ASSUME NEW q, NEW a, NEW x, NEW r, NEW c, NEW keys, NEW keys2,
           ControllerOK("yes", q, a, x, r, c, keys), NEW e \in Event,
           e[2] \in keys2 <=> e[1] # "del",
           e[1] = "update" => e[2] \in keys,
           \A n \in Node : n # e[2] => (n \in keys2 <=> n \in keys)
    PROVE  ControllerOK("yes", Append(q, e), a, x, r, c, keys2)
<1>1. q \in Seq(Event) /\ Append(q, e) \in Seq(Event)
  BY DEF ControllerOK
<1>2. ASSUME NEW n \in Node \ c
      PROVE  InformedOf(Append(q, e), a, x, r, n, keys2)
  <2> DEFINE after == n \in keys2
  <2>1. PICK P \in SUBSET (0..Len(q)) :
          /\ Tells(q, n, P)
          /\ 0 \in P <=> Heard(a, x, r, n)
          /\ Len(q) \in P <=> n \in keys
    BY DEF ControllerOK, InformedOf
  <2>2. PICK b \in BOOLEAN : b <=> after
    OBVIOUS
  <2>3. IF e[2] = n
        THEN (b <=> e[1] # "del") /\ (e[1] = "update" => Len(q) \in P)
        ELSE b <=> Len(q) \in P
    BY <2>1, <2>2
  <2> HIDE DEF after
  <2>4. PICK Q \in SUBSET (0..Len(Append(q, e))) :
          /\ Tells(Append(q, e), n, Q)
          /\ 0 \in Q <=> 0 \in P
          /\ Len(Append(q, e)) \in Q <=> b
    BY <1>1, <2>1, <2>3, TellsAppend
  <2> QED  BY <2>1, <2>2, <2>4 DEF InformedOf, after
<1> QED  BY <1>1, <1>2 DEF ControllerOK

(* What a dash is informed of depends on the keys alone, and a dash that does
   not watch is not informed of anything. *)
LEMMA UntoldKeeps ==
    ASSUME NEW w, NEW q, NEW a, NEW x, NEW r, NEW c, NEW keys, NEW keys2,
           ControllerOK(w, q, a, x, r, c, keys), w # "yes"
    PROVE  ControllerOK(w, q, a, x, r, c, keys2)
BY DEF ControllerOK

LEMMA NewControllerOK ==
    ASSUME NEW w, w # "yes", NEW c, NEW keys
    PROVE  ControllerOK(w, <<>>, <<>>, <<>>, NewHashRing, c, keys)
<1>1. <<>> \in Seq(Event)
  OBVIOUS
<1> QED  BY <1>1, EmptyChannel, NewRingSound DEF ControllerOK

(* The keys that Get finds come as adds to a dash that has heard nothing. *)
LEMMA WatchKeeps ==
    ASSUME NEW w, w # "yes", NEW q, NEW a, NEW x, NEW r, NEW c,
           NEW keys \in SUBSET Node, IsFiniteSet(keys),
           ControllerOK(w, q, a, x, r, c, keys)
    PROVE  ControllerOK("yes", SetToSeq({<<"add", n>> : n \in keys}),
                        a, x, r, c, keys)
<1> DEFINE S == {<<"add", n>> : n \in keys}
           p == SetToSeq(S)
<1>1. IsFiniteSet(S)
  <2> DEFINE f == [n \in keys |-> <<"add", n>>]
  <2>1. f \in Surjection(keys, S)
    BY DEF Surjection
  <2> HIDE DEF f, S
  <2> QED  BY <2>1, FS_Surjection
<1>2. /\ p \in Seq(S)
      /\ \A e \in S : \E i \in 1..Len(p) : p[i] = e
  <2> HIDE DEF S
  <2> QED  BY <1>1, SetToSeqLists
<1>3. S \subseteq Event
  BY DEF Event
<1> HIDE DEF p
<1>4. /\ p \in Seq(Event) /\ Len(p) \in Nat
      /\ \A i \in 1..Len(p) : p[i] \in S
  <2> HIDE DEF S
  <2> QED  BY <1>2, <1>3
<1>5. /\ a = <<>> /\ x = <<>> /\ r.addedNode = {}
      /\ a \in Channel /\ x \in Channel /\ Sound(r)
  BY DEF ControllerOK
<1>6. ASSUME NEW n \in Node
      PROVE  InformedOf(p, a, x, r, n, keys)
  <2> DEFINE P == {i \in 0..Len(p) : \E j \in 1..i : p[j] = <<"add", n>>}
  <2>1. ~Heard(a, x, r, n)
    BY <1>5, EmptyChannel DEF Heard
  <2>2. 0 \notin P
    BY <1>4
  <2>3. ASSUME NEW i \in 1..Len(p)
        PROVE  IF p[i][2] = n
               THEN i \in P /\ p[i][1] = "add"
               ELSE i \in P <=> i - 1 \in P
    <3>1. /\ i \in 0..Len(p) /\ i - 1 \in 0..Len(p) /\ i \in 1..i
          /\ \A j \in 1..i : j \in 1..(i - 1) \/ j = i
          /\ 1..(i - 1) \subseteq 1..i
      BY <1>4
    <3>2. PICK m \in keys : p[i] = <<"add", m>>
      BY <1>4
    <3>3. CASE m = n
      BY <3>1, <3>2, <3>3
    <3>4. CASE m # n
      <4>1. p[i] # <<"add", n>> /\ p[i][2] # n
        BY <3>2, <3>4
      <4>2. i \in P <=> i - 1 \in P
        BY <3>1, <4>1
      <4> QED  BY <4>1, <4>2
    <3> QED  BY <3>3, <3>4
  <2>4. Tells(p, n, P)
    <3> HIDE DEF P
    <3> QED  BY <2>3 DEF Tells
  <2>5. Len(p) \in P <=> n \in keys
    <3>1. Len(p) \in 0..Len(p)
      BY <1>4
    <3>2. ASSUME n \in keys PROVE Len(p) \in P
      BY <1>2, <3>1, <3>2
    <3>3. ASSUME Len(p) \in P PROVE n \in keys
      BY <1>4, <3>3
    <3> QED  BY <3>2, <3>3
  <2>6. P \in SUBSET (0..Len(p))
    OBVIOUS
  <2> HIDE DEF P
  <2> QED  BY <2>1, <2>2, <2>4, <2>5, <2>6 DEF InformedOf
<1>7. \A n \in Node : ~(Holds(a, n) /\ Holds(x, n))
  BY <1>5, EmptyChannel
<1> QED  BY <1>4, <1>5, <1>6, <1>7 DEF ControllerOK, p

(* SuckLoop deals out the first event: to a channel, or, an update, to
   nobody. *)
LEMMA DealKeeps ==
    ASSUME NEW w, NEW q, NEW a, NEW x, NEW r, NEW c, NEW keys,
           ControllerOK(w, q, a, x, r, c, keys), q # <<>>,
           NEW a2 \in Channel, NEW x2 \in Channel, NEW c2,
           LET op == Head(q)[1]
               n == Head(q)[2]
           IN  \/ /\ op = "add" /\ a2 = Append(a, n) /\ x2 = x
                  /\ c2 = IF Holds(x, n) THEN c \cup {n} ELSE c
               \/ /\ op = "del" /\ x2 = Append(x, n) /\ a2 = a
                  /\ c2 = IF Holds(a, n) THEN c \cup {n} ELSE c
               \/ /\ op = "update" /\ a2 = a /\ x2 = x /\ c2 = c
    PROVE  ControllerOK(w, Tail(q), a2, x2, r, c2, keys)
<1> DEFINE op == Head(q)[1]
           m == Head(q)[2]
<1>1. /\ q \in Seq(Event) /\ Tail(q) \in Seq(Event) /\ Head(q) \in Event
      /\ a \in Seq(Node) /\ x \in Seq(Node) /\ Sound(r) /\ w = "yes"
  BY DEF ControllerOK, Channel
<1>2. m \in Node
  BY <1>1 DEF Event
<1>3. CASE op = "add"
  <2>1. /\ a2 = Append(a, m) /\ x2 = x
        /\ c2 = IF Holds(x, m) THEN c \cup {m} ELSE c
    BY <1>3
  <2>2. \A n : Holds(a2, n) <=> Holds(a, n) \/ m = n
    BY <1>1, <1>2, <2>1, HoldsAppend
  <2>3. ASSUME NEW n \in Node \ c2
        PROVE  /\ ~(Holds(a2, n) /\ Holds(x2, n))
               /\ InformedOf(Tail(q), a2, x2, r, n, keys)
    <3>1. n \in Node \ c /\ (n = m => ~Holds(x, n))
      BY <2>1
    <3>2. ~(Holds(a, n) /\ Holds(x, n))
      BY <3>1 DEF ControllerOK
    <3>3. PICK P \in SUBSET (0..Len(q)) :
            /\ Tells(q, n, P)
            /\ 0 \in P <=> Heard(a, x, r, n)
            /\ Len(q) \in P <=> n \in keys
      BY <1>1, <3>1 DEF ControllerOK, InformedOf
    <3>4. /\ IF m = n
             THEN 1 \in P <=> op # "del"
             ELSE 1 \in P <=> 0 \in P
          /\ \E Q \in SUBSET (0..Len(Tail(q))) :
               /\ Tells(Tail(q), n, Q)
               /\ 0 \in Q <=> 1 \in P
               /\ Len(Tail(q)) \in Q <=> Len(q) \in P
      BY <1>1, <3>3, TellsTail
    <3>5. 1 \in P <=> Heard(a2, x2, r, n)
      BY <1>3, <2>1, <2>2, <3>1, <3>2, <3>3, <3>4 DEF Heard
    <3>6. InformedOf(Tail(q), a2, x2, r, n, keys)
      BY <3>3, <3>4, <3>5 DEF InformedOf
    <3> QED  BY <2>1, <2>2, <3>1, <3>2, <3>6
  <2> QED  BY <1>1, <2>3 DEF ControllerOK
<1>4. CASE op = "del"
  <2>1. /\ x2 = Append(x, m) /\ a2 = a
        /\ c2 = IF Holds(a, m) THEN c \cup {m} ELSE c
    BY <1>4
  <2>2. \A n : Holds(x2, n) <=> Holds(x, n) \/ m = n
    BY <1>1, <1>2, <2>1, HoldsAppend
  <2>3. ASSUME NEW n \in Node \ c2
        PROVE  /\ ~(Holds(a2, n) /\ Holds(x2, n))
               /\ InformedOf(Tail(q), a2, x2, r, n, keys)
    <3>1. n \in Node \ c /\ (n = m => ~Holds(a, n))
      BY <2>1
    <3>2. ~(Holds(a, n) /\ Holds(x, n))
      BY <3>1 DEF ControllerOK
    <3>3. PICK P \in SUBSET (0..Len(q)) :
            /\ Tells(q, n, P)
            /\ 0 \in P <=> Heard(a, x, r, n)
            /\ Len(q) \in P <=> n \in keys
      BY <1>1, <3>1 DEF ControllerOK, InformedOf
    <3>4. /\ IF m = n
             THEN 1 \in P <=> op # "del"
             ELSE 1 \in P <=> 0 \in P
          /\ \E Q \in SUBSET (0..Len(Tail(q))) :
               /\ Tells(Tail(q), n, Q)
               /\ 0 \in Q <=> 1 \in P
               /\ Len(Tail(q)) \in Q <=> Len(q) \in P
      BY <1>1, <3>3, TellsTail
    <3>5. 1 \in P <=> Heard(a2, x2, r, n)
      BY <1>4, <2>1, <2>2, <3>1, <3>2, <3>3, <3>4 DEF Heard
    <3>6. InformedOf(Tail(q), a2, x2, r, n, keys)
      BY <3>3, <3>4, <3>5 DEF InformedOf
    <3> QED  BY <2>1, <2>2, <3>1, <3>2, <3>6
  <2> QED  BY <1>1, <2>3 DEF ControllerOK
<1>5. CASE op = "update"
  <2>1. x2 = x /\ a2 = a /\ c2 = c
    BY <1>5
  <2>2. ASSUME NEW n \in Node \ c
        PROVE  InformedOf(Tail(q), a, x, r, n, keys)
    <3>1. PICK P \in SUBSET (0..Len(q)) :
            /\ Tells(q, n, P)
            /\ 0 \in P <=> Heard(a, x, r, n)
            /\ Len(q) \in P <=> n \in keys
      BY <1>1 DEF ControllerOK, InformedOf
    <3>2. /\ IF m = n
             THEN (1 \in P <=> op # "del") /\ 0 \in P
             ELSE 1 \in P <=> 0 \in P
          /\ \E Q \in SUBSET (0..Len(Tail(q))) :
               /\ Tells(Tail(q), n, Q)
               /\ 0 \in Q <=> 1 \in P
               /\ Len(Tail(q)) \in Q <=> Len(q) \in P
      BY <1>1, <1>5, <3>1, TellsTail
    <3>3. 1 \in P <=> 0 \in P
      BY <1>5, <3>2
    <3> QED  BY <3>1, <3>2, <3>3 DEF InformedOf
  <2> QED  BY <1>1, <2>1, <2>2 DEF ControllerOK
<1> QED  BY <1>3, <1>4, <1>5

(* AddLoop takes a node from its channel into the ring. *)
LEMMA AddKeeps ==
    ASSUME NEW w, NEW q, NEW a, NEW x, NEW r, NEW c, NEW keys,
           ControllerOK(w, q, a, x, r, c, keys), a # <<>>,
           Room(r) \/ Head(a) \in r.addedNode
    PROVE  ControllerOK(w, q, Tail(a), x, AddNode(r, Head(a)), c, keys)
<1> DEFINE m == Head(a)
           b == Tail(a)
           s == AddNode(r, m)
<1>1. /\ q \in Seq(Event) /\ a \in Channel /\ a \in Seq(Node) /\ x \in Channel
      /\ Sound(r) /\ w = "yes"
  BY DEF ControllerOK, Channel
<1>2. m \in Node /\ b \in Channel
  BY <1>1, ChannelSteps
<1>3. Sound(s) /\ s.addedNode = r.addedNode \cup {m}
  BY <1>1, <1>2, AddNodeKeeps
<1>4. \A n : Holds(a, n) <=> m = n \/ Holds(b, n)
  BY <1>1, HoldsTail
<1> HIDE DEF m, b, s
<1>5. ASSUME NEW n \in Node \ c
      PROVE  ~(Holds(b, n) /\ Holds(x, n)) /\ InformedOf(q, b, x, s, n, keys)
  <2>1. ~(Holds(a, n) /\ Holds(x, n)) /\ InformedOf(q, a, x, r, n, keys)
    BY <1>1 DEF ControllerOK
  <2>2. Heard(b, x, s, n) <=> Heard(a, x, r, n)
    BY <1>3, <1>4, <2>1 DEF Heard
  <2> QED  BY <1>4, <2>1, <2>2 DEF InformedOf
<1> QED  BY <1>1, <1>2, <1>3, <1>5 DEF ControllerOK, m, b, s

(* DelLoop takes a node out of the ring. *)
LEMMA DelKeeps ==
    ASSUME NEW w, NEW q, NEW a, NEW x, NEW r, NEW c, NEW keys,
           ControllerOK(w, q, a, x, r, c, keys), x # <<>>
    PROVE  ControllerOK(w, q, a, Tail(x), DelNode(r, Head(x)), c, keys)
<1> DEFINE m == Head(x)
           b == Tail(x)
           s == DelNode(r, m)
<1>1. /\ q \in Seq(Event) /\ x \in Channel /\ x \in Seq(Node) /\ a \in Channel
      /\ Sound(r) /\ w = "yes"
  BY DEF ControllerOK, Channel
<1>2. m \in Node /\ b \in Channel
  BY <1>1, ChannelSteps
<1>3. Sound(s) /\ s.addedNode = r.addedNode \ {m}
  BY <1>1, <1>2, DelNodeKeeps
<1>4. \A n : Holds(x, n) <=> m = n \/ Holds(b, n)
  BY <1>1, HoldsTail
<1> HIDE DEF m, b, s
<1>5. ASSUME NEW n \in Node \ c
      PROVE  ~(Holds(a, n) /\ Holds(b, n)) /\ InformedOf(q, a, b, s, n, keys)
  <2>1. ~(Holds(a, n) /\ Holds(x, n)) /\ InformedOf(q, a, x, r, n, keys)
    BY <1>1 DEF ControllerOK
  <2>2. Heard(a, b, s, n) <=> Heard(a, x, r, n)
    BY <1>3, <1>4, <2>1 DEF Heard
  <2> QED  BY <1>4, <2>1, <2>2 DEF InformedOf
<1> QED  BY <1>1, <1>2, <1>3, <1>5 DEF ControllerOK, m, b, s

-----------------------------------------------------------------------------
(* The steps of the cluster. *)

LEMMA InitInv == Init => IInv
<1> SUFFICES ASSUME Init PROVE IInv
  OBVIOUS
<1>1. ElectionTypeOK
  BY ElectionAssumption DEF Init, ElectionInit, ElectionTypeOK, ElectPlace
<1>2. TypeOK
  <2>1. NewHashRing \in Ring /\ <<>> \in Channel /\ <<>> \in Seq(Event)
    BY NewRingSound, EmptyChannel DEF Sound
  <2>2. MaxChanges \in Nat
    BY ControllerAssumption
  <2> QED  BY <1>1, <2>1, <2>2 DEF Init, TypeOK
<1>3. IsFiniteSet(Keys)
  <2>1. Keys = {}
    BY DEF Init, Keys, Registered
  <2> QED  BY <2>1, FS_EmptySet
<1>4. ASSUME NEW d \in Observed
      PROVE  ControllerOK(watching[d], eventCh[d], addChan[d], delChan[d],
                          hr[d], crossed[d], Keys)
  <2>1. /\ watching[d] = "no" /\ eventCh[d] = <<>> /\ addChan[d] = <<>>
        /\ delChan[d] = <<>> /\ hr[d] = NewHashRing
    BY DEF Init
  <2>2. ControllerOK("no", <<>>, <<>>, <<>>, NewHashRing, crossed[d], Keys)
    BY NewControllerOK
  <2> QED  BY <2>1, <2>2
<1> QED  BY <1>2, <1>3, <1>4 DEF IInv, ControllersOK

LEMMA FaultTyped == ElectionTypeOK /\ Fault => faults' \in 0..MaxFaults
BY ElectionAssumption DEF ElectionTypeOK, Fault

LEMMA ElectionTyped == ElectionTypeOK /\ ElectionNext => ElectionTypeOK'
<1> SUFFICES ASSUME ElectionTypeOK, ElectionNext PROVE ElectionTypeOK'
  OBVIOUS
<1> USE DEF ElectionTypeOK
<1>1. \A d \in Dashes, place \in ElectPlace :
        ElectGoto(d, place) => elect' \in [Dashes -> ElectPlace]
  BY DEF ElectGoto
<1>2. "off" \in ElectPlace /\ "loop" \in ElectPlace /\ "over" \in ElectPlace
  BY DEF ElectPlace
<1>3. \A d \in Dashes : leaseOf[d] \in live /\ Created(d) =>
        leader' \in [ElectorID : Dashes, LeaseID : Lease]
  BY DEF Created
<1>4. ASSUME NEW d \in Dashes, Elect(d) PROVE ElectionTypeOK'
  <2> DEFINE i == CHOOSE i \in Lease \ Referred : TRUE
  <2>1. i \in Lease
    BY <1>4 DEF Elect
  <2>2. leaseOf' = [leaseOf EXCEPT ![d] = i] /\ live' = live \cup {i}
    BY <1>4 DEF Elect
  <2> HIDE DEF i
  <2>3. elect' \in [Dashes -> ElectPlace] /\ UNCHANGED <<leader, faults>>
    BY <1>1, <1>2, <1>4 DEF Elect
  <2> QED  BY <2>1, <2>2, <2>3
<1>5. ASSUME NEW d \in Dashes, GrantFails(d) PROVE ElectionTypeOK'
  BY <1>1, <1>2, <1>5, FaultTyped DEF GrantFails
<1>6. ASSUME NEW d \in Dashes, Campaign(d) PROVE ElectionTypeOK'
  BY <1>1, <1>2, <1>3, <1>6 DEF Campaign
<1>7. ASSUME NEW d \in Dashes, CampaignFails(d) PROVE ElectionTypeOK'
  BY <1>1, <1>2, <1>3, <1>7, FaultTyped DEF CampaignFails
<1>8. ASSUME NEW i \in Lease, Expire(i) PROVE ElectionTypeOK'
  BY <1>8 DEF Expire, EndLease
<1>9. ASSUME NEW i \in Lease, LoseLease(i) PROVE ElectionTypeOK'
  BY <1>9, FaultTyped DEF LoseLease, EndLease
<1> QED  BY <1>4, <1>5, <1>6, <1>7, <1>8, <1>9 DEF ElectionNext

(* What the registry does to its keys, and what it tells. *)
LEMMA RegistryTells ==
    ASSUME TypeOK, NEW n \in Node, Registry(n) \/ Expiry(n)
    PROVE  /\ UNCHANGED <<watching, addChan, delChan, hr, crossed, electionVars>>
           /\ up' \in SUBSET Node /\ key' \in [Node -> {"own", "old", None}]
           /\ changes' \in 0..MaxChanges
           /\ \/ eventCh' = eventCh /\ Keys' = Keys
              \/ \E op \in {"add", "update", "del"} :
                    /\ Notify(op, n)
                    /\ n \in Keys' <=> op # "del"
                    /\ op = "update" => n \in Keys
                    /\ \A m \in Node : m # n => (m \in Keys' <=> m \in Keys)
<1> DEFINE Says(op) == /\ Notify(op, n)
                       /\ n \in Keys' <=> op # "del"
                       /\ op = "update" => n \in Keys
                       /\ \A m \in Node : m # n => (m \in Keys' <=> m \in Keys)
           Typed == /\ up' \in SUBSET Node
                    /\ key' \in [Node -> {"own", "old", None}]
<1>1. /\ up \in SUBSET Node /\ key \in [Node -> {"own", "old", None}]
      /\ changes \in 0..MaxChanges
  BY DEF TypeOK
<1>2. None \notin {"own", "old"} /\ MaxChanges \in Nat
  BY ControllerAssumption
<1>3. UNCHANGED <<watching, addChan, delChan, hr, crossed, electionVars>>
  BY DEF Registry, Expiry
<1>4. Change => changes' \in 0..MaxChanges
  BY <1>1, <1>2 DEF Change
<1>5. ASSUME Register(n)
      PROVE  /\ Typed /\ changes' \in 0..MaxChanges
             /\ \E op \in {"add", "update"} : Says(op)
  <2>1. up' = up \cup {n} /\ key' = [key EXCEPT ![n] = "own"]
    BY <1>5 DEF Register, Bind
  <2>2. PICK op \in {"add", "update"} :
          Notify(op, n) /\ (op = "update" => Registered(n))
    BY <1>5, Zenon DEF Register
  <2>3. Says(op)
    BY <1>1, <1>2, <2>1, <2>2 DEF Keys, Registered
  <2> QED  BY <1>1, <1>4, <1>5, <2>1, <2>2, <2>3 DEF Register
<1>6. ASSUME RegisterUnseen(n)
      PROVE  /\ Typed /\ changes' \in 0..MaxChanges
             /\ eventCh' = eventCh /\ Keys' = Keys
  BY <1>1, <1>4, <1>6 DEF RegisterUnseen, Keys, Registered
<1>7. ASSUME ServerDies(n)
      PROVE  /\ Typed /\ changes' \in 0..MaxChanges
             /\ eventCh' = eventCh /\ Keys' = Keys
  BY <1>1, <1>2, <1>4, <1>7 DEF ServerDies, Keys, Registered
<1>8. ASSUME KeyEnds(n) PROVE Typed /\ Says("del")
  BY <1>1, <1>8 DEF KeyEnds, Bind, Keys, Registered
<1>9. ASSUME KeyLost(n) PROVE Typed /\ changes' \in 0..MaxChanges /\ Says("del")
  BY <1>4, <1>8, <1>9 DEF KeyLost
<1>10. ASSUME KeyExpires(n)
       PROVE  Typed /\ changes' \in 0..MaxChanges /\ Says("del")
  BY <1>1, <1>8, <1>10 DEF KeyExpires
<1> HIDE DEF Typed
<1>11. /\ Typed /\ changes' \in 0..MaxChanges
       /\ \/ eventCh' = eventCh /\ Keys' = Keys
          \/ \E op \in {"add", "update", "del"} : Says(op)
  <2> HIDE DEF Says
  <2> QED  BY <1>5, <1>6, <1>7, <1>9, <1>10 DEF Registry, Expiry
<1> QED  BY <1>3, <1>11 DEF Typed

LEMMA RegistryStep ==
    ASSUME IInv, NEW n \in Node, Registry(n) \/ Expiry(n)
    PROVE  IInv'
<1>1. /\ UNCHANGED <<watching, addChan, delChan, hr, crossed, electionVars>>
      /\ up' \in SUBSET Node /\ key' \in [Node -> {"own", "old", None}]
      /\ changes' \in 0..MaxChanges
  BY RegistryTells DEF IInv
<1>2. \/ eventCh' = eventCh /\ Keys' = Keys
      \/ \E op \in {"add", "update", "del"} :
            /\ Notify(op, n)
            /\ n \in Keys' <=> op # "del"
            /\ op = "update" => n \in Keys
            /\ \A m \in Node : m # n => (m \in Keys' <=> m \in Keys)
  BY RegistryTells DEF IInv
<1>3. /\ \A d \in Observed : ControllerOK(watching[d], eventCh[d], addChan[d],
                                delChan[d], hr[d], crossed[d], Keys)
      /\ eventCh \in [Observed -> Seq(Event)]
  BY DEF IInv, ControllersOK, TypeOK
<1>4. Keys' \subseteq Keys \cup {n}
  BY <1>2 DEF Keys
<1>5. IsFiniteSet(Keys')
  <2>1. IsFiniteSet(Keys \cup {n})
    BY FS_AddElement DEF IInv
  <2> QED  BY <1>4, <2>1, FS_Subset
<1>6. /\ eventCh' \in [Observed -> Seq(Event)]
      /\ \A d \in Observed : ControllerOK(watching[d], eventCh'[d], addChan[d],
                                delChan[d], hr[d], crossed[d], Keys')
  <2>1. CASE eventCh' = eventCh /\ Keys' = Keys
    BY <1>3, <2>1
  <2>2. ASSUME NEW op \in {"add", "update", "del"},
               Notify(op, n),
               n \in Keys' <=> op # "del",
               op = "update" => n \in Keys,
               \A m \in Node : m # n => (m \in Keys' <=> m \in Keys)
        PROVE  /\ eventCh' \in [Observed -> Seq(Event)]
               /\ \A d \in Observed : ControllerOK(watching[d], eventCh'[d],
                        addChan[d], delChan[d], hr[d], crossed[d], Keys')
    <3> DEFINE e == <<op, n>>
    <3>1. e \in Event /\ e[1] = op /\ e[2] = n
      BY DEF Event
    <3>2. eventCh' = [d \in Observed |-> IF watching[d] = "yes"
                        THEN Append(eventCh[d], e) ELSE eventCh[d]]
      BY <2>2 DEF Notify
    <3> HIDE DEF e
    <3>3. eventCh' \in [Observed -> Seq(Event)]
      BY <1>3, <3>1, <3>2
    <3>4. ASSUME NEW d \in Observed
          PROVE  ControllerOK(watching[d], eventCh'[d], addChan[d], delChan[d],
                              hr[d], crossed[d], Keys')
      <4>1. CASE watching[d] = "yes"
        <5>1. eventCh'[d] = Append(eventCh[d], e)
          BY <3>2, <4>1
        <5>2. ControllerOK("yes", eventCh[d], addChan[d], delChan[d], hr[d],
                           crossed[d], Keys)
          BY <1>3, <4>1
        <5>3. ControllerOK("yes", Append(eventCh[d], e), addChan[d], delChan[d],
                           hr[d], crossed[d], Keys')
          BY <2>2, <3>1, <5>2, NotifyKeeps
        <5> QED  BY <4>1, <5>1, <5>3
      <4>2. CASE watching[d] # "yes"
        <5>1. eventCh'[d] = eventCh[d]
          BY <3>2, <4>2
        <5> QED  BY <1>3, <4>2, <5>1, UntoldKeeps
      <4> QED  BY <4>1, <4>2
    <3> QED  BY <3>3, <3>4
  <2> QED  BY <1>2, <2>1, <2>2
<1>7. TypeOK'
  BY <1>1, <1>6 DEF IInv, TypeOK, ElectionTypeOK, electionVars
<1>8. ControllersOK'
  BY <1>1, <1>6 DEF ControllersOK
<1> QED  BY <1>5, <1>7, <1>8 DEF IInv

(* The controllers' variables after a step of dash d alone. *)
Put(f, d, v) == [o \in Observed |-> IF o = d THEN v ELSE f[o]]

(* A step of one controller that leaves it well keeps the invariant. *)
LEMMA OneController ==
    ASSUME IInv, UNCHANGED registryVars, ElectionTypeOK',
           NEW d, NEW w \in {"no", "yes", "dead"}, NEW q, NEW a, NEW x, NEW r,
           NEW c \in SUBSET Node,
           ControllerOK(w, q, a, x, r, c, Keys),
           watching' = Put(watching, d, w), eventCh' = Put(eventCh, d, q),
           addChan' = Put(addChan, d, a), delChan' = Put(delChan, d, x),
           hr' = Put(hr, d, r), crossed' = Put(crossed, d, c)
    PROVE  IInv'
<1>1. Keys' = Keys
  BY DEF Keys, Registered, registryVars
<1>2. q \in Seq(Event) /\ a \in Channel /\ x \in Channel /\ r \in Ring
  BY DEF ControllerOK, Sound
<1>3. TypeOK'
  BY <1>2 DEF IInv, TypeOK, registryVars, Put
<1>4. ASSUME NEW o \in Observed
      PROVE  ControllerOK(watching'[o], eventCh'[o], addChan'[o], delChan'[o],
                          hr'[o], crossed'[o], Keys)
  <2>1. CASE o = d
    <3>1. /\ watching'[o] = w /\ eventCh'[o] = q /\ addChan'[o] = a
          /\ delChan'[o] = x /\ hr'[o] = r /\ crossed'[o] = c
      BY <2>1 DEF Put
    <3> QED  BY <3>1
  <2>2. CASE o # d
    <3>1. /\ watching'[o] = watching[o] /\ eventCh'[o] = eventCh[o]
          /\ addChan'[o] = addChan[o] /\ delChan'[o] = delChan[o]
          /\ hr'[o] = hr[o] /\ crossed'[o] = crossed[o]
      BY <2>2 DEF Put
    <3>2. ControllerOK(watching[o], eventCh[o], addChan[o], delChan[o], hr[o],
                       crossed[o], Keys)
      BY DEF IInv, ControllersOK
    <3> QED  BY <3>1, <3>2
  <2> QED  BY <2>1, <2>2
<1>5. ControllersOK'
  BY <1>1, <1>4 DEF ControllersOK
<1> QED  BY <1>1, <1>3, <1>5 DEF IInv

LEMMA ControlStep ==
    ASSUME IInv, NEW d \in Observed, Control(d) \/ WatchFails(d)
    PROVE  IInv'
<1>1. /\ ControllerOK(watching[d], eventCh[d], addChan[d], delChan[d], hr[d],
                      crossed[d], Keys)
      /\ IsFiniteSet(Keys) /\ Keys \in SUBSET Node
  BY DEF IInv, ControllersOK, Keys
<1>2. /\ watching \in [Observed -> {"no", "yes", "dead"}]
      /\ eventCh \in [Observed -> Seq(Event)]
      /\ addChan \in [Observed -> Channel]
      /\ delChan \in [Observed -> Channel]
      /\ hr \in [Observed -> Ring]
      /\ crossed \in [Observed -> SUBSET Node]
      /\ ElectionTypeOK
  BY DEF IInv, TypeOK
<1>3. /\ watching = Put(watching, d, watching[d])
      /\ eventCh = Put(eventCh, d, eventCh[d])
      /\ addChan = Put(addChan, d, addChan[d])
      /\ delChan = Put(delChan, d, delChan[d])
      /\ hr = Put(hr, d, hr[d])
      /\ crossed = Put(crossed, d, crossed[d])
  BY <1>2 DEF Put
<1>4. UNCHANGED electionVars => ElectionTypeOK'
  BY <1>2 DEF ElectionTypeOK, electionVars
<1>5. watching[d] \in {"no", "yes", "dead"} /\ crossed[d] \in SUBSET Node
  BY <1>2
<1>6. CASE Watch(d)
  <2> DEFINE q == SetToSeq({<<"add", n>> : n \in Keys})
  <2>1. watching' = Put(watching, d, "yes") /\ eventCh' = Put(eventCh, d, q)
    <3>1. /\ watching' = [watching EXCEPT ![d] = "yes"]
          /\ eventCh' = [eventCh EXCEPT ![d] = q]
      BY <1>6 DEF Watch, Keys
    <3> HIDE DEF q
    <3> QED  BY <1>2, <3>1 DEF Put
  <2>2. ControllerOK("yes", q, addChan[d], delChan[d], hr[d], crossed[d], Keys)
    <3>1. watching[d] # "yes"
      BY <1>6 DEF Watch
    <3> QED  BY <1>1, <3>1, WatchKeeps
  <2>3. /\ UNCHANGED registryVars /\ ElectionTypeOK'
        /\ addChan' = addChan /\ delChan' = delChan /\ hr' = hr
        /\ crossed' = crossed
    BY <1>4, <1>6 DEF Watch
  <2> HIDE DEF q
  <2> QED  BY <1>3, <1>5, <2>1, <2>2, <2>3, OneController
<1>7. CASE Deal(d)
  <2> DEFINE q == eventCh[d]
             op == Head(q)[1]
             n == Head(q)[2]
             a == addChan[d]
             x == delChan[d]
             c == crossed[d]
  <2>1. /\ q # <<>> /\ eventCh' = [eventCh EXCEPT ![d] = Tail(q)]
        /\ UNCHANGED <<registryVars, watching, hr, electionVars>>
    BY <1>7 DEF Deal
  <2>2. n \in Node /\ a \in Channel /\ x \in Channel
    <3>1. q \in Seq(Event) /\ Head(q) \in Event
      BY <1>2, <2>1
    <3> QED  BY <1>2, <3>1 DEF Event
  <2>3. PICK a2 \in Channel, x2 \in Channel, c2 \in SUBSET Node :
          /\ \/ /\ op = "add" /\ a2 = Append(a, n) /\ x2 = x
                /\ c2 = IF Holds(x, n) THEN c \cup {n} ELSE c
             \/ /\ op = "del" /\ x2 = Append(x, n) /\ a2 = a
                /\ c2 = IF Holds(a, n) THEN c \cup {n} ELSE c
             \/ /\ op = "update" /\ a2 = a /\ x2 = x /\ c2 = c
          /\ addChan' = Put(addChan, d, a2) /\ delChan' = Put(delChan, d, x2)
          /\ crossed' = Put(crossed, d, c2)
    <3>1. CASE /\ op = "add" /\ Len(a) <= eventQueueLen
               /\ addChan' = [addChan EXCEPT ![d] = Append(a, n)]
               /\ crossed' = [crossed EXCEPT ![d] =
                                IF Holds(x, n) THEN c \cup {n} ELSE c]
               /\ delChan' = delChan
      <4> DEFINE a2 == Append(a, n)
                 c2 == IF Holds(x, n) THEN c \cup {n} ELSE c
      <4>1. a2 \in Channel /\ c2 \in SUBSET Node
        BY <1>5, <2>2, <3>1, ChannelSteps
      <4>2. /\ op = "add" /\ addChan' = [addChan EXCEPT ![d] = a2]
            /\ crossed' = [crossed EXCEPT ![d] = c2] /\ delChan' = delChan
        BY <3>1
      <4>3. a2 = Append(a, n) /\ c2 = IF Holds(x, n) THEN c \cup {n} ELSE c
        OBVIOUS
      <4> HIDE DEF a2, c2
      <4>4. /\ addChan' = Put(addChan, d, a2) /\ delChan' = Put(delChan, d, x)
            /\ crossed' = Put(crossed, d, c2)
        BY <1>2, <1>3, <4>2 DEF Put
      <4>5. x \in Channel
        BY <2>2
      <4> HIDE DEF op, n, a, x, c
      <4> USE <4>1, <4>5
      <4> WITNESS a2 \in Channel, x \in Channel, c2 \in SUBSET Node
      <4> QED  BY <4>2, <4>3, <4>4
    <3>2. CASE /\ op = "del" /\ Len(x) <= eventQueueLen
               /\ delChan' = [delChan EXCEPT ![d] = Append(x, n)]
               /\ crossed' = [crossed EXCEPT ![d] =
                                IF Holds(a, n) THEN c \cup {n} ELSE c]
               /\ addChan' = addChan
      <4> DEFINE x2 == Append(x, n)
                 c2 == IF Holds(a, n) THEN c \cup {n} ELSE c
      <4>1. x2 \in Channel /\ c2 \in SUBSET Node
        BY <1>5, <2>2, <3>2, ChannelSteps
      <4>2. /\ op = "del" /\ delChan' = [delChan EXCEPT ![d] = x2]
            /\ crossed' = [crossed EXCEPT ![d] = c2] /\ addChan' = addChan
        BY <3>2
      <4>3. x2 = Append(x, n) /\ c2 = IF Holds(a, n) THEN c \cup {n} ELSE c
        OBVIOUS
      <4> HIDE DEF x2, c2
      <4>4. /\ delChan' = Put(delChan, d, x2) /\ addChan' = Put(addChan, d, a)
            /\ crossed' = Put(crossed, d, c2)
        BY <1>2, <1>3, <4>2 DEF Put
      <4>5. a \in Channel
        BY <2>2
      <4> HIDE DEF op, n, a, x, c
      <4> USE <4>1, <4>5
      <4> WITNESS a \in Channel, x2 \in Channel, c2 \in SUBSET Node
      <4> QED  BY <4>2, <4>3, <4>4
    <3>3. CASE op = "update" /\ UNCHANGED <<addChan, delChan, crossed>>
      BY <1>3, <1>5, <2>2, <3>3
    <3> QED  BY <1>7, <3>1, <3>2, <3>3 DEF Deal
  <2>4. ControllerOK(watching[d], Tail(q), a2, x2, hr[d], c2, Keys)
    BY <1>1, <2>1, <2>3, DealKeeps
  <2>5. eventCh' = Put(eventCh, d, Tail(q))
    BY <1>2, <2>1 DEF Put
  <2>6. /\ UNCHANGED registryVars /\ ElectionTypeOK'
        /\ watching' = watching /\ hr' = hr
    BY <1>4, <2>1
  <2> HIDE DEF q
  <2> QED  BY <1>3, <1>5, <2>3, <2>4, <2>5, <2>6, OneController
<1>8. CASE AddLoop(d)
  <2> DEFINE a == Tail(addChan[d])
             r == AddNode(hr[d], Head(addChan[d]))
  <2>1. /\ addChan' = [addChan EXCEPT ![d] = a] /\ hr' = [hr EXCEPT ![d] = r]
        /\ addChan[d] # <<>>
        /\ Room(hr[d]) \/ Head(addChan[d]) \in hr[d].addedNode
        /\ UNCHANGED <<registryVars, watching, eventCh, delChan, crossed,
                       electionVars>>
    BY <1>8 DEF AddLoop
  <2>2. ControllerOK(watching[d], eventCh[d], a, delChan[d], r, crossed[d], Keys)
    BY <1>1, <2>1, AddKeeps
  <2> HIDE DEF a, r
  <2>3. addChan' = Put(addChan, d, a) /\ hr' = Put(hr, d, r)
    BY <1>2, <2>1 DEF Put
  <2>4. /\ UNCHANGED registryVars /\ ElectionTypeOK'
        /\ watching' = watching /\ eventCh' = eventCh /\ delChan' = delChan
        /\ crossed' = crossed
    BY <1>4, <2>1
  <2> QED  BY <1>3, <1>5, <2>2, <2>3, <2>4, OneController
<1>9. CASE DelLoop(d)
  <2> DEFINE x == Tail(delChan[d])
             r == DelNode(hr[d], Head(delChan[d]))
  <2>1. /\ delChan' = [delChan EXCEPT ![d] = x] /\ hr' = [hr EXCEPT ![d] = r]
        /\ delChan[d] # <<>>
        /\ UNCHANGED <<registryVars, watching, eventCh, addChan, crossed,
                       electionVars>>
    BY <1>9 DEF DelLoop
  <2>2. ControllerOK(watching[d], eventCh[d], addChan[d], x, r, crossed[d], Keys)
    BY <1>1, <2>1, DelKeeps
  <2> HIDE DEF x, r
  <2>3. delChan' = Put(delChan, d, x) /\ hr' = Put(hr, d, r)
    BY <1>2, <2>1 DEF Put
  <2>4. /\ UNCHANGED registryVars /\ ElectionTypeOK'
        /\ watching' = watching /\ eventCh' = eventCh /\ addChan' = addChan
        /\ crossed' = crossed
    BY <1>4, <2>1
  <2> QED  BY <1>3, <1>5, <2>2, <2>3, <2>4, OneController
<1>10. CASE WatchFails(d)
  <2>1. /\ watching' = [watching EXCEPT ![d] = "dead"] /\ watching[d] = "no"
        /\ UNCHANGED <<registryVars, eventCh, addChan, delChan, hr, crossed,
                       elect, leaseOf, live, leader>>
        /\ Fault
    BY <1>10 DEF WatchFails
  <2>2. ControllerOK("dead", eventCh[d], addChan[d], delChan[d], hr[d],
                     crossed[d], Keys)
    BY <1>1, <2>1 DEF ControllerOK
  <2>3. watching' = Put(watching, d, "dead")
    BY <1>2, <2>1 DEF Put
  <2>4. UNCHANGED registryVars /\ ElectionTypeOK'
    BY <1>2, <2>1, FaultTyped DEF ElectionTypeOK
  <2> QED  BY <1>3, <1>5, <2>1, <2>2, <2>3, <2>4, OneController
<1> QED  BY <1>6, <1>7, <1>8, <1>9, <1>10 DEF Control

LEMMA CrashStep ==
    ASSUME IInv, NEW d \in Dashes, DashCrash(d)
    PROVE  IInv'
<1>1. ElectionTypeOK'
  <2>1. /\ ElectionTypeOK /\ Fault /\ elect' = [elect EXCEPT ![d] = "off"]
        /\ leaseOf' = [leaseOf EXCEPT ![d] = Nobody]
        /\ UNCHANGED <<live, leader>>
    BY DEF IInv, TypeOK, DashCrash, ElectCrash, ElectGoto
  <2>2. faults' \in 0..MaxFaults
    BY <2>1, FaultTyped
  <2> QED  BY <2>1, <2>2 DEF ElectionTypeOK, ElectPlace
<1>2. /\ watching' = Put(watching, d, "no") /\ eventCh' = Put(eventCh, d, <<>>)
      /\ addChan' = Put(addChan, d, <<>>) /\ delChan' = Put(delChan, d, <<>>)
      /\ hr' = Put(hr, d, NewHashRing) /\ crossed' = Put(crossed, d, {})
      /\ UNCHANGED registryVars
  BY DEF DashCrash, Put
<1>3. ControllerOK("no", <<>>, <<>>, <<>>, NewHashRing, {}, Keys)
  BY NewControllerOK
<1> QED  BY <1>1, <1>2, <1>3, OneController

LEMMA StepInv == IInv /\ [Next]_vars => IInv'
<1> SUFFICES ASSUME IInv, [Next]_vars PROVE IInv'
  OBVIOUS
<1>1. ASSUME UNCHANGED <<registryVars, controllerVars>>, ElectionTypeOK'
      PROVE  IInv'
  <2>1. Keys' = Keys
    BY <1>1 DEF Keys, Registered, registryVars
  <2>2. TypeOK'
    BY <1>1 DEF IInv, TypeOK, registryVars, controllerVars
  <2>3. ControllersOK'
    BY <1>1, <2>1 DEF IInv, ControllersOK, controllerVars
  <2> QED  BY <2>1, <2>2, <2>3 DEF IInv
<1>2. CASE UNCHANGED vars
  <2>1. ElectionTypeOK'
    BY <1>2 DEF vars, IInv, TypeOK, ElectionTypeOK, electionVars
  <2> QED  BY <1>1, <1>2, <2>1 DEF vars
<1>3. CASE \E n \in Node : Registry(n) \/ Expiry(n)
  BY <1>3, RegistryStep
<1>4. CASE \E d \in Observed : Control(d) \/ WatchFails(d)
  BY <1>4, ControlStep
<1>5. CASE \E d \in Dashes : DashCrash(d)
  BY <1>5, CrashStep
<1>6. CASE ElectionNext /\ UNCHANGED <<registryVars, controllerVars>>
  <2>1. ElectionTypeOK'
    BY <1>6, ElectionTyped DEF IInv, TypeOK
  <2> QED  BY <1>1, <1>6, <2>1
<1> QED  BY <1>2, <1>3, <1>4, <1>5, <1>6 DEF Next

-----------------------------------------------------------------------------

(* The invariant gives both properties of the rings. *)
LEMMA RingsAgree == IInv => RingConsistent
<1> SUFFICES ASSUME IInv, NEW d \in Observed
             PROVE  /\ \A v \in VNode : hr[d].nodeVNameMap[v] # None
                                          <=> v[1] \in hr[d].addedNode
                    /\ \A s \in Slot, v \in VNode :
                         hr[d].vnodeSlice[s] = v <=> hr[d].nodeVNameMap[v] = s
  BY DEF RingConsistent
<1>1. Sound(hr[d])
  BY DEF IInv, ControllersOK, ControllerOK
<1> QED  BY <1>1 DEF Sound, Agree, Owned, OfNodes

LEMMA RingsInformed == IInv => RingFollowsRegistry
<1> SUFFICES ASSUME IInv, NEW d \in Observed, NEW n \in Node \ crossed[d],
                    Told(d, n)
             PROVE  n \in hr[d].addedNode <=> Registered(n)
  BY DEF RingFollowsRegistry
<1> DEFINE q == eventCh[d]
<1>1. /\ q \in Seq(Event)
      /\ InformedOf(q, addChan[d], delChan[d], hr[d], n, Keys)
  BY DEF IInv, ControllersOK, ControllerOK, Told
<1>2. PICK P \in SUBSET (0..Len(q)) :
        /\ Tells(q, n, P)
        /\ 0 \in P <=> Heard(addChan[d], delChan[d], hr[d], n)
        /\ Len(q) \in P <=> n \in Keys
  BY <1>1 DEF InformedOf
<1>3. ASSUME NEW i \in 1..Len(q) PROVE q[i][2] # n
  <2>1. /\ q[i] = <<q[i][1], q[i][2]>>
        /\ q[i][1] \in {"add", "update", "del"}
    <3>1. q[i] \in Event
      BY <1>1
    <3> QED  BY <3>1 DEF Event
  <2>2. ~\E op \in {"add", "update", "del"} : q[i] = <<op, n>>
    BY DEF Told, Holds
  <2> QED  BY <2>1, <2>2
<1>4. Len(q) \in P <=> 0 \in P
  BY <1>1, <1>2, <1>3, TellsNothing
<1>5. Heard(addChan[d], delChan[d], hr[d], n) <=> n \in hr[d].addedNode
  BY DEF Told, Heard
<1> QED  BY <1>2, <1>4, <1>5 DEF Keys

(***************************************************************************)
(* For any number of dashes, search servers, slots, virtual nodes and      *)
(* failures: the tables of every ring agree after every AddNode and        *)
(* DelNode, and a ring that has been told everything about a node that has *)
(* not crossed in its channels has it just when it is registered           *)
(* (NewDashController, GetSucker, SuckLoop, AddLoop, DelLoop).             *)
(***************************************************************************)
THEOREM RingsSafe == Spec => [](TypeOK /\ RingConsistent /\ RingFollowsRegistry)
<1>1. IInv => TypeOK /\ RingConsistent /\ RingFollowsRegistry
  BY RingsAgree, RingsInformed DEF IInv
<1> QED  BY <1>1, InitInv, StepInv, PTL DEF Spec

(* The types of the cluster's variables, among them that no channel of a
   controller ever holds more than eventQueueLen nodes beside the one in its
   goroutine's hand. *)
THEOREM ControllerTyped == Spec => []TypeOK
BY RingsSafe, PTL

(* The three tables that AddNode and DelNode keep by hand agree. *)
THEOREM TablesAgree == Spec => []RingConsistent
BY RingsSafe, PTL

(* A ring that has been told everything follows the registry. *)
THEOREM ToldRingIsRight == Spec => []RingFollowsRegistry
BY RingsSafe, PTL

=============================================================================
