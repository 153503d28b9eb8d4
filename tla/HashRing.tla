------------------------------ MODULE HashRing ------------------------------
(***************************************************************************)
(* The consistent hash ring of the vendored package hashring: a table of   *)
(* slots in which every node owns vNodeNum virtual nodes.  A ring is the   *)
(* three structures AddNode and DelNode keep by hand.                      *)
(***************************************************************************)
EXTENDS Naturals, Sequences, FiniteSets

CONSTANTS
    Node,           \* addresses of search servers
    slotNum,
    vNodeNum,
    hashToSlot,     \* the slots the symbol names of a virtual node hash to
    None

Slot == 0..(slotNum - 1)
VNode == Node \X (1..vNodeNum)

ASSUME HashRingAssumption ==
    /\ slotNum \in Nat \ {0} /\ vNodeNum \in Nat \ {0}
    /\ hashToSlot \in [VNode -> Seq(Slot)]
    /\ \A v \in VNode : Slot = {hashToSlot[v][j] : j \in DOMAIN hashToSlot[v]}
    /\ None \notin Node \cup VNode \cup Slot

Ring == [vnodeSlice : [Slot -> VNode \cup {None}],
         nodeVNameMap : [VNode -> Slot \cup {None}],
         addedNode : SUBSET Node]

NewHashRing ==
    [vnodeSlice |-> [s \in Slot |-> None],
     nodeVNameMap |-> [v \in VNode |-> None],
     addedNode |-> {}]

(* The first free slot among those v hashes to with j = 0, 1, ... *)
FreeSlot(r, v) ==
    LET free(j) == r.vnodeSlice[hashToSlot[v][j]] = None
        first == CHOOSE j \in DOMAIN hashToSlot[v] :
                    free(j) /\ \A i \in 1..(j - 1) : ~free(i)
    IN  hashToSlot[v][first]

Place(r, v) ==
    LET s == FreeSlot(r, v) IN
    [r EXCEPT !.vnodeSlice[s] = v, !.nodeVNameMap[v] = s]

(* AddNode loops for ever, under the lock, when the slots run out. *)
Room(r) == Cardinality({s \in Slot : r.vnodeSlice[s] = None}) >= vNodeNum

(* AddNode refuses a node that is there; else it places the virtual nodes
   one after the other. *)
AddNode(r, n) ==
    LET placed[i \in 0..vNodeNum] ==
            IF i = 0 THEN r ELSE Place(placed[i - 1], <<n, i>>)
    IN  IF n \in r.addedNode THEN r
        ELSE [placed[vNodeNum] EXCEPT !.addedNode = @ \cup {n}]

DelNode_SlotsStay(r, n) ==      \* mutant: only the map forgets the node
    IF n \notin r.addedNode THEN r
    ELSE [r EXCEPT
            !.nodeVNameMap = [v \in VNode |-> IF v[1] = n THEN None ELSE @[v]],
            !.addedNode = @ \ {n}]

DelNode_StaysAdded(r, n) ==     \* mutant: addedNode keeps the node
    IF n \notin r.addedNode THEN r
    ELSE [vnodeSlice |-> [s \in Slot |->
              IF \E i \in 1..vNodeNum : r.nodeVNameMap[<<n, i>>] = s
              THEN None ELSE r.vnodeSlice[s]],
          nodeVNameMap |-> [v \in VNode |->
              IF v[1] = n THEN None ELSE r.nodeVNameMap[v]],
          addedNode |-> r.addedNode]

(* DelNode refuses a node that is not there. *)
DelNode(r, n) ==
    IF n \notin r.addedNode THEN r
    ELSE [vnodeSlice |-> [s \in Slot |->
              IF \E i \in 1..vNodeNum : r.nodeVNameMap[<<n, i>>] = s
              THEN None ELSE r.vnodeSlice[s]],
          nodeVNameMap |-> [v \in VNode |->
              IF v[1] = n THEN None ELSE r.nodeVNameMap[v]],
          addedNode |-> r.addedNode \ {n}]

=============================================================================
