----------------------------- MODULE Controller -----------------------------
(***************************************************************************)
(* What dash processes know of the cluster: the registry of search servers *)
(* in etcd (Register, src/lib/etcd/etcd.go), the event controller that     *)
(* each dash runs (NewDashController, src/server/server.go, and the        *)
(* vendored event-controller) with the hash ring it keeps, beside the      *)
(* dash's election.                                                        *)
(*                                                                         *)
(* A controller reads the registry once and then watches it.  One          *)
(* goroutine deals the events out to a channel for adding, one for         *)
(* updating and one for deleting; three goroutines empty them, so that an  *)
(* add and a delete of one node may change places.  A goroutine receives   *)
(* an event and then calls its function: addChan and delChan stand for a   *)
(* channel with, at its head, the event its goroutine has in hand.         *)
(***************************************************************************)
EXTENDS HashRing, Election, SequencesExt

CONSTANTS
    Observed,       \* the dashes whose controllers are modelled
    eventQueueLen,  \* capacity of each channel
    MaxChanges      \* bound: registrations and deaths of search servers

ASSUME ControllerAssumption ==
    /\ Observed \subseteq Dashes
    /\ eventQueueLen \in Nat /\ MaxChanges \in Nat
    /\ None \notin {"own", "old"}

VARIABLES
    up,             \* search servers that serve
    key,            \* etcd: how the key of a node is bound to a lease
    changes,
    watching,       \* the watch of a dash: "no", "yes", or "dead"
    eventCh,        \* events on their way to a dash
    addChan, delChan,   \* events in a channel or in hand, not yet applied
    hr,             \* the ring of a dash
    crossed         \* history: nodes with an add and a delete not applied at once

registryVars == <<up, key, changes>>
controllerVars == <<watching, eventCh, addChan, delChan, hr, crossed>>
vars == <<registryVars, controllerVars, electionVars>>

(* A key is bound to the lease its server keeps alive ("own"), to one that
   nobody keeps alive ("old"), or it is not there. *)
Registered(n) == key[n] # None

Event == {"add", "update", "del"} \X Node
Channel == {s \in Seq(Node) : Len(s) <= eventQueueLen + 1}

TypeOK ==
    /\ ElectionTypeOK
    /\ up \in SUBSET Node
    /\ key \in [Node -> {"own", "old", None}]
    /\ changes \in 0..MaxChanges
    /\ watching \in [Observed -> {"no", "yes", "dead"}]
    /\ eventCh \in [Observed -> Seq(Event)]
    /\ addChan \in [Observed -> Channel]
    /\ delChan \in [Observed -> Channel]
    /\ hr \in [Observed -> Ring]
    /\ crossed \in [Observed -> SUBSET Node]

Init ==
    /\ ElectionInit
    /\ up = {}
    /\ key = [n \in Node |-> None]
    /\ changes = 0
    /\ watching = [d \in Observed |-> "no"]
    /\ eventCh = [d \in Observed |-> <<>>]
    /\ addChan = [d \in Observed |-> <<>>]
    /\ delChan = [d \in Observed |-> <<>>]
    /\ hr = [d \in Observed |-> NewHashRing]
    /\ crossed = [d \in Observed |-> {}]

-----------------------------------------------------------------------------
(* The registry. *)

Change == changes < MaxChanges /\ changes' = changes + 1

(* etcd tells everyone who watches. *)
Notify(op, n) ==
    eventCh' = [d \in Observed |->
        IF watching[d] = "yes" THEN Append(eventCh[d], <<op, n>>) ELSE eventCh[d]]

Bind(n, how) == key' = [key EXCEPT ![n] = how]

(***************************************************************************)
(* RunSearchService registers its address before it serves.  A Put over    *)
(* the key of its previous life is an update and rebinds the key.          *)
(***************************************************************************)
Register(n) ==
    /\ n \notin up
    /\ Change
    /\ up' = up \cup {n}
    /\ Bind(n, "own")
    /\ Notify(IF Registered(n) THEN "update" ELSE "add", n)

(* Register ignores the result of Put: the server serves unregistered. *)
RegisterUnseen(n) ==
    /\ n \notin up
    /\ Change
    /\ up' = up \cup {n}
    /\ UNCHANGED <<key, eventCh>>

ServerDies(n) ==
    /\ n \in up
    /\ Change
    /\ up' = up \ {n}
    /\ key' = [key EXCEPT ![n] = IF @ = "own" THEN "old" ELSE @]
    /\ UNCHANGED eventCh

(* The second of the lease is over: the key goes, and nobody registers a
   server again that is still up. *)
KeyEnds(n) ==
    /\ Registered(n)
    /\ Bind(n, None)
    /\ Notify("del", n)
    /\ UNCHANGED up

KeyExpires(n) == key[n] = "old" /\ KeyEnds(n) /\ UNCHANGED changes
KeyLost(n) == key[n] = "own" /\ KeyEnds(n) /\ Change

Expiry(n) ==
    /\ KeyExpires(n)
    /\ UNCHANGED <<watching, addChan, delChan, hr, crossed, electionVars>>

Registry(n) ==
    /\ Register(n) \/ RegisterUnseen(n) \/ ServerDies(n) \/ KeyLost(n)
    /\ UNCHANGED <<watching, addChan, delChan, hr, crossed, electionVars>>

-----------------------------------------------------------------------------
(* The controller of a dash. *)

(* GetSucker: every key there is comes as an add, and the watch goes on from
   the next revision. *)
Watch(d) ==
    /\ elect[d] # "off"
    /\ watching[d] = "no"
    /\ watching' = [watching EXCEPT ![d] = "yes"]
    /\ eventCh' = [eventCh EXCEPT ![d] =
        SetToSeq({<<"add", n>> : n \in {m \in Node : Registered(m)}})]
    /\ UNCHANGED <<registryVars, addChan, delChan, hr, crossed, electionVars>>

(* A Get that fails ends the goroutine, and the dash never hears anything. *)
WatchFails(d) ==
    /\ elect[d] # "off"
    /\ watching[d] = "no"
    /\ Fault
    /\ watching' = [watching EXCEPT ![d] = "dead"]
    /\ UNCHANGED <<registryVars, eventCh, addChan, delChan, hr, crossed,
                   elect, leaseOf, live, leader>>

Holds(ch, n) == \E i \in 1..Len(ch) : ch[i] = n

Deal_DropsWhenFull(d) ==        \* mutant: a send that does not wait
    /\ eventCh[d] # <<>>
    /\ LET op == Head(eventCh[d])[1]
           n == Head(eventCh[d])[2]
           Send(ch) == IF Len(ch) <= eventQueueLen THEN Append(ch, n) ELSE ch
       IN  /\ addChan' = [addChan EXCEPT ![d] = IF op = "add" THEN Send(@) ELSE @]
           /\ delChan' = [delChan EXCEPT ![d] = IF op = "del" THEN Send(@) ELSE @]
           /\ crossed' = [crossed EXCEPT ![d] =
                IF Holds(addChan[d], n) \/ Holds(delChan[d], n) THEN @ \cup {n} ELSE @]
    /\ eventCh' = [eventCh EXCEPT ![d] = Tail(@)]
    /\ UNCHANGED <<registryVars, watching, hr, electionVars>>

(* SuckLoop: the next event goes to the channel of its kind; it waits while
   the channel is full and the goroutine behind it has an event in hand.
   What is updated is only printed. *)
Deal(d) ==
    /\ eventCh[d] # <<>>
    /\ LET op == Head(eventCh[d])[1]
           n == Head(eventCh[d])[2]
       IN  \/ /\ op = "add"
              /\ Len(addChan[d]) <= eventQueueLen
              /\ addChan' = [addChan EXCEPT ![d] = Append(@, n)]
              /\ crossed' = [crossed EXCEPT ![d] =
                                IF Holds(delChan[d], n) THEN @ \cup {n} ELSE @]
              /\ UNCHANGED delChan
           \/ /\ op = "del"
              /\ Len(delChan[d]) <= eventQueueLen
              /\ delChan' = [delChan EXCEPT ![d] = Append(@, n)]
              /\ crossed' = [crossed EXCEPT ![d] =
                                IF Holds(addChan[d], n) THEN @ \cup {n} ELSE @]
              /\ UNCHANGED addChan
           \/ /\ op = "update"
              /\ UNCHANGED <<addChan, delChan, crossed>>
    /\ eventCh' = [eventCh EXCEPT ![d] = Tail(@)]
    /\ UNCHANGED <<registryVars, watching, hr, electionVars>>

(* AddLoop and DelLoop: addFunc and delFunc apply the event in hand (and log
   what the ring answers); only then is the next one received. *)
AddLoop(d) ==
    /\ addChan[d] # <<>>
    /\ Room(hr[d]) \/ Head(addChan[d]) \in hr[d].addedNode
    /\ hr' = [hr EXCEPT ![d] = AddNode(@, Head(addChan[d]))]
    /\ addChan' = [addChan EXCEPT ![d] = Tail(@)]
    /\ UNCHANGED <<registryVars, watching, eventCh, delChan, crossed, electionVars>>

DelLoop(d) ==
    /\ delChan[d] # <<>>
    /\ hr' = [hr EXCEPT ![d] = DelNode(@, Head(delChan[d]))]
    /\ delChan' = [delChan EXCEPT ![d] = Tail(@)]
    /\ UNCHANGED <<registryVars, watching, eventCh, addChan, crossed, electionVars>>

(* A dash dies: its election, its controller and its ring are gone. *)
DashCrash(d) ==
    /\ ElectCrash(d)
    /\ watching' = [o \in Observed |-> IF o = d THEN "no" ELSE watching[o]]
    /\ eventCh' = [o \in Observed |-> IF o = d THEN <<>> ELSE eventCh[o]]
    /\ addChan' = [o \in Observed |-> IF o = d THEN <<>> ELSE addChan[o]]
    /\ delChan' = [o \in Observed |-> IF o = d THEN <<>> ELSE delChan[o]]
    /\ hr' = [o \in Observed |-> IF o = d THEN NewHashRing ELSE hr[o]]
    /\ crossed' = [o \in Observed |-> IF o = d THEN {} ELSE crossed[o]]
    /\ UNCHANGED registryVars

Control(d) == Watch(d) \/ Deal(d) \/ AddLoop(d) \/ DelLoop(d)

Next ==
    \/ \E n \in Node : Registry(n) \/ Expiry(n)
    \/ \E d \in Observed : Control(d) \/ WatchFails(d)
    \/ \E d \in Dashes : DashCrash(d)
    \/ ElectionNext /\ UNCHANGED <<registryVars, controllerVars>>

(* Every goroutine of a controller goes on, and etcd ends a lease that
   nobody keeps alive. *)
Fairness ==
    /\ ElectionFairness
    /\ \A d \in Observed : WF_vars(Deal(d)) /\ WF_vars(AddLoop(d)) /\ WF_vars(DelLoop(d))
    /\ \A n \in Node : WF_vars(Expiry(n))

Spec == Init /\ [][Next]_vars /\ Fairness

-----------------------------------------------------------------------------

(***************************************************************************)
(* The three structures of a ring agree after every AddNode and DelNode:   *)
(* an added node owns vNodeNum slots, each found under its name, and no    *)
(* slot is left to a node that is gone.                                    *)
(***************************************************************************)
RingConsistent ==
    \A d \in Observed :
        LET r == hr[d] IN
        /\ \A v \in VNode : r.nodeVNameMap[v] # None <=> v[1] \in r.addedNode
        /\ \A s \in Slot, v \in VNode :
            r.vnodeSlice[s] = v <=> r.nodeVNameMap[v] = s

(* Nothing about node n is on its way to the ring of dash d. *)
Told(d, n) ==
    /\ watching[d] = "yes"
    /\ ~\E op \in {"add", "update", "del"} : Holds(eventCh[d], <<op, n>>)
    /\ ~Holds(addChan[d], n) /\ ~Holds(delChan[d], n)

(***************************************************************************)
(* A dash that has heard everything about a node has it in its ring if and *)
(* only if it is registered, whatever died, came back, was rebound or was  *)
(* lost; unless an add and a delete of the node were in their channels or  *)
(* in their goroutines' hands at the same time, from when on the ring may  *)
(* be wrong for good.                                                      *)
(***************************************************************************)
RingFollowsRegistry ==
    \A d \in Observed : \A n \in Node \ crossed[d] :
        Told(d, n) => (n \in hr[d].addedNode <=> Registered(n))

(***************************************************************************)
(* A search server that is gone, and not replaced, leaves the ring: its    *)
(* key ends with its lease, and the event passes all channels.             *)
(***************************************************************************)
DeadNodeLeaves ==
    \A d \in Observed, n \in Node :
        n \notin up ~> \/ n \notin hr[d].addedNode
                      \/ n \in up \cup crossed[d]

=============================================================================
