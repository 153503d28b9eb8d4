--------------------------- MODULE RecorderProofs ---------------------------
(***************************************************************************)
(* The recorder manager for any number of users, recorders and failures:   *)
(* one writer per id, no orphan goroutine, a Stop that never blocks, and   *)
(* no acknowledged command lost.                                           *)
(***************************************************************************)
EXTENDS Recorder, RecencyListProofs

(***************************************************************************)
(* The inductive invariant: the recorders that were not told to stop are   *)
(* exactly the known ones, and no two of them serve the same id.           *)
(***************************************************************************)
IInv ==
    /\ ControlTypeOK
    /\ Distinct(set)
    /\ busy # None => busy.o \notin Registered
    /\ Known = running \ stopCh
    /\ stopCh \subseteq running
    /\ OneWriterPerId

(* The set after its object at position k was taken out. *)
LEMMA Unregister ==
    ASSUME IInv, NEW k \in 1..Len(set)
    PROVE  /\ set[k] \in Obj
           /\ set[k] \in Registered
           /\ DropAt(set, k) \in Seq(Obj)
           /\ Elements(DropAt(set, k)) = Registered \ {set[k]}
           /\ Distinct(DropAt(set, k))
<1>1. set \in Seq(Obj) /\ Distinct(set)
  BY DEF IInv, ControlTypeOK
<1>2. set[k] \in Obj
  BY <1>1, ElementOfSeq
<1>3. set[k] \in Registered
  BY DEF Registered, Elements
<1> QED
  BY <1>1, <1>2, <1>3, DropAtIndexed, DropAtElements DEF Registered

(* A request for an id in recorderSet only reorders the set. *)
LEMMA HitKeepsIInv ==
    ASSUME IInv, NEW i \in Id, NEW q \in Request, Hit(i, q)
    PROVE  IInv'
<1>1. set \in Seq(Obj) /\ Distinct(set)
  BY DEF IInv, ControlTypeOK
<1>2. PICK k \in 1..Len(set) : set' = ToFront(set, k)
  BY DEF Hit
<1>3. set' \in Seq(Obj) /\ Elements(set') = Elements(set) /\ Distinct(set')
  BY <1>1, <1>2, ToFrontElements
<1>4. UNCHANGED <<busy, running, stopCh, rid>>
  BY DEF Hit
<1>5. Registered' = Registered /\ Known' = Known
  BY <1>3, <1>4 DEF Registered, Known, Starting
<1> QED
  BY <1>3, <1>4, <1>5 DEF IInv, ControlTypeOK, OneWriterPerId

(* tryRun's new recorder is of an id that no known recorder has. *)
LEMMA RunKeepsIInv ==
    ASSUME IInv, NEW i \in Id, NEW q \in Request, Run(i, q)
    PROVE  IInv'
<1>1. busy = None /\ set' = set /\ stopCh' = stopCh
  BY DEF Run
<1>2. \A p \in Registered : rid[p] # i
  BY DEF Run
<1>3. PICK o \in Obj \ running :
        /\ busy' = [o |-> o, q |-> q]
        /\ running' = running \cup {o}
        /\ rid' = [rid EXCEPT ![o] = i]
  BY DEF Run
<1>4. /\ Known = Registered
      /\ Registered = running \ stopCh
      /\ stopCh \subseteq running
      /\ running \subseteq Obj
      /\ rid \in [Obj -> Id \cup {None}]
  BY <1>1 DEF IInv, ControlTypeOK, Known, Starting
<1>5. busy' # None /\ busy'.o = o
  BY <1>3, NoneAssumption
<1>6. Registered' = Registered /\ Known' = Registered \cup {o}
  BY <1>1, <1>5 DEF Registered, Known, Starting
<1>7. Known' = running' \ stopCh' /\ (stopCh \subseteq running)'
  BY <1>1, <1>3, <1>4, <1>6
<1>8. OneWriterPerId'
  <2>1. rid'[o] = i /\ \A p \in Registered : rid'[p] = rid[p] /\ rid[p] # i
    BY <1>2, <1>3, <1>4
  <2>2. \A p1, p2 \in Registered : rid[p1] = rid[p2] => p1 = p2
    BY <1>4 DEF IInv, OneWriterPerId
  <2>3. running' \ stopCh' = Registered \cup {o}
    BY <1>6, <1>7
  <2> QED  BY <2>1, <2>2, <2>3 DEF OneWriterPerId
<1>9. ControlTypeOK'
  BY <1>1, <1>3 DEF IInv, ControlTypeOK
<1>10. Distinct(set)' /\ (busy # None => busy.o \notin Registered)'
  <2>1. o \notin Registered
    BY <1>3, <1>4
  <2> QED  BY <1>1, <1>5, <1>6, <2>1 DEF IInv, Distinct
<1> QED  BY <1>7, <1>8, <1>9, <1>10 DEF IInv

(* recorderSet.Add: what it evicts has been told to stop, once. *)
LEMMA RegisterKeepsIInv ==
    ASSUME IInv, Register
    PROVE  IInv'
<1> DEFINE n == busy.o
<1>1. /\ busy # None /\ busy' = None /\ UNCHANGED <<running, rid>>
  BY DEF Register
<1>2. /\ n \in Obj /\ n \notin Registered /\ Known = Registered \cup {n}
      /\ set \in Seq(Obj) /\ Distinct(set)
      /\ running \ stopCh = Registered \cup {n}
      /\ stopCh \subseteq running /\ running \subseteq Obj
  BY <1>1 DEF IInv, ControlTypeOK, Known, Starting
<1>3. Known' = Registered' /\ (busy # None => busy.o \notin Registered)'
  BY <1>1 DEF Known, Starting
<1> HIDE DEF n
<1>4. CASE /\ Len(set) = RecorderNum
           /\ \E ok \in BOOLEAN : StopRecorder(set[Len(set)], ok)
           /\ set' = PushFront(DropAt(set, Len(set)), n)
  <2> DEFINE v == set[Len(set)]
             d == DropAt(set, Len(set))
  <2>1. Len(set) \in 1..Len(set)
    BY <1>2, <1>4, RecorderNumAssumption, LenProperties
  <2>2. /\ v \in Obj /\ v \in Registered
        /\ d \in Seq(Obj) /\ Elements(d) = Registered \ {v} /\ Distinct(d)
    BY <2>1, Unregister
  <2>3. stopCh' = stopCh \cup {v}
    BY <1>4 DEF StopRecorder
  <2> HIDE DEF d, v
  <2>4. n \notin Elements(d)
    BY <1>2, <2>2
  <2>5. /\ PushFront(d, n) \in Seq(Obj)
        /\ Elements(PushFront(d, n)) = Elements(d) \cup {n}
        /\ Distinct(PushFront(d, n))
    <3>1. PushFront(d, n) \in Seq(Obj)
      BY <1>2, <2>2, PushFrontIndexed
    <3> QED  BY <1>2, <2>2, <2>4, <3>1, PushFrontElements
  <2>6. set' = PushFront(d, n)
    BY <1>4 DEF d
  <2>7. /\ Registered' = (Registered \ {v}) \cup {n} /\ set' \in Seq(Obj)
        /\ Distinct(set')
    BY <2>2, <2>5, <2>6 DEF Registered
  <2>8. Known' = (running \ stopCh)' /\ (stopCh \subseteq running)'
    BY <1>1, <1>2, <1>3, <2>2, <2>3, <2>7
  <2>9. OneWriterPerId'
    BY <1>1, <2>3 DEF IInv, OneWriterPerId
  <2> QED
    BY <1>1, <1>2, <1>3, <2>2, <2>3, <2>7, <2>8, <2>9 DEF IInv, ControlTypeOK
<1>5. CASE /\ set' = PushFront(set, n)
           /\ UNCHANGED stopCh
  <2>1. /\ set' \in Seq(Obj)
        /\ Elements(set') = Elements(set) \cup {n}
        /\ Distinct(set')
    <3>1. set' \in Seq(Obj)
      BY <1>2, <1>5, PushFrontIndexed
    <3>2. n \notin Elements(set)
      BY <1>2 DEF Registered
    <3> QED  BY <1>2, <1>5, <3>1, <3>2, PushFrontElements
  <2>2. Registered' = Registered \cup {n}
    BY <2>1 DEF Registered
  <2>3. Known' = (running \ stopCh)' /\ (stopCh \subseteq running)'
    BY <1>1, <1>2, <1>3, <1>5, <2>2
  <2>4. OneWriterPerId'
    BY <1>1, <1>5 DEF IInv, OneWriterPerId
  <2> QED
    BY <1>1, <1>2, <1>3, <1>5, <2>1, <2>2, <2>3, <2>4 DEF IInv, ControlTypeOK
<1> QED  BY <1>4, <1>5 DEF Register, n

(* recorderManager.Stop: out of the set and told to stop, together. *)
LEMMA StopKeepsIInv ==
    ASSUME IInv, NEW i \in Id, Stop(i)
    PROVE  IInv'
<1>1. PICK k \in 1..Len(set) :
        /\ set' = DropAt(set, k)
        /\ stopCh' = stopCh \cup {set[k]}
  BY DEF Stop, StopRecorder
<1>2. busy = None /\ UNCHANGED <<busy, running, rid>>
  BY DEF Stop
<1>3. /\ set[k] \in Obj /\ set[k] \in Registered
      /\ set' \in Seq(Obj) /\ Registered' = Registered \ {set[k]}
      /\ Distinct(set')
  BY <1>1, Unregister DEF Registered
<1>4. Known = Registered /\ Known' = Registered'
  BY <1>2 DEF Known, Starting
<1>5. Known' = (running \ stopCh)' /\ (stopCh \subseteq running)'
  BY <1>1, <1>2, <1>3, <1>4 DEF IInv
<1>6. OneWriterPerId'
  BY <1>1, <1>2 DEF IInv, OneWriterPerId
<1>7. ControlTypeOK'
  BY <1>1, <1>2, <1>3 DEF IInv, ControlTypeOK
<1> QED  BY <1>2, <1>3, <1>5, <1>6, <1>7 DEF IInv

(* A goroutine that ends was told to stop, so nobody knows its object. *)
LEMMA FinishKeepsIInv ==
    ASSUME IInv, NEW o \in Obj, Finish(o)
    PROVE  IInv'
<1>1. /\ o \in running \cap stopCh
      /\ running' = running \ {o}
      /\ stopCh' = stopCh \ {o}
      /\ rid' = [rid EXCEPT ![o] = None]
      /\ UNCHANGED <<set, busy>>
  BY DEF Finish
<1>2. Registered' = Registered /\ Known' = Known
  BY <1>1 DEF Registered, Known, Starting
<1>3. running' \ stopCh' = running \ stopCh
  BY <1>1
<1>4. Known' = (running \ stopCh)' /\ (stopCh \subseteq running)'
  BY <1>1, <1>2, <1>3 DEF IInv
<1>5. OneWriterPerId'
  <2>1. \A p \in running \ stopCh : rid'[p] = rid[p]
    BY <1>1 DEF IInv, ControlTypeOK
  <2> QED  BY <1>3, <2>1 DEF IInv, OneWriterPerId
<1>6. ControlTypeOK'
  BY <1>1 DEF IInv, ControlTypeOK
<1> QED  BY <1>1, <1>2, <1>4, <1>5, <1>6 DEF IInv

(* A server that has just started satisfies the invariant. *)
LEMMA EmptyIsIInv ==
    ASSUME set = <<>>, busy = None, running = {}, stopCh = {},
           rid = [o \in Obj |-> None]
    PROVE  IInv
<1>1. set \in Seq(Obj) /\ Len(set) = 0
  BY EmptySeq
<1>2. Registered = {} /\ Distinct(set) /\ Known = {}
  BY <1>1 DEF Registered, Elements, Distinct, Known, Starting
<1>3. ControlTypeOK
  BY <1>1 DEF ControlTypeOK
<1> QED  BY <1>2, <1>3 DEF IInv, OneWriterPerId

(* So does one that has just crashed and restarted. *)
LEMMA CrashKeepsIInv ==
    ASSUME Crash
    PROVE  IInv'
<1>1. /\ set' = <<>> /\ busy' = None /\ running' = {} /\ stopCh' = {}
      /\ rid' = [o \in Obj |-> None]
  BY DEF Crash
<1>2. set' \in Seq(Obj) /\ Len(set') = 0
  BY <1>1, EmptySeq
<1>3. Registered' = {} /\ Distinct(set') /\ Known' = {}
  BY <1>1, <1>2 DEF Registered, Elements, Distinct, Known, Starting
<1>4. ControlTypeOK'
  BY <1>1, <1>2 DEF ControlTypeOK
<1> QED  BY <1>1, <1>3, <1>4 DEF IInv, OneWriterPerId

(***************************************************************************)
(* However requests, logouts, evictions, ticks, failures and crashes       *)
(* interleave, an id has at most one recorder that was not told to stop,   *)
(* each of those is known to the manager, and sending to its stopCh does   *)
(* not block.                                                              *)
(***************************************************************************)
THEOREM WriterDiscipline ==
    Spec => [](OneWriterPerId /\ NoOrphanWriter /\ StopNeverBlocks)
<1>1. Init => IInv
  BY EmptyIsIInv DEF Init
<1>2. IInv /\ [Next]_vars => IInv'
  <2> SUFFICES ASSUME IInv, [Next]_vars  PROVE IInv'
    OBVIOUS
  <2>1. ASSUME NEW i \in Id, NEW q \in Request, Hit(i, q) \/ Run(i, q)
        PROVE  IInv'
    BY <2>1, HitKeepsIInv, RunKeepsIInv
  <2>2. CASE Register
    BY <2>2, RegisterKeepsIInv
  <2>3. ASSUME NEW i \in Id, Stop(i)  PROVE IInv'
    BY <2>3, StopKeepsIInv
  <2>4. ASSUME NEW o \in Obj, NEW ok \in BOOLEAN, Tick(o, ok)  PROVE IInv'
    BY <2>4 DEF Tick, objects, IInv, ControlTypeOK, OneWriterPerId,
                Known, Registered, Starting, Distinct, Elements
  <2>5. ASSUME NEW o \in Obj, Finish(o)  PROVE IInv'
    BY <2>5, FinishKeepsIInv
  <2>6. CASE Crash
    BY <2>6, CrashKeepsIInv
  <2>7. CASE UNCHANGED vars
    BY <2>7 DEF vars, objects, IInv, ControlTypeOK, OneWriterPerId,
                Known, Registered, Starting, Distinct, Elements
  <2> QED  BY <2>1, <2>2, <2>3, <2>4, <2>5, <2>6, <2>7 DEF Next
<1>3. IInv => OneWriterPerId /\ NoOrphanWriter /\ StopNeverBlocks
  BY DEF IInv, NoOrphanWriter, StopNeverBlocks
<1> QED  BY <1>1, <1>2, <1>3, PTL DEF Spec

(* Every goroutine that may save can be told to stop through the manager. *)
THEOREM WritersReachable == Spec => []NoOrphanWriter
BY WriterDiscipline, PTL

(* Stop's send under the manager's mutex always finds an empty channel. *)
THEOREM StopReturns == Spec => []StopNeverBlocks
BY WriterDiscipline, PTL

-----------------------------------------------------------------------------
(* What recorders hold. *)

(* The lists a recorder may hold are those without repetitions, within its
   capacity. *)
LEMMA CommandsAre ==
    \A s : s \in Commands
             <=> s \in Seq(Cmd) /\ Len(s) <= Capacity /\ Distinct(s)
BY RecencyListsAre, CapacityAssumption DEF Commands, RecencyLists

LEMMA EmptyCommands == <<>> \in Commands
BY RecencyListsClosed, CapacityAssumption DEF Commands, RecencyLists

(* recorder.Add keeps the list within its capacity, without repetitions. *)
LEMMA ServeCommands ==
    ASSUME NEW s \in Commands, NEW q
    PROVE  Serve(s, q) \in Commands
<1>1. Commands = RecencyLists(Cmd, Capacity)
  BY DEF Commands, RecencyLists
<1> QED  BY <1>1, RecencyListsClosed, CapacityAssumption DEF Serve

(* initOrLoad rebuilds exactly the list that was saved. *)
LEMMA ReplayRestores ==
    ASSUME NEW s \in Commands
    PROVE  Replay(s) = s
<1>1. s \in Seq(Cmd) /\ Len(s) <= Capacity /\ Distinct(s)
  BY CommandsAre
<1> QED  BY <1>1, CapacityAssumption, RebuildRestores DEF Replay, Serve

(***************************************************************************)
(* With the discipline of the writers, the types of what they hold, and a  *)
(* known id for each, what is acknowledged is inductive.                   *)
(***************************************************************************)
HInv ==
    /\ IInv
    /\ TypeOK
    /\ \A o \in running : rid[o] \in Id
    /\ KeepsHistory

(* KeepsHistory without the manager's set, which IInv makes redundant. *)
HeldAsAcknowledged ==
    \A i \in Id \ disturbed :
        /\ \A o \in running \ stopCh : rid[o] = i => list[o] = ideal[i]
        /\ (\A o \in running \ stopCh : rid[o] # i) => Stored(i) = ideal[i]

LEMMA HeldIsKept ==
    /\ IInv => (KeepsHistory <=> HeldAsAcknowledged)
    /\ IInv' => (KeepsHistory' <=> HeldAsAcknowledged')
BY DEF IInv, KeepsHistory, HeldAsAcknowledged

(* A saved list is read back as it is. *)
LEMMA StoredOf ==
    /\ \A s \in Commands : s # None
    /\ TypeOK => \A i \in Id : Stored(i) \in Commands
BY NamesAssumption, EmptyCommands DEF TypeOK, Stored

LEMMA HitKeepsHistory ==
    ASSUME HInv, NEW i \in Id, NEW q \in Request, Hit(i, q)
    PROVE  HInv'
<1>1. IInv'
  BY HitKeepsIInv DEF HInv
<1>2. PICK k \in 1..Len(set) :
        /\ rid[set[k]] = i
        /\ list' = [list EXCEPT ![set[k]] = Serve(@, q)]
        /\ ideal' = [ideal EXCEPT ![i] = Serve(@, q)]
  BY DEF Hit, Apply
<1>3. /\ UNCHANGED <<busy, running, stopCh, rid, store, faults, disturbed,
                     unread>>
  BY DEF Hit
<1>4. /\ TypeOK /\ HeldAsAcknowledged
      /\ set[k] \in Obj /\ set[k] \in running \ stopCh
  BY Unregister, HeldIsKept DEF HInv, IInv, Known
<1>5. Serve(list[set[k]], q) \in Commands /\ Serve(ideal[i], q) \in Commands
  BY <1>4, ServeCommands DEF TypeOK
<1>6. TypeOK'
  BY <1>1, <1>2, <1>3, <1>4, <1>5 DEF TypeOK, IInv
<1>7. HeldAsAcknowledged'
  <2>1. \A p \in running \ stopCh : rid[p] = i => p = set[k]
    BY <1>2, <1>4 DEF HInv, IInv, OneWriterPerId
  <2>2. /\ list'[set[k]] = Serve(list[set[k]], q)
        /\ ideal'[i] = Serve(ideal[i], q)
        /\ \A p \in Obj \ {set[k]} : list'[p] = list[p]
        /\ \A j \in Id \ {i} : ideal'[j] = ideal[j]
    BY <1>2, <1>4 DEF TypeOK
  <2>3. \A j \in Id : Stored(j)' = Stored(j)
    BY <1>3 DEF Stored
  <2>4. running \subseteq Obj
    BY <1>4 DEF TypeOK, ControlTypeOK
  <2> QED  BY <1>2, <1>3, <1>4, <2>1, <2>2, <2>3, <2>4 DEF HeldAsAcknowledged
<1> QED  BY <1>1, <1>3, <1>6, <1>7, HeldIsKept DEF HInv

LEMMA RunKeepsHistory ==
    ASSUME HInv, NEW i \in Id, NEW q \in Request, Run(i, q)
    PROVE  HInv'
<1>1. IInv'
  BY RunKeepsIInv DEF HInv
<1>2. PICK o \in Obj \ running, ok \in BOOLEAN :
        /\ Etcd(ok)
        /\ running' = running \cup {o}
        /\ rid' = [rid EXCEPT ![o] = i]
        /\ list' = [list EXCEPT ![o] = IF ok THEN Replay(Stored(i)) ELSE <<>>]
        /\ disturbed' = IF ok THEN disturbed ELSE disturbed \cup {i}
        /\ unread' = IF ok \/ Stored(i) = <<>> THEN unread ELSE unread \cup {o}
  BY DEF Run
<1>3. UNCHANGED <<set, stopCh, store, ideal>> /\ busy = None
  BY DEF Run
<1>4. TypeOK /\ HeldAsAcknowledged /\ rid \in [Obj -> Id \cup {None}]
  BY HeldIsKept DEF HInv, IInv, ControlTypeOK
<1>5. /\ Replay(Stored(i)) = Stored(i) /\ Stored(i) \in Commands
      /\ <<>> \in Commands
  BY <1>4, StoredOf, ReplayRestores, EmptyCommands
<1>6. TypeOK'
  <2>1. faults' \in 0..MaxFaults
    BY <1>2, <1>4, MaxFaultsAssumption DEF Etcd, TypeOK
  <2>2. list' \in [Obj -> Commands]
    BY <1>2, <1>4, <1>5 DEF TypeOK
  <2>3. disturbed' \in SUBSET Id /\ unread' \in SUBSET Obj
    BY <1>2, <1>4 DEF TypeOK
  <2> QED  BY <1>1, <1>3, <1>4, <2>1, <2>2, <2>3 DEF TypeOK, IInv
<1>7. HeldAsAcknowledged'
  <2>1. \A p \in running \ stopCh : rid[p] # i
    BY <1>3 DEF Run, HInv, IInv, Known, Starting
  <2>2. o \in running' \ stopCh'
    BY <1>2, <1>3 DEF HInv, IInv
  <2>3. rid'[o] = i /\ list'[o] = IF ok THEN Stored(i) ELSE <<>>
    BY <1>2, <1>4, <1>5 DEF TypeOK
  <2>4. \A p \in running \ stopCh :
          p # o /\ rid'[p] = rid[p] /\ list'[p] = list[p]
    BY <1>2, <1>4 DEF TypeOK, ControlTypeOK
  <2>5. running' \ stopCh' = (running \ stopCh) \cup {o}
    BY <1>2, <1>3, <2>2
  <2>6. \A j \in Id : Stored(j)' = Stored(j) /\ ideal'[j] = ideal[j]
    BY <1>3 DEF Stored
  <2>7. i \in disturbed' \/ (ok /\ i \notin disturbed)
    BY <1>2
  <2>8. disturbed \subseteq disturbed'
    BY <1>2
  <2> QED  BY <1>4, <2>1, <2>2, <2>3, <2>4, <2>5, <2>6, <2>7, <2>8
           DEF HeldAsAcknowledged
<1>8. \A p \in running' : rid'[p] \in Id
  BY <1>2, <1>4 DEF HInv, TypeOK, ControlTypeOK
<1> QED  BY <1>1, <1>6, <1>7, <1>8, HeldIsKept DEF HInv

(* persistentRecorder.Stop of a known recorder: its list is in etcd, or the
   id is disturbed. *)
LEMMA StoppedIsSaved ==
    ASSUME HInv, NEW o \in running \ stopCh, NEW ok \in BOOLEAN,
           StopRecorder(o, ok)
    PROVE  /\ store' \in [Id -> Commands \cup {None}]
           /\ faults' \in 0..MaxFaults
           /\ disturbed' \in SUBSET Id
           /\ disturbed \subseteq disturbed'
           /\ stopCh' = stopCh \cup {o}
           /\ rid[o] \in Id
           /\ \A j \in Id \ {rid[o]} : Stored(j)' = Stored(j)
           /\ \A j \in Id \ disturbed' : j = rid[o] => Stored(j)' = ideal[j]
<1>1. /\ TypeOK /\ HeldAsAcknowledged /\ rid[o] \in Id /\ o \in Obj
  BY HeldIsKept DEF HInv, TypeOK, ControlTypeOK
<1>2. /\ Etcd(ok)
      /\ store' = IF ok THEN [store EXCEPT ![rid[o]] = list[o]] ELSE store
      /\ stopCh' = stopCh \cup {o}
      /\ disturbed' = IF ok THEN disturbed ELSE disturbed \cup {rid[o]}
  BY DEF StopRecorder, sync
<1>3. faults' \in 0..MaxFaults
  BY <1>1, <1>2, MaxFaultsAssumption DEF Etcd, TypeOK
<1>4. list[o] \in Commands /\ list[o] # None
  BY <1>1, StoredOf DEF TypeOK
<1>5. store' \in [Id -> Commands \cup {None}]
  BY <1>1, <1>2, <1>4 DEF TypeOK
<1>6. \A j \in Id \ {rid[o]} : Stored(j)' = Stored(j)
  BY <1>1, <1>2 DEF Stored, TypeOK
<1>7. \A j \in Id \ disturbed' : j = rid[o] => Stored(j)' = ideal[j]
  <2>1. rid[o] \notin disturbed => list[o] = ideal[rid[o]]
    BY <1>1 DEF HeldAsAcknowledged
  <2> QED  BY <1>1, <1>2, <1>4, <2>1 DEF Stored, TypeOK
<1>8. disturbed' \in SUBSET Id /\ disturbed \subseteq disturbed'
  BY <1>1, <1>2 DEF TypeOK
<1> QED  BY <1>1, <1>2, <1>3, <1>5, <1>6, <1>7, <1>8

LEMMA StopKeepsHistory ==
    ASSUME HInv, NEW i \in Id, Stop(i)
    PROVE  HInv'
<1>1. IInv'
  BY StopKeepsIInv DEF HInv
<1>2. PICK k \in 1..Len(set), ok \in BOOLEAN :
        rid[set[k]] = i /\ StopRecorder(set[k], ok)
  BY DEF Stop
<1> DEFINE o == set[k]
<1>3. UNCHANGED <<busy, running, rid, list, ideal, unread>>
  BY DEF Stop
<1>4. o \in running \ stopCh /\ TypeOK /\ HeldAsAcknowledged
  BY Unregister, HeldIsKept DEF HInv, IInv, Known
<1> HIDE DEF o
<1>5. StopRecorder(o, ok) /\ rid[o] = i
  BY <1>2 DEF o
<1>6. /\ store' \in [Id -> Commands \cup {None}]
      /\ faults' \in 0..MaxFaults
      /\ disturbed' \in SUBSET Id
      /\ disturbed \subseteq disturbed'
      /\ stopCh' = stopCh \cup {o}
      /\ \A j \in Id \ {i} : Stored(j)' = Stored(j)
      /\ \A j \in Id \ disturbed' : j = i => Stored(j)' = ideal[j]
  BY <1>4, <1>5, StoppedIsSaved
<1>7. TypeOK'
  BY <1>1, <1>3, <1>4, <1>6 DEF TypeOK, IInv
<1>8. HeldAsAcknowledged'
  <2>1. \A p \in running' \ stopCh' : p \in running \ stopCh
    BY <1>3, <1>6
  <2>2. \A j \in Id \ {i} : (\A p \in running' \ stopCh' : rid'[p] # j)
                              => \A p \in running \ stopCh : rid[p] # j
    BY <1>3, <1>5, <1>6
  <2> QED  BY <1>3, <1>4, <1>6, <2>1, <2>2 DEF HeldAsAcknowledged
<1> QED  BY <1>1, <1>3, <1>7, <1>8, HeldIsKept DEF HInv

LEMMA RegisterKeepsHistory ==
    ASSUME HInv, Register
    PROVE  HInv'
<1>1. IInv'
  BY RegisterKeepsIInv DEF HInv
<1> DEFINE n == busy.o
           q == busy.q
           i == rid[n]
<1>2. /\ busy # None
      /\ list' = [list EXCEPT ![n] = Serve(@, q)]
      /\ ideal' = [ideal EXCEPT ![i] = Serve(@, q)]
      /\ UNCHANGED <<running, rid, unread>>
  BY DEF Register, Apply
<1>3. /\ TypeOK /\ HeldAsAcknowledged
      /\ n \in Obj /\ n \in running \ stopCh /\ i \in Id
      /\ n \notin Registered
  BY <1>2, HeldIsKept DEF HInv, IInv, Known, Starting, TypeOK, ControlTypeOK
<1>4. \A p \in running \ stopCh : rid[p] = i => p = n
  BY <1>3 DEF HInv, IInv, OneWriterPerId
<1>5. \/ UNCHANGED <<store, faults, stopCh, disturbed>>
      \/ /\ Len(set) = RecorderNum
         /\ \E ok \in BOOLEAN : StopRecorder(set[Len(set)], ok)
  BY DEF Register
<1> HIDE DEF n, q, i
<1>6. Serve(list[n], q) \in Commands /\ Serve(ideal[i], q) \in Commands
  BY <1>3, ServeCommands DEF TypeOK
<1>7. list' \in [Obj -> Commands] /\ ideal' \in [Id -> Commands]
  BY <1>2, <1>3, <1>6 DEF TypeOK
<1>8. /\ list'[n] = Serve(list[n], q) /\ ideal'[i] = Serve(ideal[i], q)
      /\ \A p \in Obj \ {n} : list'[p] = list[p]
      /\ \A j \in Id \ {i} : ideal'[j] = ideal[j]
  BY <1>2, <1>3 DEF TypeOK
<1>9. \A p \in running' : rid'[p] \in Id
  BY <1>2 DEF HInv
<1>10. CASE UNCHANGED <<store, faults, stopCh, disturbed>>
  <2>1. TypeOK'
    BY <1>1, <1>2, <1>3, <1>7, <1>10 DEF TypeOK, IInv
  <2>2. \A j \in Id : Stored(j)' = Stored(j)
    BY <1>10 DEF Stored
  <2>3. HeldAsAcknowledged'
    BY <1>2, <1>3, <1>4, <1>8, <1>10, <2>2
       DEF HeldAsAcknowledged, TypeOK, ControlTypeOK, i
  <2> QED  BY <1>1, <1>9, <2>1, <2>3, HeldIsKept DEF HInv
<1>11. ASSUME Len(set) = RecorderNum, NEW ok \in BOOLEAN,
              StopRecorder(set[Len(set)], ok)
       PROVE  HInv'
  <2> DEFINE v == set[Len(set)]
  <2>1. Len(set) \in 1..Len(set)
    BY <1>11, RecorderNumAssumption
  <2>2. v \in Registered /\ v \in running \ stopCh
    BY <2>1, Unregister DEF HInv, IInv, Known
  <2>3. v # n /\ StopRecorder(v, ok)
    BY <1>3, <1>11, <2>2
  <2> HIDE DEF v
  <2>4. /\ store' \in [Id -> Commands \cup {None}]
        /\ faults' \in 0..MaxFaults
        /\ disturbed' \in SUBSET Id
        /\ disturbed \subseteq disturbed'
        /\ stopCh' = stopCh \cup {v}
        /\ rid[v] \in Id
        /\ \A j \in Id \ {rid[v]} : Stored(j)' = Stored(j)
        /\ \A j \in Id \ disturbed' : j = rid[v] => Stored(j)' = ideal[j]
    BY <2>2, <2>3, StoppedIsSaved
  <2>5. TypeOK'
    BY <1>1, <1>2, <1>3, <1>7, <2>4 DEF TypeOK, IInv
  <2>6. rid[v] # i
    BY <1>4, <2>2, <2>3
  <2>7. HeldAsAcknowledged'
    <3> SUFFICES ASSUME NEW j \in Id \ disturbed'
                 PROVE  /\ \A o \in running' \ stopCh' :
                             rid'[o] = j => list'[o] = ideal'[j]
                        /\ (\A o \in running' \ stopCh' : rid'[o] # j)
                             => Stored(j)' = ideal'[j]
      BY DEF HeldAsAcknowledged
    <3>1. j \notin disturbed
      BY <2>4
    <3>2. /\ running' \ stopCh' = (running \ stopCh) \ {v}
          /\ n \in running' \ stopCh'
      BY <1>2, <1>3, <2>3, <2>4
    <3>3. \A o \in running' \ stopCh' : rid'[o] = j => list'[o] = ideal'[j]
      <4>1. ASSUME NEW o \in running \ stopCh, rid[o] = j
            PROVE  list'[o] = ideal'[j]
        <5>1. list[o] = ideal[j] /\ o \in Obj
          BY <1>3, <3>1, <4>1 DEF HeldAsAcknowledged, TypeOK, ControlTypeOK
        <5>2. CASE o = n
          BY <1>8, <4>1, <5>1, <5>2 DEF i
        <5>3. CASE o # n
          BY <1>4, <1>8, <4>1, <5>1, <5>3
        <5> QED  BY <5>2, <5>3
      <4> QED  BY <1>2, <3>2, <4>1
    <3>4. ASSUME \A o \in running' \ stopCh' : rid'[o] # j
          PROVE  Stored(j)' = ideal'[j]
      <4>1. j # i
        BY <1>2, <3>2, <3>4 DEF i
      <4>2. CASE j = rid[v]
        BY <1>8, <2>4, <4>1, <4>2
      <4>3. CASE j # rid[v]
        <5>1. \A o \in running \ stopCh : rid[o] # j
          BY <1>2, <3>2, <3>4, <4>3
        <5> QED  BY <1>3, <1>8, <2>4, <3>1, <4>1, <4>3, <5>1
                 DEF HeldAsAcknowledged
      <4> QED  BY <4>2, <4>3
    <3> QED  BY <3>3, <3>4
  <2> QED  BY <1>1, <1>9, <2>5, <2>7, HeldIsKept DEF HInv
<1> QED  BY <1>5, <1>10, <1>11

(* The ticker's save: if it is not what was acknowledged, a recorder of the
   id is in service, or the id is disturbed from now on. *)
LEMMA TickKeepsHistory ==
    ASSUME HInv, IInv', NEW o \in Obj, NEW ok \in BOOLEAN, Tick(o, ok)
    PROVE  HInv'
<1> DEFINE i == rid[o]
<1>1. /\ o \in running /\ Etcd(ok)
      /\ store' = IF ok THEN [store EXCEPT ![i] = list[o]] ELSE store
      /\ UNCHANGED <<running, stopCh, rid, list, ideal, unread>>
  BY DEF Tick, sync, objects
<1>2. disturbed' = IF /\ ok
                      /\ \A p \in running \ stopCh : rid[p] # i
                      /\ list[o] # ideal[i]
                   THEN disturbed \cup {i} ELSE disturbed
  BY DEF Tick, HInv, IInv
<1>3. TypeOK /\ HeldAsAcknowledged /\ i \in Id
  BY <1>1, HeldIsKept DEF HInv
<1> HIDE DEF i
<1>4. list[o] \in Commands /\ list[o] # None
  BY <1>3, StoredOf DEF TypeOK
<1>5. faults' \in 0..MaxFaults
  BY <1>1, <1>3, MaxFaultsAssumption DEF Etcd, TypeOK
<1>6. store' \in [Id -> Commands \cup {None}] /\ disturbed' \in SUBSET Id
  BY <1>1, <1>2, <1>3, <1>4 DEF TypeOK
<1>7. TypeOK'
  BY <1>1, <1>3, <1>5, <1>6 DEF TypeOK, IInv
<1>8. \A j \in Id : Stored(j)' = IF ok /\ j = i THEN list[o] ELSE Stored(j)
  BY <1>1, <1>3, <1>4 DEF Stored, TypeOK
<1>9. HeldAsAcknowledged'
  BY <1>1, <1>2, <1>3, <1>8 DEF HeldAsAcknowledged
<1> QED  BY <1>1, <1>7, <1>9, HeldIsKept DEF HInv

LEMMA FinishKeepsHistory ==
    ASSUME HInv, NEW o \in Obj, Finish(o)
    PROVE  HInv'
<1>1. IInv'
  BY FinishKeepsIInv DEF HInv
<1>2. /\ o \in running \cap stopCh
      /\ running' = running \ {o}
      /\ stopCh' = stopCh \ {o}
      /\ rid' = [rid EXCEPT ![o] = None]
      /\ list' = [list EXCEPT ![o] = <<>>]
      /\ unread' = unread \ {o}
      /\ UNCHANGED <<set, busy, store, faults, ideal, disturbed>>
  BY DEF Finish
<1>3. TypeOK /\ HeldAsAcknowledged
  BY HeldIsKept DEF HInv
<1>4. TypeOK'
  BY <1>1, <1>2, <1>3, EmptyCommands DEF TypeOK, IInv
<1>5. \A p \in running \ {o} : rid'[p] = rid[p] /\ list'[p] = list[p]
  BY <1>2, <1>3 DEF TypeOK, ControlTypeOK
<1>6. running' \ stopCh' = running \ stopCh /\ o \notin running \ stopCh
  BY <1>2
<1>7. HeldAsAcknowledged'
  BY <1>2, <1>3, <1>5, <1>6 DEF HeldAsAcknowledged, Stored
<1>8. \A p \in running' : rid'[p] \in Id
  BY <1>2, <1>5 DEF HInv
<1> QED  BY <1>1, <1>4, <1>7, <1>8, HeldIsKept DEF HInv

LEMMA CrashKeepsHistory ==
    ASSUME HInv, Crash
    PROVE  HInv'
<1>1. IInv'
  BY CrashKeepsIInv
<1>2. /\ running' = {} /\ list' = [o \in Obj |-> <<>>]
      /\ ideal' = [i \in Id |-> Stored(i)] /\ disturbed' = {} /\ unread' = {}
      /\ UNCHANGED <<store, faults>>
  BY DEF Crash
<1>3. TypeOK
  BY DEF HInv
<1>4. TypeOK'
  BY <1>1, <1>2, <1>3, EmptyCommands, StoredOf DEF TypeOK, IInv
<1>5. HeldAsAcknowledged'
  BY <1>2 DEF HeldAsAcknowledged, Stored
<1> QED  BY <1>1, <1>2, <1>4, <1>5, HeldIsKept DEF HInv

(***************************************************************************)
(* What a recorder in service holds, and what etcd holds when none is, is  *)
(* what was acknowledged, and every list keeps its bounds: for any number  *)
(* of users, objects, commands and failures, through every Load (Replay),  *)
(* eviction, logout, late save and crash.                                  *)
(***************************************************************************)
THEOREM HistoryKept == Spec => [](TypeOK /\ KeepsHistory)
<1>1. Init => HInv
  <2> SUFFICES ASSUME Init PROVE HInv
    OBVIOUS
  <2>1. IInv
    BY EmptyIsIInv DEF Init
  <2>2. TypeOK
    BY <2>1, EmptyCommands, MaxFaultsAssumption DEF Init, TypeOK, IInv
  <2>3. HeldAsAcknowledged
    BY DEF Init, HeldAsAcknowledged, Stored
  <2> QED  BY <2>1, <2>2, <2>3, HeldIsKept DEF HInv, Init
<1>2. HInv /\ [Next]_vars => HInv'
  <2> SUFFICES ASSUME HInv, [Next]_vars  PROVE HInv'
    OBVIOUS
  <2>1. ASSUME NEW i \in Id, NEW q \in Request, Hit(i, q) \/ Run(i, q)
        PROVE  HInv'
    BY <2>1, HitKeepsHistory, RunKeepsHistory
  <2>2. CASE Register
    BY <2>2, RegisterKeepsHistory
  <2>3. ASSUME NEW i \in Id, Stop(i)  PROVE HInv'
    BY <2>3, StopKeepsHistory
  <2>4. ASSUME NEW o \in Obj, NEW ok \in BOOLEAN, Tick(o, ok)  PROVE HInv'
    <3>1. IInv'
      BY <2>4 DEF Tick, objects, HInv, IInv, ControlTypeOK, OneWriterPerId,
                  Known, Registered, Starting, Distinct, Elements
    <3> QED  BY <2>4, <3>1, TickKeepsHistory
  <2>5. ASSUME NEW o \in Obj, Finish(o)  PROVE HInv'
    BY <2>5, FinishKeepsHistory
  <2>6. CASE Crash
    BY <2>6, CrashKeepsHistory
  <2>7. CASE UNCHANGED vars
    BY <2>7 DEF vars, objects, history, HInv, TypeOK, IInv, ControlTypeOK,
                OneWriterPerId, KeepsHistory, Known, Registered, Starting,
                Distinct, Elements, Stored
  <2> QED  BY <2>1, <2>2, <2>3, <2>4, <2>5, <2>6, <2>7 DEF Next
<1>3. HInv => TypeOK /\ KeepsHistory
  BY DEF HInv
<1> QED  BY <1>1, <1>2, <1>3, PTL DEF Spec

(* Every list, saved or in a recorder, is without repetitions and within the
   capacity of a recorder. *)
THEOREM RecorderTyped == Spec => []TypeOK
BY HistoryKept, PTL

=============================================================================
