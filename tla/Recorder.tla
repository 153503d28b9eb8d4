------------------------------ MODULE Recorder ------------------------------
(***************************************************************************)
(* Package recorder (src/recorder/recorder.go) in one search server: the   *)
(* recorderManager with its LRU set of persistentRecorders, the goroutine  *)
(* each recorder runs, and the etcd keys they load from and save to.       *)
(*                                                                         *)
(* Manager operations hold r.mtx throughout.  A request that finds no      *)
(* recorder takes two steps, because the new recorder's goroutine already  *)
(* runs when recorderSet.Add evicts another one; every other operation is  *)
(* one step.  sync lists and saves under p.m, so it is one step, taken     *)
(* when the Put settles.  A Put that reports an error may have been        *)
(* applied; nobody looks at the error, so only the effect is modelled.     *)
(***************************************************************************)
EXTENDS History

CONSTANTS
    Id,             \* uids, the names of the recorders
    Empty,          \* the empty command ""
    Look,           \* a Find request (Find changes no recorder)
    None,           \* Go's nil; the value of an absent etcd key
    Obj,            \* bound: persistentRecorder objects alive at one time
    RecorderNum,    \* capacity of recorderManager.recorderSet
    MaxFaults       \* bound: etcd requests that fail

ASSUME RecorderNumAssumption == RecorderNum \in Nat \ {0}
ASSUME MaxFaultsAssumption == MaxFaults \in Nat
ASSUME NamesAssumption ==
    /\ Empty \notin Cmd
    /\ Look \notin Cmd \cup {Empty}
    /\ None \notin Id \cup Obj \cup Commands

VARIABLES
    set,        \* recorderManager.recorderSet: objects, newest first
    busy,       \* the request between Run and recorderSet.Add, or None
    running,    \* objects whose goroutine has started and not ended
    stopCh,     \* objects whose stopCh (buffer of 1) holds "Done"
    rid,        \* persistentRecorder.f, as the id it was made for
    list,       \* persistentRecorder.r.List(): commands, newest first
    store,      \* etcd under /mysh/data/: what an id's key holds
    faults,     \* failed etcd requests so far
    ideal,      \* history: the commands acknowledged for an id
    disturbed,  \* history: ids whose saved history a fault has damaged
    unread      \* history: objects whose Load failed though commands were stored

objects == <<running, stopCh, rid, list>>
history == <<ideal, disturbed, unread>>
vars == <<set, busy, objects, store, faults, history>>

Request == Cmd \cup {Empty, Look}

ASSUME NoneAssumption == None \notin [o : Obj, q : Request]

(* The types of the manager, its objects and their goroutines. *)
ControlTypeOK ==
    /\ set \in Seq(Obj)
    /\ busy \in [o : Obj, q : Request] \cup {None}
    /\ running \in SUBSET Obj
    /\ stopCh \in SUBSET Obj
    /\ rid \in [Obj -> Id \cup {None}]

(* Together with the types of what is stored; a history never repeats a
   command and never exceeds the recorder's capacity. *)
TypeOK ==
    /\ ControlTypeOK
    /\ list \in [Obj -> Commands]
    /\ store \in [Id -> Commands \cup {None}]
    /\ faults \in 0..MaxFaults
    /\ ideal \in [Id -> Commands]
    /\ disturbed \in SUBSET Id
    /\ unread \in SUBSET Obj

(* Objects in the set, the one on its way into it, and both. *)
Registered == Elements(set)
Starting == IF busy = None THEN {} ELSE {busy.o}
Known == Registered \cup Starting

Stored(i) == IF store[i] = None THEN <<>> ELSE store[i]

-----------------------------------------------------------------------------

Init ==
    /\ set = <<>>
    /\ busy = None
    /\ running = {}
    /\ stopCh = {}
    /\ rid = [o \in Obj |-> None]
    /\ list = [o \in Obj |-> <<>>]
    /\ store = [i \in Id |-> None]
    /\ faults = 0
    /\ ideal = [i \in Id |-> <<>>]
    /\ disturbed = {}
    /\ unread = {}

(* An etcd request succeeds, or spends one of the failures allowed. *)
Etcd(ok) ==
    /\ ok \/ faults < MaxFaults
    /\ faults' = IF ok THEN faults ELSE faults + 1

(* sync: the recorder's whole list replaces what its key holds. *)
sync(o, ok) ==
    /\ Etcd(ok)
    /\ store' = IF ok THEN [store EXCEPT ![rid[o]] = list[o]] ELSE store

StopRecorder_NoSend(o, ok) ==       \* mutant: saves, sends nothing
    /\ sync(o, ok)
    /\ disturbed' = IF ok THEN disturbed ELSE disturbed \cup {rid[o]}
    /\ UNCHANGED stopCh

(* persistentRecorder.Stop: a last sync, its error ignored, then a send
   that blocks while the buffer is full. *)
StopRecorder(o, ok) ==
    /\ o \notin stopCh
    /\ sync(o, ok)
    /\ stopCh' = stopCh \cup {o}
    /\ disturbed' = IF ok THEN disturbed ELSE disturbed \cup {rid[o]}

Apply_EmptyRecorded(o, q) ==        \* mutant: Add without the check for ""
    LET Recorded(s) == IF q = Look THEN s ELSE Touch(s, q, Capacity)
    IN  /\ list' = [list EXCEPT ![o] = Recorded(@)]
        /\ ideal' = [ideal EXCEPT ![rid[o]] = Serve(@, q)]

(* The last line of manager Add and Find: the request reaches object o. *)
Apply(o, q) ==
    /\ list' = [list EXCEPT ![o] = Serve(@, q)]
    /\ ideal' = [ideal EXCEPT ![rid[o]] = Serve(@, q)]

(***************************************************************************)
(* recorderManager.Add and Find for an id whose recorder is in the set.    *)
(***************************************************************************)
Hit(i, q) ==
    /\ busy = None
    /\ \E k \in 1..Len(set) :
        /\ rid[set[k]] = i
        /\ set' = ToFront(set, k)
        /\ Apply(set[k], q)
    /\ UNCHANGED <<busy, running, stopCh, rid, store, faults,
                   disturbed, unread>>

(***************************************************************************)
(* tryRun for an id that has none: a new recorder marks itself inited,     *)
(* loads its key and starts its goroutine; Run drops initOrLoad's error,   *)
(* so a Load that fails leaves an empty recorder in service.               *)
(***************************************************************************)
Run(i, q) ==
    /\ busy = None
    /\ \A o \in Registered : rid[o] # i
    /\ \E o \in Obj \ running, ok \in BOOLEAN :
        /\ Etcd(ok)
        /\ busy' = [o |-> o, q |-> q]
        /\ running' = running \cup {o}
        /\ rid' = [rid EXCEPT ![o] = i]
        /\ list' = [list EXCEPT ![o] = IF ok THEN Replay(Stored(i)) ELSE <<>>]
        /\ disturbed' = IF ok THEN disturbed ELSE disturbed \cup {i}
        /\ unread' = IF ok \/ Stored(i) = <<>> THEN unread ELSE unread \cup {o}
    /\ UNCHANGED <<set, stopCh, store, ideal>>

(***************************************************************************)
(* recorderSet.Add of the new recorder, which stops the one it evicts from *)
(* a full set, then the request itself.                                    *)
(***************************************************************************)
Register ==
    /\ busy # None
    /\ \/ /\ Len(set) = RecorderNum
          /\ \E ok \in BOOLEAN : StopRecorder(set[Len(set)], ok)
          /\ set' = PushFront(DropAt(set, Len(set)), busy.o)
       \/ /\ Len(set) # RecorderNum
          /\ set' = PushFront(set, busy.o)
          /\ UNCHANGED <<store, faults, stopCh, disturbed>>
    /\ Apply(busy.o, busy.q)
    /\ busy' = None
    /\ UNCHANGED <<running, rid, unread>>

Stop_RemoveOnly(i) ==               \* mutant: drops it without Stop()
    /\ busy = None
    /\ \E k \in 1..Len(set) : rid[set[k]] = i /\ set' = DropAt(set, k)
    /\ UNCHANGED <<busy, objects, store, faults, history>>

Stop_NotRemoved(i) ==               \* mutant: recorderSet.Remove forgotten
    /\ busy = None
    /\ \E k \in 1..Len(set), ok \in BOOLEAN :
        rid[set[k]] = i /\ StopRecorder(set[k], ok)
    /\ UNCHANGED <<set, busy, running, rid, list, ideal, unread>>

(* recorderManager.Stop, which UidLogout calls. *)
Stop(i) ==
    /\ busy = None
    /\ \E k \in 1..Len(set), ok \in BOOLEAN :
        /\ rid[set[k]] = i
        /\ StopRecorder(set[k], ok)
        /\ set' = DropAt(set, k)
    /\ UNCHANGED <<busy, running, rid, list, ideal, unread>>

Tick_OnlyStopped(o, ok) ==          \* mutant: the loop saves at its end only
    /\ o \in running \cap stopCh
    /\ sync(o, ok)
    /\ UNCHANGED <<set, busy, objects, history>>

(***************************************************************************)
(* The goroutine's select.  The ticker may win although "Done" waits, so a *)
(* stopped recorder may still save; that damages the saved history when a  *)
(* newer recorder of the id has come and gone in between.                  *)
(***************************************************************************)
Tick(o, ok) ==
    /\ o \in running
    /\ sync(o, ok)
    /\ disturbed' = IF /\ ok
                       /\ \A p \in Known : rid[p] # rid[o]
                       /\ list[o] # ideal[rid[o]]
                    THEN disturbed \cup {rid[o]}
                    ELSE disturbed
    /\ UNCHANGED <<set, busy, objects, ideal, unread>>

Finish_BareBreak(o) ==              \* mutant: break without the label
    /\ o \in running \cap stopCh
    /\ stopCh' = stopCh \ {o}
    /\ UNCHANGED <<set, busy, running, rid, list, store, faults, history>>

(* The other branch: the goroutine ends and the object is garbage. *)
Finish(o) ==
    /\ o \in running \cap stopCh
    /\ running' = running \ {o}
    /\ stopCh' = stopCh \ {o}
    /\ rid' = [rid EXCEPT ![o] = None]
    /\ list' = [list EXCEPT ![o] = <<>>]
    /\ unread' = unread \ {o}
    /\ UNCHANGED <<set, busy, store, faults, ideal, disturbed>>

(***************************************************************************)
(* The process dies and restarts: only etcd is left, and it is what users  *)
(* get from now on.                                                        *)
(***************************************************************************)
Crash ==
    /\ set' = <<>>
    /\ busy' = None
    /\ running' = {}
    /\ stopCh' = {}
    /\ rid' = [o \in Obj |-> None]
    /\ list' = [o \in Obj |-> <<>>]
    /\ ideal' = [i \in Id |-> Stored(i)]
    /\ disturbed' = {}
    /\ unread' = {}
    /\ UNCHANGED <<store, faults>>

Next ==
    \/ \E i \in Id, q \in Request : Hit(i, q) \/ Run(i, q)
    \/ Register
    \/ \E i \in Id : Stop(i)
    \/ \E o \in Obj, ok \in BOOLEAN : Tick(o, ok)
    \/ \E o \in Obj : Finish(o)
    \/ Crash

(* A request under way is carried through; the ticker keeps firing; Go's
   select takes a ready stopCh sooner or later. *)
Fairness ==
    /\ WF_vars(Register)
    /\ \A o \in Obj : WF_vars(\E ok \in BOOLEAN : Tick(o, ok)) /\ WF_vars(Finish(o))

Spec == Init /\ [][Next]_vars /\ Fairness

-----------------------------------------------------------------------------

(***************************************************************************)
(* One id never has two recorders that nobody has told to stop: eviction,  *)
(* logout and re-creation always hand the key over.  Two would overwrite   *)
(* each other's saves every second for ever.                               *)
(***************************************************************************)
OneWriterPerId ==
    \A o, p \in running \ stopCh : rid[o] = rid[p] => o = p

(***************************************************************************)
(* Every goroutine that was not told to stop can still be reached through  *)
(* the set (or is about to be put there): none saves for ever unobserved.  *)
(***************************************************************************)
NoOrphanWriter == running \ stopCh \subseteq Known

(***************************************************************************)
(* Stop's send finds room: a recorder that can still be stopped has an     *)
(* empty stopCh.  The manager sends while it holds r.mtx (and, evicting,   *)
(* the LRU's lock), so a full buffer would hang every user.                *)
(***************************************************************************)
StopNeverBlocks == Known \cap stopCh = {}

(***************************************************************************)
(* What a user gets back is exactly what was acknowledged: the recorder in *)
(* service holds the acknowledged commands in order of use, and when none  *)
(* is in service the store does, through eviction, logout and re-creation; *)
(* except where a Load or a last save failed or a stopped recorder saved   *)
(* stale data.                                                             *)
(***************************************************************************)
KeepsHistory ==
    \A i \in Id \ disturbed :
        /\ \A o \in Known : rid[o] = i => list[o] = ideal[i]
        /\ (\A o \in Known : rid[o] # i) => Stored(i) = ideal[i]

(***************************************************************************)
(* Whatever is in a registered recorder reaches etcd in the end (or the    *)
(* recorder is retired): the one-second ticker bounds the loss.            *)
(***************************************************************************)
EventuallySaved ==
    \A o \in Obj :
        o \in Registered ~> \/ o \notin Registered
                            \/ store[rid[o]] = list[o]

(* A recorder told to stop does end its goroutine. *)
StoppedFinishes == \A o \in Obj : o \in stopCh ~> o \notin running

(***************************************************************************)
(* checkInited refuses to serve from a recorder that "is not inited or     *)
(* load" (recorder.go:196): no recorder in service missed what is stored.  *)
(***************************************************************************)
ServesOnlyLoaded == Registered \cap unread = {}

=============================================================================
