------------------------------ MODULE EtcdLock ------------------------------
(***************************************************************************)
(* The distributed lock of src/lib/etcd/etcd.go: Lock, tryLock, UnLock and *)
(* their caller AtomicMultiKVOp, on one key, from several goroutines of    *)
(* several processes, over etcd's leases and transactions.                 *)
(*                                                                         *)
(* Lock takes a lease of 10 seconds that nobody renews, so a lease may     *)
(* expire at any step.  AtomicMultiKVOp ignores what Lock returns: an      *)
(* error leads straight to the work.  lockRecord belongs to the process,   *)
(* not to the goroutine that took the lock.  The names say "lock" where    *)
(* other modules have Init, Next and Spec, so that the module can be       *)
(* extended together with one of them.                                     *)
(***************************************************************************)
EXTENDS Naturals, FiniteSets

CONSTANTS
    Proc,           \* operating system processes
    Gor,            \* goroutines that call AtomicMultiKVOp
    ProcOf,         \* the process of a goroutine
    Lease,          \* bound: lease IDs in use at one time
    NoLease,
    MaxFaults       \* bound: failed etcd requests and crashes

ASSUME ProcOfAssumption == ProcOf \in [Gor -> Proc]
ASSUME NoLeaseAssumption == NoLease \notin Lease
ASSUME MaxFaultsAssumption == MaxFaults \in Nat

VARIABLES
    at,             \* where a goroutine is in AtomicMultiKVOp
    leaseId,        \* the lease its Lock was granted
    lockRecord,     \* lockRecord[k] of a process
    live,           \* etcd: the leases that have not expired
    key,            \* etcd: the lease the lock's key is bound to, or NoLease
    faults,
    disturbed       \* history: a Lock failed, or a holder's lease expired

lockVars == <<at, leaseId, lockRecord, live, key, faults, disturbed>>

(* "got" is between tryLock's success and the entry in lockRecord. *)
Stage == {"idle", "try", "got", "work", "unlock"}

LockTypeOK ==
    /\ at \in [Gor -> Stage]
    /\ leaseId \in [Gor -> Lease \cup {NoLease}]
    /\ lockRecord \in [Proc -> Lease \cup {NoLease}]
    /\ live \in SUBSET Lease
    /\ key \in Lease \cup {NoLease}
    /\ faults \in 0..MaxFaults
    /\ disturbed \in BOOLEAN

Holding == {g \in Gor : at[g] \in {"got", "work", "unlock"}}
InUse == live \cup {leaseId[g] : g \in Gor} \cup {lockRecord[p] : p \in Proc}

MoveTo(g, stage) == at' = [at EXCEPT ![g] = stage]
Fault == faults < MaxFaults /\ faults' = faults + 1

-----------------------------------------------------------------------------

LockInit ==
    /\ at = [g \in Gor |-> "idle"]
    /\ leaseId = [g \in Gor |-> NoLease]
    /\ lockRecord = [p \in Proc |-> NoLease]
    /\ live = {}
    /\ key = NoLease
    /\ faults = 0
    /\ disturbed = FALSE

(* Lock: cli.Grant returns a fresh lease, or an error that Lock returns and
   AtomicMultiKVOp drops. *)
Grant(g) ==
    /\ at[g] = "idle"
    /\ \E i \in Lease \ InUse :
        /\ live' = live \cup {i}
        /\ leaseId' = [leaseId EXCEPT ![g] = i]
    /\ MoveTo(g, "try")
    /\ UNCHANGED <<lockRecord, key, faults, disturbed>>

GrantFails(g) ==
    /\ at[g] = "idle"
    /\ Fault
    /\ MoveTo(g, "work")
    /\ disturbed' = TRUE
    /\ UNCHANGED <<leaseId, lockRecord, live, key>>

(***************************************************************************)
(* tryLock: one transaction, "if the key does not exist, put it with my    *)
(* lease".  While the key exists the loop goes round.  When it does not    *)
(* but the lease is gone, the Put fails and Lock returns the error.        *)
(***************************************************************************)
tryLock_NoLease(g) ==           \* mutant: WithLease forgotten, lease 0 is none
    /\ at[g] = "try"
    /\ key = NoLease
    /\ key' = 0
    /\ MoveTo(g, "got")
    /\ UNCHANGED <<leaseId, lockRecord, live, faults, disturbed>>

tryLock(g) ==
    /\ at[g] = "try"
    /\ key = NoLease
    /\ leaseId[g] \in live
    /\ key' = leaseId[g]
    /\ MoveTo(g, "got")
    /\ UNCHANGED <<leaseId, lockRecord, live, faults, disturbed>>

tryLockExpired(g) ==
    /\ at[g] = "try"
    /\ key = NoLease
    /\ leaseId[g] \notin live
    /\ MoveTo(g, "work")
    /\ disturbed' = TRUE
    /\ UNCHANGED <<leaseId, lockRecord, live, key, faults>>

(* The transaction's answer is lost; it may have been applied. *)
tryLockFails(g) ==
    /\ at[g] = "try"
    /\ Fault
    /\ \/ UNCHANGED key
       \/ key = NoLease /\ leaseId[g] \in live /\ key' = leaseId[g]
    /\ MoveTo(g, "work")
    /\ disturbed' = TRUE
    /\ UNCHANGED <<leaseId, lockRecord, live>>

(* The end of Lock: lockRecord[k] = leaseResp.ID. *)
Record_Missing(g) ==            \* mutant: the entry is not written
    /\ at[g] = "got"
    /\ MoveTo(g, "work")
    /\ UNCHANGED <<leaseId, lockRecord, live, key, faults, disturbed>>

Record(g) ==
    /\ at[g] = "got"
    /\ lockRecord' = [lockRecord EXCEPT ![ProcOf[g]] = leaseId[g]]
    /\ MoveTo(g, "work")
    /\ UNCHANGED <<leaseId, live, key, faults, disturbed>>

(* AtomicMultiKVOp's own transaction; its error changes nothing here. *)
Commit(g) ==
    /\ at[g] = "work"
    /\ MoveTo(g, "unlock")
    /\ UNCHANGED <<leaseId, lockRecord, live, key, faults, disturbed>>

(* etcd drops lease i, and the key if it is bound to i. *)
Drop(i) ==
    /\ live' = live \ {i}
    /\ key' = IF key = i THEN NoLease ELSE key

(***************************************************************************)
(* UnLock, under lockRecordMtx: revoke the lease the process has on        *)
(* record.  A Revoke that fails, because the lease has expired or the      *)
(* answer was lost, leaves the record in place.                            *)
(***************************************************************************)
UnLock(g) ==
    LET i == lockRecord[ProcOf[g]] IN
    /\ at[g] = "unlock"
    /\ \/ /\ i \in live
          /\ Drop(i)
          /\ lockRecord' = [lockRecord EXCEPT ![ProcOf[g]] = NoLease]
          /\ UNCHANGED faults
       \/ /\ i \notin live
          /\ UNCHANGED <<live, key, lockRecord, faults>>
       \/ /\ i \in live
          /\ Fault
          /\ Drop(i) \/ UNCHANGED <<live, key>>
          /\ UNCHANGED lockRecord
    /\ MoveTo(g, "idle")
    /\ leaseId' = [leaseId EXCEPT ![g] = NoLease]
    /\ UNCHANGED disturbed

(* A lease's ten seconds are over. *)
Expire_KeyStays(i) ==           \* mutant: the key was put without its lease
    /\ i \in live
    /\ live' = live \ {i}
    /\ disturbed' = (disturbed \/ \E g \in Holding : leaseId[g] = i)
    /\ UNCHANGED <<at, leaseId, lockRecord, key, faults>>

Expire(i) ==
    /\ i \in live
    /\ Drop(i)
    /\ disturbed' = (disturbed \/ \E g \in Holding : leaseId[g] = i)
    /\ UNCHANGED <<at, leaseId, lockRecord, faults>>

(* A process dies: its goroutines and its lockRecord are gone, its leases
   stay with etcd until they expire. *)
ProcCrash(p) ==
    /\ Fault
    /\ at' = [g \in Gor |-> IF ProcOf[g] = p THEN "idle" ELSE at[g]]
    /\ leaseId' = [g \in Gor |-> IF ProcOf[g] = p THEN NoLease ELSE leaseId[g]]
    /\ lockRecord' = [lockRecord EXCEPT ![p] = NoLease]
    /\ UNCHANGED <<live, key, disturbed>>

LockStep(g) ==
    \/ tryLock(g) \/ tryLockExpired(g) \/ Record(g) \/ Commit(g) \/ UnLock(g)

LockNext ==
    \/ \E g \in Gor :
        Grant(g) \/ GrantFails(g) \/ tryLockFails(g) \/ LockStep(g)
    \/ \E i \in Lease : Expire(i)
    \/ \E p \in Proc : ProcCrash(p)

(* A goroutine inside AtomicMultiKVOp keeps running (the polling loop never
   sleeps for long), and etcd does expire leases nobody renews. *)
LockFairness ==
    /\ \A g \in Gor : WF_lockVars(LockStep(g))
    /\ \A i \in Lease : WF_lockVars(Expire(i))

LockSpec == LockInit /\ [][LockNext]_lockVars /\ LockFairness

-----------------------------------------------------------------------------

(***************************************************************************)
(* Until a Lock has failed or a holder's lease has expired, at most one    *)
(* goroutine of all processes is past tryLock, the key is bound to its     *)
(* lease, and its process has that lease on record, so that its UnLock     *)
(* releases its own lock and no other; crashes and failed revocations      *)
(* included.                                                               *)
(***************************************************************************)
ExclusiveUnlessDisturbed ==
    ~disturbed =>
        \A g \in Holding :
            /\ \A h \in Holding : g = h
            /\ key = leaseId[g]
            /\ at[g] # "got" => lockRecord[ProcOf[g]] = leaseId[g]

(***************************************************************************)
(* The key never outlives its lease: a crashed or stuck holder keeps       *)
(* nobody out for longer than the ten seconds.                             *)
(***************************************************************************)
KeyHasLiveLease == key # NoLease => key \in live

(***************************************************************************)
(* While goroutines wait in Lock, some goroutine gets to its work: lost    *)
(* answers, crashes and stale records never wedge the lock.                *)
(***************************************************************************)
SomeoneEnters ==
    (\E g \in Gor : at[g] = "try")
        ~> \/ \E g \in Gor : at[g] = "work"
           \/ \A g \in Gor : at[g] # "try"

(***************************************************************************)
(* What test/etcd-test/etcdLockTest.go:13-17 relies on: between Lock and   *)
(* UnLock a goroutine is alone.                                            *)
(***************************************************************************)
MutualExclusion ==
    \A g, h \in Gor : at[g] = "work" /\ at[h] = "work" => g = h

=============================================================================
