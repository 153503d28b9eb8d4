----------------------------- MODULE DashProofs -----------------------------
(***************************************************************************)
(* The dash for any number of processes, calls, uids and endpoints: the    *)
(* index of an endpoint covers its uids, is exact while no two calls about *)
(* a uid overlap, and a suspended uid has a call that will resume it.      *)
(* Then the lock that serialises the dash's transactions: a call that got  *)
(* it is alone while it has its lease.                                     *)
(***************************************************************************)
EXTENDS Dash, EtcdLock, TLAPS

Moving == {"list", "logout", "update", "resume"}
HasNew == {"add", "check", "suspend"} \cup Moving
HasCur == {"hash", "check", "suspend"} \cup Moving

(* What a call has in hand, by the place it is at. *)
Holds ==
    \A c \in Call :
        /\ pc[c] = "idle" <=> uid[c] = None
        /\ pc[c] \in HasNew => new[c] \in Endpoint
        /\ pc[c] \in HasCur => cur[c] \in Endpoint

(* A uid that is not overlapped has one call, and what that call has read
   of etcd is still there until it writes. *)
AloneUnlessOverlapped ==
    \A u \in Uid \ overlapped : \A b, c \in Call :
        uid[b] = u /\ uid[c] = u => b = c

ReadIsFresh ==
    \A u \in Uid \ overlapped : \A c \in Call :
        uid[c] = u =>
            /\ pc[c] \in {"alloc", "add"} => endpoint[u] = None
            /\ pc[c] \in HasCur \ {"resume"} => cur[c] = endpoint[u]

IInv ==
    /\ TypeOK
    /\ Holds
    /\ AloneUnlessOverlapped
    /\ ReadIsFresh
    /\ IndexCovers
    /\ IndexExactUnlessOverlapped
    /\ PausedHasMover

USE DEF At, Goto, Place, Moving, HasNew, HasCur

-----------------------------------------------------------------------------
(* One lemma for each kind of step. *)

(* A second call about a uid marks it as overlapped. *)
LEMMA AdmitKeeps ==
    ASSUME IInv, NEW c \in Call, NEW u \in Uid, Admit(c, u)
    PROVE  IInv'
<1>1. TypeOK'
  BY DEF IInv, TypeOK, Admit, stored
<1>2. Holds'
  BY NoneAssumption DEF IInv, TypeOK, Holds, Admit, stored
<1>3. AloneUnlessOverlapped'
  BY NoneAssumption DEF IInv, TypeOK, AloneUnlessOverlapped, Admit, stored
<1>4. ReadIsFresh'
  BY DEF IInv, TypeOK, Holds, ReadIsFresh, Admit, stored
<1>5. IndexCovers'
  BY DEF IInv, TypeOK, IndexCovers, Admit, stored
<1>6. IndexExactUnlessOverlapped'
  BY DEF IInv, TypeOK, IndexExactUnlessOverlapped, Admit, stored
<1>7. PausedHasMover'
  BY DashOfAssumption, NoneAssumption DEF IInv, TypeOK, Holds,
     PausedHasMover, Admit, stored
<1> QED  BY <1>1, <1>2, <1>3, <1>4, <1>5, <1>6, <1>7 DEF IInv

(* waitUid lets a call go on. *)
LEMMA WaitKeeps ==
    ASSUME IInv, NEW c \in Call, WaitUid(c)
    PROVE  IInv'
<1>1. TypeOK'
  BY DEF IInv, TypeOK, WaitUid, stored
<1>2. Holds'
  BY NoneAssumption DEF IInv, TypeOK, Holds, WaitUid, stored
<1>3. AloneUnlessOverlapped'
  BY NoneAssumption DEF IInv, TypeOK, AloneUnlessOverlapped, WaitUid, stored
<1>4. ReadIsFresh'
  BY DEF IInv, TypeOK, Holds, ReadIsFresh, WaitUid, stored
<1>5. IndexCovers'
  BY DEF IInv, TypeOK, IndexCovers, WaitUid, stored
<1>6. IndexExactUnlessOverlapped'
  BY DEF IInv, TypeOK, IndexExactUnlessOverlapped, WaitUid, stored
<1>7. PausedHasMover'
  BY DashOfAssumption, NoneAssumption DEF IInv, TypeOK, Holds,
     PausedHasMover, WaitUid, stored
<1> QED  BY <1>1, <1>2, <1>3, <1>4, <1>5, <1>6, <1>7 DEF IInv

(* etcd.GetKV. *)
LEMMA ReadKeeps ==
    ASSUME IInv, NEW c \in Call, ReadEndpoint(c)
    PROVE  IInv'
<1>1. TypeOK'
  BY DEF IInv, TypeOK, Holds, ReadEndpoint, Return, stored
<1>2. Holds'
  BY NoneAssumption DEF IInv, TypeOK, Holds, ReadEndpoint, Return, stored
<1>3. AloneUnlessOverlapped'
  BY NoneAssumption DEF IInv, TypeOK, AloneUnlessOverlapped, ReadEndpoint,
     Return, stored
<1>4. ReadIsFresh'
  BY DEF IInv, TypeOK, Holds, ReadIsFresh, ReadEndpoint, Return, stored
<1>5. IndexCovers'
  BY DEF IInv, TypeOK, IndexCovers, ReadEndpoint, Return, stored
<1>6. IndexExactUnlessOverlapped'
  BY DEF IInv, TypeOK, IndexExactUnlessOverlapped, ReadEndpoint, Return,
     stored
<1>7. PausedHasMover'
  BY DashOfAssumption, NoneAssumption DEF IInv, TypeOK, Holds,
     PausedHasMover, ReadEndpoint, Return, stored
<1> QED  BY <1>1, <1>2, <1>3, <1>4, <1>5, <1>6, <1>7 DEF IInv

(* hr.GetNode answers with a node. *)
LEMMA GetNodeKeeps ==
    ASSUME IInv, NEW c \in Call,
           GetNode(c, "alloc", "add") \/ GetNode(c, "hash", "check")
    PROVE  IInv'
<1>1. TypeOK'
  BY DEF IInv, TypeOK, Holds, GetNode, stored
<1>2. Holds'
  BY NoneAssumption DEF IInv, TypeOK, Holds, GetNode, stored
<1>3. AloneUnlessOverlapped'
  BY NoneAssumption DEF IInv, TypeOK, AloneUnlessOverlapped, GetNode, stored
<1>4. ReadIsFresh'
  BY DEF IInv, TypeOK, Holds, ReadIsFresh, GetNode, stored
<1>5. IndexCovers'
  BY DEF IInv, TypeOK, IndexCovers, GetNode, stored
<1>6. IndexExactUnlessOverlapped'
  BY DEF IInv, TypeOK, IndexExactUnlessOverlapped, GetNode, stored
<1>7. PausedHasMover'
  BY DashOfAssumption, NoneAssumption DEF IInv, TypeOK, Holds,
     PausedHasMover, GetNode, stored
<1> QED  BY <1>1, <1>2, <1>3, <1>4, <1>5, <1>6, <1>7 DEF IInv

(* addEpInfo writes a uid and its index together. *)
LEMMA AddKeeps ==
    ASSUME IInv, NEW c \in Call, addEpInfo(c)
    PROVE  IInv'
<1>1. TypeOK'
  BY DEF IInv, TypeOK, Holds, addEpInfo, Return, stored
<1>2. Holds'
  BY NoneAssumption DEF IInv, TypeOK, Holds, addEpInfo, Return, stored
<1>3. AloneUnlessOverlapped'
  BY NoneAssumption DEF IInv, TypeOK, AloneUnlessOverlapped, addEpInfo,
     Return, stored
<1>4. ReadIsFresh'
  BY NoneAssumption DEF IInv, TypeOK, Holds, AloneUnlessOverlapped,
     ReadIsFresh, addEpInfo, Return, stored
<1>5. IndexCovers'
  BY DEF IInv, TypeOK, Holds, IndexCovers, addEpInfo, Return, stored
<1>6. IndexExactUnlessOverlapped'
  BY NoneAssumption DEF IInv, TypeOK, Holds, AloneUnlessOverlapped,
     ReadIsFresh, IndexExactUnlessOverlapped, addEpInfo, Return, stored
<1>7. PausedHasMover'
  BY DashOfAssumption, NoneAssumption DEF IInv, TypeOK, Holds,
     PausedHasMover, addEpInfo, Return, stored
<1> QED  BY <1>1, <1>2, <1>3, <1>4, <1>5, <1>6, <1>7 DEF IInv

(* The answer is the current endpoint, or a move begins. *)
LEMMA CheckKeeps ==
    ASSUME IInv, NEW c \in Call, Check(c)
    PROVE  IInv'
<1>1. TypeOK'
  BY DEF IInv, TypeOK, Check, Return, stored
<1>2. Holds'
  BY NoneAssumption DEF IInv, TypeOK, Holds, Check, Return, stored
<1>3. AloneUnlessOverlapped'
  BY NoneAssumption DEF IInv, TypeOK, AloneUnlessOverlapped, Check, Return,
     stored
<1>4. ReadIsFresh'
  BY DEF IInv, TypeOK, Holds, ReadIsFresh, Check, Return, stored
<1>5. IndexCovers'
  BY DEF IInv, TypeOK, IndexCovers, Check, Return, stored
<1>6. IndexExactUnlessOverlapped'
  BY DEF IInv, TypeOK, IndexExactUnlessOverlapped, Check, Return, stored
<1>7. PausedHasMover'
  BY DashOfAssumption, NoneAssumption DEF IInv, TypeOK, Holds,
     PausedHasMover, Check, Return, stored
<1> QED  BY <1>1, <1>2, <1>3, <1>4, <1>5, <1>6, <1>7 DEF IInv

(* A uid is suspended by a call that moves it. *)
LEMMA SuspendKeeps ==
    ASSUME IInv, NEW c \in Call, uidSuspend(c)
    PROVE  IInv'
<1>1. TypeOK'
  BY DashOfAssumption DEF IInv, TypeOK, Holds, uidSuspend, stored
<1>2. Holds'
  BY NoneAssumption DEF IInv, TypeOK, Holds, uidSuspend, stored
<1>3. AloneUnlessOverlapped'
  BY NoneAssumption DEF IInv, TypeOK, AloneUnlessOverlapped, uidSuspend,
     stored
<1>4. ReadIsFresh'
  BY DEF IInv, TypeOK, Holds, ReadIsFresh, uidSuspend, stored
<1>5. IndexCovers'
  BY DEF IInv, TypeOK, IndexCovers, uidSuspend, stored
<1>6. IndexExactUnlessOverlapped'
  BY DEF IInv, TypeOK, IndexExactUnlessOverlapped, uidSuspend, stored
<1>7. PausedHasMover'
  BY DashOfAssumption, NoneAssumption DEF IInv, TypeOK, Holds,
     PausedHasMover, uidSuspend, stored
<1> QED  BY <1>1, <1>2, <1>3, <1>4, <1>5, <1>6, <1>7 DEF IInv

(* The steps of a move before its write. *)
LEMMA ListKeeps ==
    ASSUME IInv, NEW c \in Call, ListUids(c) \/ UidLogout(c)
    PROVE  IInv'
<1>1. TypeOK'
  BY DEF IInv, TypeOK, ListUids, UidLogout, stored
<1>2. Holds'
  BY NoneAssumption DEF IInv, TypeOK, Holds, ListUids, UidLogout, stored
<1>3. AloneUnlessOverlapped'
  BY NoneAssumption DEF IInv, TypeOK, AloneUnlessOverlapped, ListUids,
     UidLogout, stored
<1>4. ReadIsFresh'
  BY DEF IInv, TypeOK, Holds, ReadIsFresh, ListUids, UidLogout, stored
<1>5. IndexCovers'
  BY DEF IInv, TypeOK, IndexCovers, ListUids, UidLogout, stored
<1>6. IndexExactUnlessOverlapped'
  BY DEF IInv, TypeOK, IndexExactUnlessOverlapped, ListUids, UidLogout,
     stored
<1>7. PausedHasMover'
  BY DashOfAssumption, NoneAssumption DEF IInv, TypeOK, Holds,
     PausedHasMover, ListUids, UidLogout, stored
<1> QED  BY <1>1, <1>2, <1>3, <1>4, <1>5, <1>6, <1>7 DEF IInv

(* updateEpInfo writes a uid and both indices together. *)
LEMMA UpdateKeeps ==
    ASSUME IInv, NEW c \in Call, updateEpInfo(c)
    PROVE  IInv'
<1>1. TypeOK'
  BY DEF IInv, TypeOK, Holds, updateEpInfo, stored
<1>2. Holds'
  BY NoneAssumption DEF IInv, TypeOK, Holds, updateEpInfo, stored
<1>3. AloneUnlessOverlapped'
  BY NoneAssumption DEF IInv, TypeOK, AloneUnlessOverlapped, updateEpInfo,
     stored
<1>4. ReadIsFresh'
  BY NoneAssumption DEF IInv, TypeOK, Holds, AloneUnlessOverlapped,
     ReadIsFresh, updateEpInfo, stored
<1>5. IndexCovers'
  BY DEF IInv, TypeOK, Holds, IndexCovers, updateEpInfo, stored
<1>6. IndexExactUnlessOverlapped'
  BY NoneAssumption DEF IInv, TypeOK, Holds, AloneUnlessOverlapped,
     ReadIsFresh, IndexExactUnlessOverlapped, updateEpInfo, stored
<1>7. PausedHasMover'
  BY DashOfAssumption, NoneAssumption DEF IInv, TypeOK, Holds,
     PausedHasMover, updateEpInfo, stored
<1> QED  BY <1>1, <1>2, <1>3, <1>4, <1>5, <1>6, <1>7 DEF IInv

(* A call that ends its move lifts the suspension. *)
LEMMA ResumeKeeps ==
    ASSUME IInv, NEW c \in Call, uidResume(c)
    PROVE  IInv'
<1>1. TypeOK'
  BY DashOfAssumption DEF IInv, TypeOK, uidResume, Return, stored
<1>2. Holds'
  BY NoneAssumption DEF IInv, TypeOK, Holds, uidResume, Return, stored
<1>3. AloneUnlessOverlapped'
  BY NoneAssumption DEF IInv, TypeOK, AloneUnlessOverlapped, uidResume,
     Return, stored
<1>4. ReadIsFresh'
  BY DEF IInv, TypeOK, Holds, ReadIsFresh, uidResume, Return, stored
<1>5. IndexCovers'
  BY DEF IInv, TypeOK, IndexCovers, uidResume, Return, stored
<1>6. IndexExactUnlessOverlapped'
  BY DEF IInv, TypeOK, IndexExactUnlessOverlapped, uidResume, Return, stored
<1>7. PausedHasMover'
  BY DashOfAssumption, NoneAssumption DEF IInv, TypeOK, Holds,
     PausedHasMover, uidResume, Return, stored
<1> QED  BY <1>1, <1>2, <1>3, <1>4, <1>5, <1>6, <1>7 DEF IInv

(* The ring and the leader change. *)
LEMMA EnvironmentKeeps ==
    ASSUME IInv, (\E u \in Uid, e \in Endpoint \cup {None} : RingChange(u, e))
           \/ (\E d \in Dashes \cup {None} : LeaderChange(d))
    PROVE  IInv'
<1>1. TypeOK'
  BY DEF IInv, TypeOK, RingChange, LeaderChange, call, stored
<1>2. Holds'
  BY NoneAssumption DEF IInv, TypeOK, Holds, RingChange, LeaderChange, call,
     stored
<1>3. AloneUnlessOverlapped'
  BY NoneAssumption DEF IInv, TypeOK, AloneUnlessOverlapped, RingChange,
     LeaderChange, call, stored
<1>4. ReadIsFresh'
  BY DEF IInv, TypeOK, Holds, ReadIsFresh, RingChange, LeaderChange, call,
     stored
<1>5. IndexCovers'
  BY DEF IInv, TypeOK, IndexCovers, RingChange, LeaderChange, call, stored
<1>6. IndexExactUnlessOverlapped'
  BY DEF IInv, TypeOK, IndexExactUnlessOverlapped, RingChange, LeaderChange,
     call, stored
<1>7. PausedHasMover'
  BY DashOfAssumption, NoneAssumption DEF IInv, TypeOK, Holds,
     PausedHasMover, RingChange, LeaderChange, call, stored
<1> QED  BY <1>1, <1>2, <1>3, <1>4, <1>5, <1>6, <1>7 DEF IInv

(* A process dies with its calls and its suspensions. *)
LEMMA CrashKeeps ==
    ASSUME IInv, NEW d \in Dashes, Crash(d)
    PROVE  IInv'
<1>1. TypeOK'
  BY DashOfAssumption DEF IInv, TypeOK, Crash, Gone, stored
<1>2. Holds'
  BY NoneAssumption DEF IInv, TypeOK, Holds, Crash, Gone, stored
<1>3. AloneUnlessOverlapped'
  BY NoneAssumption DEF IInv, TypeOK, AloneUnlessOverlapped, Crash, Gone,
     stored
<1>4. ReadIsFresh'
  BY DEF IInv, TypeOK, Holds, ReadIsFresh, Crash, Gone, stored
<1>5. IndexCovers'
  BY DEF IInv, TypeOK, IndexCovers, Crash, Gone, stored
<1>6. IndexExactUnlessOverlapped'
  BY DEF IInv, TypeOK, IndexExactUnlessOverlapped, Crash, Gone, stored
<1>7. PausedHasMover'
  BY DashOfAssumption, NoneAssumption DEF IInv, TypeOK, Holds,
     PausedHasMover, Crash, Gone, stored
<1> QED  BY <1>1, <1>2, <1>3, <1>4, <1>5, <1>6, <1>7 DEF IInv

-----------------------------------------------------------------------------

(* Every step of a call, of the environment and of a crash keeps the
   invariant. *)
LEMMA StepKeeps == IInv /\ [Next]_vars => IInv'
<1> SUFFICES ASSUME IInv, [Next]_vars  PROVE IInv'
  OBVIOUS
<1>1. ASSUME NEW c \in Call, Step(c)  PROVE IInv'
  BY <1>1, ReadKeeps, GetNodeKeeps, AddKeeps, CheckKeeps, SuspendKeeps,
     ListKeeps, UpdateKeeps, ResumeKeeps DEF Step
<1>2. ASSUME NEW c \in Call, WaitUid(c)  PROVE IInv'
  BY <1>2, WaitKeeps
<1>3. ASSUME NEW c \in Call, NEW u \in Uid, Admit(c, u)  PROVE IInv'
  BY <1>3, AdmitKeeps
<1>4. ASSUME \/ \E u \in Uid, e \in Endpoint \cup {None} : RingChange(u, e)
             \/ \E d \in Dashes \cup {None} : LeaderChange(d)
      PROVE  IInv'
  BY <1>4, EnvironmentKeeps
<1>5. ASSUME NEW d \in Dashes, Crash(d)  PROVE IInv'
  BY <1>5, CrashKeeps
<1>6. CASE UNCHANGED vars
  BY <1>6 DEF vars, call, stored, IInv, TypeOK, Holds, AloneUnlessOverlapped,
              ReadIsFresh, IndexCovers, IndexExactUnlessOverlapped,
              PausedHasMover
<1> QED  BY <1>1, <1>2, <1>3, <1>4, <1>5, <1>6 DEF Next

(***************************************************************************)
(* However calls of any number of processes, changes of the ring and of    *)
(* the leader, lost or half-acknowledged transactions and crashes          *)
(* interleave: the index of an endpoint misses none of its uids, it lists  *)
(* no other uid unless two calls about it overlapped, and a suspended uid  *)
(* has a call of the same process that will resume it.                     *)
(***************************************************************************)
THEOREM DashSafe ==
    Spec => [](/\ TypeOK
               /\ IndexCovers
               /\ IndexExactUnlessOverlapped
               /\ PausedHasMover)
<1>1. Init => IInv
  BY NoneAssumption
     DEF Init, IInv, TypeOK, Holds, AloneUnlessOverlapped, ReadIsFresh,
         IndexCovers, IndexExactUnlessOverlapped, PausedHasMover
<1>2. IInv => /\ TypeOK /\ IndexCovers
              /\ IndexExactUnlessOverlapped /\ PausedHasMover
  BY DEF IInv
<1> QED  BY <1>1, <1>2, StepKeeps, PTL DEF Spec

(* Calls, pause maps and what etcd holds of the dash keep their types; an
   endpoint on record is never the answer of an empty ring. *)
THEOREM DashTyped == Spec => []TypeOK
BY DashSafe, PTL

(* addEpInfo and updateEpInfo never leave a uid out of the index of the
   endpoint it is assigned to. *)
THEOREM IndexMissesNone == Spec => []IndexCovers
BY DashSafe, PTL

(* Without overlapping calls about it, a uid is listed by its endpoint
   alone. *)
THEOREM IndexExact == Spec => []IndexExactUnlessOverlapped
BY DashSafe, PTL

(* No path through UidEndpoint leaves a uid suspended for good. *)
THEOREM SuspensionHasMover == Spec => []PausedHasMover
BY DashSafe, PTL

-----------------------------------------------------------------------------
(***************************************************************************)
(* The lock that AtomicMultiKVOp, one step of the dash above, takes and    *)
(* gives back: module EtcdLock, for any number of processes, goroutines    *)
(* and leases.                                                             *)
(***************************************************************************)

(***************************************************************************)
(* What ExclusiveUnlessDisturbed needs to be inductive: a lease for whoever*)
(* still tries or, while undisturbed, holds.                               *)
(***************************************************************************)
HasLease ==
    \A g \in Gor :
        at[g] = "try" \/ (g \in Holding /\ ~disturbed) => leaseId[g] # NoLease

LockInv ==
    /\ LockTypeOK
    /\ KeyHasLiveLease
    /\ HasLease
    /\ ExclusiveUnlessDisturbed

(* Only the goroutine that moves can join or leave the holders. *)
LEMMA HoldingAfterGoto ==
    ASSUME LockTypeOK, NEW g \in Gor, NEW stage \in Stage, MoveTo(g, stage)
    PROVE  /\ at' \in [Gor -> Stage]
           /\ at'[g] = stage
           /\ \A h \in Gor \ {g} : at'[h] = at[h]
           /\ \A h \in Gor \ {g} : h \in Holding' <=> h \in Holding
           /\ g \in Holding' <=> stage \in {"got", "work", "unlock"}
<1>1. at' = [at EXCEPT ![g] = stage] /\ at \in [Gor -> Stage]
  BY DEF MoveTo, LockTypeOK
<1>2. /\ at' \in [Gor -> Stage] /\ at'[g] = stage
      /\ \A h \in Gor \ {g} : at'[h] = at[h]
  BY <1>1
<1> QED  BY <1>2 DEF Holding

(* Grant, whether cli.Grant answers or not: a fresh lease is nobody else's,
   and a Lock that fails disturbs. *)
LEMMA GrantKeeps ==
    ASSUME LockInv, NEW g \in Gor, Grant(g)
    PROVE  LockInv'
<1>1. PICK i \in Lease \ InUse :
        live' = live \cup {i} /\ leaseId' = [leaseId EXCEPT ![g] = i]
  BY DEF Grant
<1>2. /\ at[g] = "idle" /\ MoveTo(g, "try")
      /\ UNCHANGED <<lockRecord, key, faults, disturbed>>
  BY DEF Grant
<1>3. LockTypeOK /\ "try" \in Stage
  BY DEF LockInv, Stage
<1>4. /\ at' \in [Gor -> Stage] /\ at'[g] = "try"
      /\ \A h \in Gor \ {g} : at'[h] = at[h]
      /\ \A h \in Gor \ {g} : h \in Holding' <=> h \in Holding
      /\ g \notin Holding'
  BY <1>2, <1>3, HoldingAfterGoto
<1>5. /\ leaseId' \in [Gor -> Lease \cup {NoLease}] /\ leaseId'[g] # NoLease
      /\ \A h \in Gor \ {g} : leaseId'[h] = leaseId[h]
  BY <1>1, <1>3, NoLeaseAssumption DEF LockTypeOK
<1>6. LockTypeOK'
  BY <1>1, <1>2, <1>3, <1>4, <1>5 DEF LockTypeOK
<1>7. KeyHasLiveLease'
  BY <1>1, <1>2 DEF LockInv, KeyHasLiveLease
<1>8. HasLease'
  BY <1>2, <1>4, <1>5 DEF LockInv, HasLease
<1>9. ExclusiveUnlessDisturbed'
  <2>1. Holding' \subseteq Gor \ {g}
    BY <1>4 DEF Holding
  <2> QED  BY <1>2, <1>4, <1>5, <2>1 DEF LockInv, ExclusiveUnlessDisturbed
<1> QED  BY <1>6, <1>7, <1>8, <1>9 DEF LockInv

(* The three ways in which Lock returns an error. *)
LEMMA LockErrorKeeps ==
    ASSUME LockInv, NEW g \in Gor,
           GrantFails(g) \/ tryLockExpired(g) \/ tryLockFails(g)
    PROVE  LockInv'
<1>1. LockTypeOK /\ "work" \in Stage
  BY DEF LockInv, Stage
<1>2. /\ MoveTo(g, "work") /\ disturbed' = TRUE
      /\ UNCHANGED <<leaseId, lockRecord, live>>
  BY DEF GrantFails, tryLockExpired, tryLockFails
<1>3. /\ at' \in [Gor -> Stage] /\ at'[g] = "work"
      /\ \A h \in Gor \ {g} : at'[h] = at[h]
  BY <1>1, <1>2, HoldingAfterGoto
<1>4. faults' \in 0..MaxFaults
  BY <1>1, MaxFaultsAssumption
  DEF GrantFails, tryLockExpired, tryLockFails, Fault, LockTypeOK
<1>5. key' = key \/ (key' = leaseId[g] /\ leaseId[g] \in live)
  BY DEF GrantFails, tryLockExpired, tryLockFails
<1>6. KeyHasLiveLease'
  BY <1>2, <1>5 DEF LockInv, KeyHasLiveLease
<1>7. LockTypeOK'
  BY <1>1, <1>2, <1>3, <1>4, <1>5 DEF LockTypeOK
<1>8. HasLease' /\ ExclusiveUnlessDisturbed'
  BY <1>2, <1>3 DEF LockInv, HasLease, ExclusiveUnlessDisturbed
<1> QED  BY <1>6, <1>7, <1>8 DEF LockInv

(* Nobody holds a free lock, so whoever takes it is alone. *)
LEMMA tryLockKeeps ==
    ASSUME LockInv, NEW g \in Gor, tryLock(g)
    PROVE  LockInv'
<1>1. LockTypeOK /\ "got" \in Stage
  BY DEF LockInv, Stage
<1>2. /\ at[g] = "try" /\ key = NoLease
      /\ leaseId[g] \in live /\ key' = leaseId[g]
      /\ MoveTo(g, "got")
      /\ UNCHANGED <<leaseId, lockRecord, live, faults, disturbed>>
  BY DEF tryLock
<1>3. /\ at' \in [Gor -> Stage] /\ at'[g] = "got"
      /\ \A h \in Gor \ {g} : at'[h] = at[h]
      /\ \A h \in Gor \ {g} : h \in Holding' <=> h \in Holding
  BY <1>1, <1>2, HoldingAfterGoto
<1>4. LockTypeOK'
  BY <1>1, <1>2, <1>3 DEF LockTypeOK
<1>5. KeyHasLiveLease'
  BY <1>2 DEF KeyHasLiveLease
<1>6. leaseId[g] # NoLease
  BY <1>1, <1>2, NoLeaseAssumption DEF LockTypeOK
<1>7. HasLease'
  BY <1>2, <1>3, <1>6 DEF LockInv, HasLease
<1>8. ExclusiveUnlessDisturbed'
  <2> SUFFICES ASSUME ~disturbed'  PROVE ExclusiveUnlessDisturbed'
    BY DEF ExclusiveUnlessDisturbed
  <2>1. Holding = {}
    <3> SUFFICES ASSUME NEW h \in Holding PROVE FALSE
      OBVIOUS
    <3>1. h \in Gor
      BY DEF Holding
    <3>2. key = leaseId[h] /\ leaseId[h] # NoLease
      BY <1>2, <3>1 DEF LockInv, ExclusiveUnlessDisturbed, HasLease
    <3> QED  BY <1>2, <3>2
  <2>2. \A h \in Holding' : h = g
    BY <1>3, <2>1 DEF Holding
  <2> QED  BY <1>2, <1>3, <2>2 DEF ExclusiveUnlessDisturbed
<1> QED  BY <1>4, <1>5, <1>7, <1>8 DEF LockInv

(* The lockRecord entry that ends Lock: the one holder's process gets its
   own lease on record. *)
LEMMA RecordKeeps ==
    ASSUME LockInv, NEW g \in Gor, Record(g)
    PROVE  LockInv'
<1>1. LockTypeOK /\ "work" \in Stage /\ ProcOf[g] \in Proc
  BY ProcOfAssumption DEF LockInv, Stage
<1>2. /\ at[g] = "got" /\ MoveTo(g, "work")
      /\ lockRecord' = [lockRecord EXCEPT ![ProcOf[g]] = leaseId[g]]
      /\ UNCHANGED <<leaseId, live, key, faults, disturbed>>
  BY DEF Record
<1>3. /\ at' \in [Gor -> Stage] /\ at'[g] = "work"
      /\ \A h \in Gor \ {g} : at'[h] = at[h]
      /\ \A h \in Gor \ {g} : h \in Holding' <=> h \in Holding
  BY <1>1, <1>2, HoldingAfterGoto
<1>4. g \in Holding
  BY <1>2 DEF Holding
<1>5. /\ lockRecord' \in [Proc -> Lease \cup {NoLease}]
      /\ lockRecord'[ProcOf[g]] = leaseId[g]
  BY <1>1, <1>2 DEF LockTypeOK
<1>6. LockTypeOK'
  BY <1>1, <1>2, <1>3, <1>5 DEF LockTypeOK
<1>7. KeyHasLiveLease' /\ HasLease'
  BY <1>2, <1>3, <1>4 DEF LockInv, KeyHasLiveLease, HasLease
<1>8. ExclusiveUnlessDisturbed'
  <2> SUFFICES ASSUME ~disturbed'  PROVE ExclusiveUnlessDisturbed'
    BY DEF ExclusiveUnlessDisturbed
  <2>1. key = leaseId[g] /\ \A h \in Holding : h = g
    BY <1>2, <1>4 DEF LockInv, ExclusiveUnlessDisturbed
  <2>2. \A h \in Holding' : h = g
    BY <1>3, <2>1 DEF Holding
  <2> QED  BY <1>2, <1>3, <1>5, <2>1, <2>2 DEF ExclusiveUnlessDisturbed
<1> QED  BY <1>6, <1>7, <1>8 DEF LockInv

(* AtomicMultiKVOp's transaction touches neither lease nor key. *)
LEMMA CommitKeeps ==
    ASSUME LockInv, NEW g \in Gor, Commit(g)
    PROVE  LockInv'
<1>1. LockTypeOK /\ "unlock" \in Stage
  BY DEF LockInv, Stage
<1>2. /\ at[g] = "work" /\ MoveTo(g, "unlock")
      /\ UNCHANGED <<leaseId, lockRecord, live, key, faults, disturbed>>
  BY DEF Commit
<1>3. /\ at' \in [Gor -> Stage] /\ at'[g] = "unlock"
      /\ \A h \in Gor \ {g} : at'[h] = at[h]
      /\ \A h \in Gor \ {g} : h \in Holding' <=> h \in Holding
  BY <1>1, <1>2, HoldingAfterGoto
<1>4. g \in Holding /\ Holding' \subseteq Gor
  BY <1>2 DEF Holding
<1>5. LockTypeOK'
  BY <1>1, <1>2, <1>3 DEF LockTypeOK
<1>6. KeyHasLiveLease' /\ HasLease'
  BY <1>2, <1>3, <1>4 DEF LockInv, KeyHasLiveLease, HasLease
<1>7. Holding' = Holding
  BY <1>2, <1>3, <1>4 DEF Holding
<1>8. ExclusiveUnlessDisturbed'
  BY <1>2, <1>3, <1>4, <1>7 DEF LockInv, ExclusiveUnlessDisturbed
<1> QED  BY <1>5, <1>6, <1>8 DEF LockInv

(* UnLock, whatever Revoke answers: the holder leaves, and what it may have
   revoked is its own lease. *)
LEMMA UnLockKeeps ==
    ASSUME LockInv, NEW g \in Gor, UnLock(g)
    PROVE  LockInv'
<1> DEFINE i == lockRecord[ProcOf[g]]
<1>1. LockTypeOK /\ "idle" \in Stage /\ ProcOf[g] \in Proc
  BY ProcOfAssumption DEF LockInv, Stage
<1>2. /\ at[g] = "unlock" /\ MoveTo(g, "idle")
      /\ leaseId' = [leaseId EXCEPT ![g] = NoLease]
      /\ UNCHANGED disturbed
  BY DEF UnLock
<1>3. /\ at' \in [Gor -> Stage] /\ at'[g] = "idle"
      /\ \A h \in Gor \ {g} : at'[h] = at[h]
      /\ \A h \in Gor \ {g} : h \in Holding' <=> h \in Holding
      /\ g \notin Holding'
  BY <1>1, <1>2, HoldingAfterGoto
<1>4. Drop(i) \/ UNCHANGED <<live, key>>
  BY DEF UnLock
<1>5. \/ lockRecord' = lockRecord
      \/ lockRecord' = [lockRecord EXCEPT ![ProcOf[g]] = NoLease]
  BY DEF UnLock
<1>6. faults' \in 0..MaxFaults
  BY <1>1, MaxFaultsAssumption DEF UnLock, Fault, LockTypeOK
<1>7. LockTypeOK'
  <2>1. lockRecord' \in [Proc -> Lease \cup {NoLease}]
    BY <1>1, <1>5 DEF LockTypeOK
  <2>2. leaseId' \in [Gor -> Lease \cup {NoLease}]
    BY <1>1, <1>2 DEF LockTypeOK
  <2>3. live' \in SUBSET Lease /\ key' \in Lease \cup {NoLease}
    BY <1>1, <1>4 DEF LockTypeOK, Drop
  <2> QED  BY <1>1, <1>2, <1>3, <1>6, <2>1, <2>2, <2>3 DEF LockTypeOK
<1>8. KeyHasLiveLease'
  BY <1>4 DEF LockInv, KeyHasLiveLease, Drop
<1>9. HasLease'
  <2>1. \A h \in Gor \ {g} : leaseId'[h] = leaseId[h]
    BY <1>1, <1>2 DEF LockTypeOK
  <2> QED  BY <1>2, <1>3, <2>1 DEF LockInv, HasLease
<1>10. ExclusiveUnlessDisturbed'
  <2> SUFFICES ASSUME ~disturbed'  PROVE Holding' = {}
    BY DEF ExclusiveUnlessDisturbed
  <2>1. g \in Holding
    BY <1>2 DEF Holding
  <2>2. \A h \in Holding : h = g
    BY <1>2, <2>1 DEF LockInv, ExclusiveUnlessDisturbed
  <2> QED  BY <1>3, <2>2 DEF Holding
<1> QED  BY <1>7, <1>8, <1>9, <1>10 DEF LockInv

(* Unless it disturbs a holder, an expiry leaves the holder's key alone. *)
LEMMA ExpireKeeps ==
    ASSUME LockInv, NEW i \in Lease, Expire(i)
    PROVE  LockInv'
<1>1. /\ LockTypeOK
      /\ live' = live \ {i} /\ key' = IF key = i THEN NoLease ELSE key
      /\ disturbed' = (disturbed \/ \E g \in Holding : leaseId[g] = i)
      /\ UNCHANGED <<at, leaseId, lockRecord, faults>>
  BY DEF LockInv, Expire, Drop
<1>2. LockTypeOK'
  BY <1>1 DEF LockTypeOK
<1>3. KeyHasLiveLease'
  BY <1>1 DEF LockInv, KeyHasLiveLease
<1>4. Holding' = Holding
  BY <1>1 DEF Holding
<1>5. HasLease'
  BY <1>1, <1>4 DEF LockInv, HasLease
<1>6. ExclusiveUnlessDisturbed'
  <2> SUFFICES ASSUME ~disturbed'  PROVE ExclusiveUnlessDisturbed'
    BY DEF ExclusiveUnlessDisturbed
  <2>1. ~disturbed /\ \A g \in Holding : leaseId[g] # i
    BY <1>1
  <2>2. \A g \in Holding : key' = leaseId[g]
    BY <1>1, <2>1 DEF LockInv, ExclusiveUnlessDisturbed
  <2> QED  BY <1>1, <1>4, <2>1, <2>2 DEF LockInv, ExclusiveUnlessDisturbed
<1> QED  BY <1>2, <1>3, <1>5, <1>6 DEF LockInv

(* A crash takes goroutines out of Lock and leaves the key to its lease. *)
LEMMA ProcCrashKeeps ==
    ASSUME LockInv, NEW p \in Proc, ProcCrash(p)
    PROVE  LockInv'
<1>1. /\ LockTypeOK
      /\ at' = [g \in Gor |-> IF ProcOf[g] = p THEN "idle" ELSE at[g]]
      /\ leaseId' =
            [g \in Gor |-> IF ProcOf[g] = p THEN NoLease ELSE leaseId[g]]
      /\ lockRecord' = [lockRecord EXCEPT ![p] = NoLease]
      /\ UNCHANGED <<live, key, disturbed>>
      /\ Fault
  BY DEF LockInv, ProcCrash
<1>2. LockTypeOK'
  <2>1. at' \in [Gor -> Stage]
    BY <1>1 DEF LockTypeOK, Stage
  <2>2. leaseId' \in [Gor -> Lease \cup {NoLease}]
    BY <1>1 DEF LockTypeOK
  <2>3. faults' \in 0..MaxFaults
    BY <1>1, MaxFaultsAssumption DEF LockTypeOK, Fault
  <2> QED  BY <1>1, <2>1, <2>2, <2>3 DEF LockTypeOK
<1>3. KeyHasLiveLease'
  BY <1>1 DEF LockInv, KeyHasLiveLease
<1>4. ASSUME NEW g \in Gor, at'[g] # "idle"
      PROVE  /\ ProcOf[g] # p /\ at'[g] = at[g] /\ leaseId'[g] = leaseId[g]
             /\ lockRecord'[ProcOf[g]] = lockRecord[ProcOf[g]]
  <2>1. ProcOf[g] # p /\ at'[g] = at[g] /\ leaseId'[g] = leaseId[g]
    BY <1>1, <1>4
  <2>2. ProcOf[g] \in Proc
    BY ProcOfAssumption
  <2> QED  BY <1>1, <2>1, <2>2 DEF LockTypeOK
<1>5. \A g \in Holding' : g \in Gor /\ g \in Holding /\ at'[g] # "idle"
  BY <1>4 DEF Holding
<1>6. HasLease'
  BY <1>1, <1>4, <1>5 DEF LockInv, HasLease
<1>7. ExclusiveUnlessDisturbed'
  BY <1>1, <1>4, <1>5 DEF LockInv, ExclusiveUnlessDisturbed
<1> QED  BY <1>2, <1>3, <1>6, <1>7 DEF LockInv

(***************************************************************************)
(* Until a Lock fails or a holder's lease runs out, the goroutines of all  *)
(* processes are alone between Lock and UnLock (lib/etcd/etcd.go), and the *)
(* key never outlives its lease.                                           *)
(***************************************************************************)
THEOREM LockExclusive ==
    LockSpec => [](LockTypeOK /\ KeyHasLiveLease /\ ExclusiveUnlessDisturbed)
<1>1. LockInit => LockInv
  <2> SUFFICES ASSUME LockInit PROVE LockInv
    OBVIOUS
  <2>1. LockTypeOK
    <3>1. faults \in 0..MaxFaults
      BY MaxFaultsAssumption DEF LockInit
    <3>2. at \in [Gor -> Stage] /\ leaseId \in [Gor -> Lease \cup {NoLease}]
          /\ lockRecord \in [Proc -> Lease \cup {NoLease}]
      BY DEF LockInit, Stage
    <3>3. /\ live \in SUBSET Lease /\ key \in Lease \cup {NoLease}
          /\ disturbed \in BOOLEAN
      BY Zenon DEF LockInit
    <3> QED  BY <3>1, <3>2, <3>3 DEF LockTypeOK
  <2>2. Holding = {}
    BY DEF LockInit, Holding
  <2> QED
    BY <2>1, <2>2
    DEF LockInit, LockInv, KeyHasLiveLease, HasLease, ExclusiveUnlessDisturbed
<1>2. LockInv /\ [LockNext]_lockVars => LockInv'
  <2> SUFFICES ASSUME LockInv, [LockNext]_lockVars  PROVE LockInv'
    OBVIOUS
  <2>1. ASSUME NEW g \in Gor,
               Grant(g) \/ GrantFails(g) \/ tryLockFails(g) \/ LockStep(g)
        PROVE  LockInv'
    BY <2>1, GrantKeeps, LockErrorKeeps, tryLockKeeps, RecordKeeps,
       CommitKeeps, UnLockKeeps DEF LockStep
  <2>2. ASSUME NEW i \in Lease, Expire(i)  PROVE LockInv'
    BY <2>2, ExpireKeeps
  <2>3. ASSUME NEW p \in Proc, ProcCrash(p)  PROVE LockInv'
    BY <2>3, ProcCrashKeeps
  <2>4. CASE UNCHANGED lockVars
    BY <2>4 DEF lockVars, LockInv, LockTypeOK, KeyHasLiveLease, HasLease,
                ExclusiveUnlessDisturbed, Holding
  <2> QED  BY <2>1, <2>2, <2>3, <2>4 DEF LockNext
<1>3. LockInv => LockTypeOK /\ KeyHasLiveLease /\ ExclusiveUnlessDisturbed
  BY DEF LockInv
<1> QED  BY <1>1, <1>2, <1>3, PTL DEF LockSpec

(* Lock, tryLock and UnLock keep the types of the goroutines' stages, leases
   and records. *)
THEOREM LockTyped == LockSpec => []LockTypeOK
BY LockExclusive, PTL

(* tryLock binds the key to a lease, so that the key of a lock goes with the
   lease of the one who put it. *)
THEOREM KeyEndsWithLease == LockSpec => []KeyHasLiveLease
BY LockExclusive, PTL

=============================================================================
