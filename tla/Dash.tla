-------------------------------- MODULE Dash --------------------------------
(***************************************************************************)
(* The dash (src/server/server.go): DashServer.UidEndpoint, which assigns  *)
(* an endpoint to a uid and moves the uid when the hash ring assigns it    *)
(* elsewhere, behind the interceptor that admits calls to the leader only. *)
(*                                                                         *)
(* Calls are goroutines of several dash processes; each process has its    *)
(* own proxyPauseMap.  In etcd a uid's endpoint and, for every endpoint,   *)
(* the uids assigned to it are written by one transaction                  *)
(* (AtomicMultiKVOp), modelled as one step that may fail.  The hash ring   *)
(* and the election are environment: target is what hr.GetNode answers and *)
(* leader who holds the leader key; both change at any time.               *)
(*                                                                         *)
(* UidEndpoint also means to call cleanUidCache for the uids of the old    *)
(* endpoint; its prefix comes from a format with an argument missing, so   *)
(* that the list is always empty and the call is never made.               *)
(***************************************************************************)
EXTENDS Naturals, FiniteSets

CONSTANTS
    Call,           \* goroutines that serve UidEndpoint
    Dashes,         \* dash processes
    DashOf,         \* the process of a call
    Uid,
    Endpoint,
    None

ASSUME DashOfAssumption == DashOf \in [Call -> Dashes]
ASSUME NoneAssumption == None \notin Uid \cup Endpoint \cup Dashes

VARIABLES
    pc,             \* where a call is
    uid,            \* r.Req
    cur,            \* curEndpoint, as read from etcd
    new,            \* hashedEp, as read from the ring
    proxyPauseMap,  \* the suspended uids of a process
    endpoint,       \* etcd: /mysh/dash/uid/<uid>/endpoint
    uids,           \* etcd: pairs of /mysh/dash/endpoint/<ep>/uids/<uid>
    target,         \* environment: the ring's answer, None while it is empty
    leader,         \* environment: the process that holds the leader key
    overlapped      \* history: uids two calls were about at the same time

call == <<pc, uid, cur, new>>
stored == <<endpoint, uids>>
vars == <<call, proxyPauseMap, stored, target, leader, overlapped>>

Place == {"idle", "wait", "read", "alloc", "add", "hash", "check",
          "suspend", "list", "logout", "update", "resume"}

TypeOK ==
    /\ pc \in [Call -> Place]
    /\ uid \in [Call -> Uid \cup {None}]
    /\ cur \in [Call -> Endpoint \cup {None}]
    /\ new \in [Call -> Endpoint \cup {None}]
    /\ proxyPauseMap \in [Dashes -> SUBSET Uid]
    /\ endpoint \in [Uid -> Endpoint \cup {None}]
    /\ uids \in SUBSET (Endpoint \X Uid)
    /\ target \in [Uid -> Endpoint \cup {None}]
    /\ leader \in Dashes \cup {None}
    /\ overlapped \in SUBSET Uid

Goto(c, place) == pc' = [pc EXCEPT ![c] = place]
At(c, place) == pc[c] = place

(* The handler returns: its locals are gone. *)
Return(c) ==
    /\ Goto(c, "idle")
    /\ uid' = [uid EXCEPT ![c] = None]
    /\ cur' = [cur EXCEPT ![c] = None]
    /\ new' = [new EXCEPT ![c] = None]

-----------------------------------------------------------------------------

Init ==
    /\ pc = [c \in Call |-> "idle"]
    /\ uid = [c \in Call |-> None]
    /\ cur = [c \in Call |-> None]
    /\ new = [c \in Call |-> None]
    /\ proxyPauseMap = [d \in Dashes |-> {}]
    /\ endpoint = [u \in Uid |-> None]
    /\ uids = {}
    /\ target = [u \in Uid |-> None]
    /\ leader = None
    /\ overlapped = {}

(* The interceptor lets a call in if its process is the leader at that
   moment; leadership is not looked at again. *)
Admit(c, u) ==
    /\ At(c, "idle")
    /\ leader = DashOf[c]
    /\ Goto(c, "wait")
    /\ uid' = [uid EXCEPT ![c] = u]
    /\ overlapped' = IF \E b \in Call : uid[b] = u
                     THEN overlapped \cup {u} ELSE overlapped
    /\ UNCHANGED <<cur, new, proxyPauseMap, stored, target, leader>>

(* waitUid: poll until the uid is not suspended in this process. *)
WaitUid(c) ==
    /\ At(c, "wait")
    /\ uid[c] \notin proxyPauseMap[DashOf[c]]
    /\ Goto(c, "read")
    /\ UNCHANGED <<uid, cur, new, proxyPauseMap, stored, target, leader, overlapped>>

(* etcd.GetKV: absent leads to allocEndpoint, an error to a return. *)
ReadEndpoint(c) ==
    /\ At(c, "read")
    /\ \/ /\ endpoint[uid[c]] = None
          /\ Goto(c, "alloc")
          /\ UNCHANGED <<uid, cur, new>>
       \/ /\ endpoint[uid[c]] # None
          /\ cur' = [cur EXCEPT ![c] = endpoint[uid[c]]]
          /\ Goto(c, "hash")
          /\ UNCHANGED <<uid, new>>
       \/ Return(c)
    /\ UNCHANGED <<proxyPauseMap, stored, target, leader, overlapped>>

GetNode_EmptyAnswer(c, from, to) ==     \* mutant: an empty ring answers ""
    /\ At(c, from)
    /\ new' = [new EXCEPT ![c] = target[uid[c]]]
    /\ Goto(c, to)
    /\ UNCHANGED <<uid, cur, proxyPauseMap, stored, target, leader, overlapped>>

(* hr.GetNode: its loop goes round an empty ring until there is a node. *)
GetNode(c, from, to) ==
    /\ At(c, from)
    /\ target[uid[c]] # None
    /\ new' = [new EXCEPT ![c] = target[uid[c]]]
    /\ Goto(c, to)
    /\ UNCHANGED <<uid, cur, proxyPauseMap, stored, target, leader, overlapped>>

(* addEpInfo: both keys in one transaction; it may be lost, or be applied
   and yet report an error. *)
addEpInfo_ForwardOnly(c) ==     \* mutant: only the uid's endpoint is put
    /\ At(c, "add")
    /\ endpoint' = [endpoint EXCEPT ![uid[c]] = new[c]]
    /\ Return(c)
    /\ UNCHANGED <<uids, proxyPauseMap, target, leader, overlapped>>

addEpInfo(c) ==
    /\ At(c, "add")
    /\ \/ /\ endpoint' = [endpoint EXCEPT ![uid[c]] = new[c]]
          /\ uids' = uids \cup {<<new[c], uid[c]>>}
       \/ UNCHANGED stored
    /\ Return(c)
    /\ UNCHANGED <<proxyPauseMap, target, leader, overlapped>>

(* The ring agrees with etcd, or the new endpoint is not healthy: the
   current endpoint is the answer.  Otherwise the uid is to be moved. *)
Check(c) ==
    /\ At(c, "check")
    /\ \/ Return(c)
       \/ /\ new[c] # cur[c]
          /\ Goto(c, "suspend")
          /\ UNCHANGED <<uid, cur, new>>
    /\ UNCHANGED <<proxyPauseMap, stored, target, leader, overlapped>>

uidSuspend(c) ==
    /\ At(c, "suspend")
    /\ proxyPauseMap' = [proxyPauseMap EXCEPT ![DashOf[c]] = @ \cup {uid[c]}]
    /\ Goto(c, "list")
    /\ UNCHANGED <<uid, cur, new, stored, target, leader, overlapped>>

(* ListKeyByPrefix finds nothing, or fails and ends the call. *)
ListUids_NoResume(c) ==         \* mutant: the early return is not deferred
    /\ At(c, "list")
    /\ \/ Goto(c, "logout") /\ UNCHANGED <<uid, cur, new>>
       \/ Return(c)
    /\ UNCHANGED <<proxyPauseMap, stored, target, leader, overlapped>>

ListUids(c) ==
    /\ At(c, "list")
    /\ Goto(c, "logout") \/ Goto(c, "resume")
    /\ UNCHANGED <<uid, cur, new, proxyPauseMap, stored, target, leader, overlapped>>

(* UidLogout at the current endpoint, whose recorder stops there (Stop of
   module Recorder); an error is only logged. *)
UidLogout(c) ==
    /\ At(c, "logout")
    /\ Goto(c, "update")
    /\ UNCHANGED <<uid, cur, new, proxyPauseMap, stored, target, leader, overlapped>>

(* updateEpInfo: as addEpInfo, and the old pair is deleted. *)
updateEpInfo_OldStays(c) ==     \* mutant: the OP_DEL is missing
    /\ At(c, "update")
    /\ endpoint' = [endpoint EXCEPT ![uid[c]] = new[c]]
    /\ uids' = uids \cup {<<new[c], uid[c]>>}
    /\ Goto(c, "resume")
    /\ UNCHANGED <<uid, cur, new, proxyPauseMap, target, leader, overlapped>>

updateEpInfo(c) ==
    /\ At(c, "update")
    /\ \/ /\ endpoint' = [endpoint EXCEPT ![uid[c]] = new[c]]
          /\ uids' = (uids \ {<<cur[c], uid[c]>>}) \cup {<<new[c], uid[c]>>}
       \/ UNCHANGED stored
    /\ Goto(c, "resume")
    /\ UNCHANGED <<uid, cur, new, proxyPauseMap, target, leader, overlapped>>

uidResume_Forgotten(c) ==       \* mutant: the uid stays suspended
    /\ At(c, "resume")
    /\ Return(c)
    /\ UNCHANGED <<proxyPauseMap, stored, target, leader, overlapped>>

(* The deferred uidResume lifts the suspension, whoever else relies on it. *)
uidResume(c) ==
    /\ At(c, "resume")
    /\ proxyPauseMap' = [proxyPauseMap EXCEPT ![DashOf[c]] = @ \ {uid[c]}]
    /\ Return(c)
    /\ UNCHANGED <<stored, target, leader, overlapped>>

(* Nodes come and go; the leader key changes hands or expires; a dash
   process dies with its calls and its pause map. *)
RingChange(u, e) ==
    /\ target' = [target EXCEPT ![u] = e]
    /\ UNCHANGED <<call, proxyPauseMap, stored, leader, overlapped>>

LeaderChange(d) ==
    /\ leader' = d
    /\ UNCHANGED <<call, proxyPauseMap, stored, target, overlapped>>

Gone(f, d) == [c \in Call |-> IF DashOf[c] = d THEN None ELSE f[c]]

Crash(d) ==
    /\ pc' = [c \in Call |-> IF DashOf[c] = d THEN "idle" ELSE pc[c]]
    /\ uid' = Gone(uid, d)
    /\ cur' = Gone(cur, d)
    /\ new' = Gone(new, d)
    /\ proxyPauseMap' = [proxyPauseMap EXCEPT ![d] = {}]
    /\ UNCHANGED <<stored, target, leader, overlapped>>

Step(c) ==
    \/ ReadEndpoint(c) \/ GetNode(c, "alloc", "add") \/ addEpInfo(c)
    \/ GetNode(c, "hash", "check") \/ Check(c) \/ uidSuspend(c)
    \/ ListUids(c) \/ UidLogout(c) \/ updateEpInfo(c) \/ uidResume(c)

Next ==
    \/ \E c \in Call : Step(c) \/ WaitUid(c) \/ \E u \in Uid : Admit(c, u)
    \/ \E u \in Uid, e \in Endpoint \cup {None} : RingChange(u, e)
    \/ \E d \in Dashes \cup {None} : LeaderChange(d)
    \/ \E d \in Dashes : Crash(d)

(* Calls make progress; waitUid polls every 10 ms, so it notices that a uid
   is free if it is so again and again. *)
Fairness == \A c \in Call : WF_vars(Step(c)) /\ SF_vars(WaitUid(c))

Spec == Init /\ [][Next]_vars /\ Fairness

-----------------------------------------------------------------------------

(***************************************************************************)
(* Whatever calls, leaders and crashes interleave, the endpoint stored for *)
(* a uid lists that uid: whoever goes through the uids of an endpoint      *)
(* misses none that is assigned to it.                                     *)
(***************************************************************************)
IndexCovers ==
    \A u \in Uid : endpoint[u] # None => <<endpoint[u], u>> \in uids

(***************************************************************************)
(* As long as no two calls are about the same uid at the same time, no     *)
(* endpoint lists a uid that is assigned elsewhere.                        *)
(***************************************************************************)
IndexExactUnlessOverlapped ==
    \A u \in Uid \ overlapped :
        \A e \in Endpoint : <<e, u>> \in uids => endpoint[u] = e

(***************************************************************************)
(* A suspended uid is always being moved by a call of that process, which  *)
(* will resume it: no error path leaves a uid suspended, where every later *)
(* call about it would wait for ever.                                      *)
(***************************************************************************)
PausedHasMover ==
    \A d \in Dashes : \A u \in proxyPauseMap[d] :
        \E c \in Call : /\ DashOf[c] = d /\ uid[c] = u
                        /\ pc[c] \in {"list", "logout", "update", "resume"}

(* Every call ends, provided the ring is not left empty. *)
CallsEnd ==
    \A c \in Call : pc[c] # "idle" ~> pc[c] = "idle" \/ target[uid[c]] = None

=============================================================================
