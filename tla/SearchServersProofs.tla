------------------------ MODULE SearchServersProofs ------------------------
(***************************************************************************)
(* The search servers for any number of servers, users, connections,       *)
(* calls, commands and failures: a user's sessions and recorders stay at   *)
(* the server the dash has on record, and the history follows the user.    *)
(***************************************************************************)
EXTENDS SearchServers, RecencyListProofs

(* A recorder is at home, and gone before the dash records the new home. *)
RecordsAtHome ==
    \A u \in Uid, s \in Server :
        ideal[u] # None /\ rec[s][u] # None =>
            s = home[u] /\ ~MovingAt(u, {"update"})

(* So is a call that was let in with a session. *)
CallsAtHome ==
    \A c \in Call, u \in Uid :
        /\ ideal[u] # None
        /\ call[c] # None /\ call[c].u = u /\ call[c].op \in {"Upload", "List"}
        => call[c].s = home[u] /\ ~MovingAt(u, {"update"})

(***************************************************************************)
(* The inductive invariant.  While a uid is undisturbed, its sessions end  *)
(* first, then its recorder and the calls on their way to it; what is left *)
(* when the home changes is what etcd holds.                               *)
(***************************************************************************)
IInv ==
    /\ TypeOK
    /\ SessionsAtHome
    /\ RecordsAtHome
    /\ CallsAtHome
    /\ HistoryFollowsUid

USE DEF MovingAt, GivenUp, Step, Op, Admitted

-----------------------------------------------------------------------------
(* The lists a recorder may hold are those without repetitions, within its
   capacity. *)
LEMMA CommandsAre ==
    \A s : s \in Commands
             <=> s \in Seq(Cmd) /\ Len(s) <= Capacity /\ Distinct(s)
BY RecencyListsAre, CapacityAssumption DEF Commands, RecencyLists

LEMMA EmptyCommands == <<>> \in Commands
BY RecencyListsClosed, CapacityAssumption DEF Commands, RecencyLists

(* recorder.Add keeps the list within its capacity, without repetitions. *)
LEMMA ServeCommands ==
    ASSUME NEW s \in Commands, NEW q
    PROVE  Serve(s, q) \in Commands
<1>1. Commands = RecencyLists(Cmd, Capacity)
  BY DEF Commands, RecencyLists
<1> QED  BY <1>1, RecencyListsClosed, CapacityAssumption DEF Serve

(* initOrLoad rebuilds exactly the list that was saved. *)
LEMMA ReplayRestores ==
    ASSUME NEW s \in Commands
    PROVE  Replay(s) = s
<1>1. s \in Seq(Cmd) /\ Len(s) <= Capacity /\ Distinct(s)
  BY CommandsAre
<1> QED  BY <1>1, CapacityAssumption, RebuildRestores DEF Replay, Serve

-----------------------------------------------------------------------------
(* One lemma for each kind of step. *)

(* Upload and List are let in by a session, which is at home. *)
LEMMA UploadKeeps ==
    ASSUME IInv, NEW c \in Call, NEW s \in Server, NEW u \in Uid,
           NEW a \in Addr, Upload(c, s, u, a)
    PROVE  IInv'
<1>1. PICK op \in {"Upload", "List"}, q \in Cmd \cup {None} :
        /\ call' = [call EXCEPT ![c] =
                      [op |-> op, s |-> s, u |-> u, a |-> a, q |-> q]]
        /\ UNCHANGED <<loginCache, rec, leaving, store, home, moving, faults,
                       ideal>>
  BY DEF Upload, Admit
<1>2. TypeOK'
  <2>1. [op |-> op, s |-> s, u |-> u, a |-> a, q |-> q] \in Admitted
    OBVIOUS
  <2> QED  BY <1>1, <2>1 DEF IInv, TypeOK
<1>3. SessionsAtHome' /\ RecordsAtHome'
  BY <1>1 DEF IInv, SessionsAtHome, RecordsAtHome
<1>4. CallsAtHome'
  <2>1. ideal[u] # None => s = home[u] /\ ~MovingAt(u, {"update"})
    BY DEF Upload, CheckLoginState, IInv, SessionsAtHome
  <2>2. call'[c].s = s /\ call'[c].u = u
    BY <1>1 DEF IInv, TypeOK
  <2>3. \A b \in Call \ {c} : call'[b] = call[b]
    BY <1>1 DEF IInv, TypeOK
  <2> QED  BY <1>1, <2>1, <2>2, <2>3 DEF IInv, CallsAtHome
<1>5. HistoryFollowsUid'
  BY <1>1 DEF IInv, HistoryFollowsUid
<1> QED  BY <1>2, <1>3, <1>4, <1>5 DEF IInv

(* Search and Login are let in anywhere. *)
LEMMA SearchOrLoginKeeps ==
    ASSUME IInv, NEW c \in Call, NEW s \in Server, NEW u \in Uid,
           NEW a \in Addr, Search(c, s, u, a) \/ Login(c, s, u, a)
    PROVE  IInv'
<1>1. PICK op \in {"Find", "Login"} :
        /\ call' = [call EXCEPT ![c] =
                      [op |-> op, s |-> s, u |-> u, a |-> a, q |-> None]]
        /\ UNCHANGED <<loginCache, rec, leaving, store, home, moving, faults,
                       ideal>>
  BY DEF Search, Login, Admit
<1>2. TypeOK'
  <2>1. [op |-> op, s |-> s, u |-> u, a |-> a, q |-> None] \in Admitted
    OBVIOUS
  <2> QED  BY <1>1, <2>1 DEF IInv, TypeOK
<1>3. SessionsAtHome' /\ RecordsAtHome'
  BY <1>1 DEF IInv, SessionsAtHome, RecordsAtHome
<1>4. CallsAtHome'
  BY <1>1 DEF IInv, TypeOK, CallsAtHome
<1>5. HistoryFollowsUid'
  BY <1>1 DEF IInv, HistoryFollowsUid
<1> QED  BY <1>2, <1>3, <1>4, <1>5 DEF IInv

(* A session begins at home, or the uid is disturbed. *)
LEMMA TokenKeeps ==
    ASSUME IInv, NEW c \in Call, UpdateTokenCache(c)
    PROVE  IInv'
<1>1. TypeOK'
  BY DEF IInv, TypeOK, UpdateTokenCache, Claim
<1>2. SessionsAtHome'
  BY DEF IInv, TypeOK, SessionsAtHome, UpdateTokenCache, Claim
<1>3. RecordsAtHome'
  BY DEF IInv, TypeOK, RecordsAtHome, UpdateTokenCache, Claim
<1>4. CallsAtHome'
  <2>1. \A u \in Uid : ideal'[u] # None => ideal[u] # None
    BY DEF UpdateTokenCache, Claim, IInv, TypeOK
  <2>2. \A b \in Call : call'[b] # None => call'[b] = call[b]
    BY DEF UpdateTokenCache, IInv, TypeOK
  <2>3. UNCHANGED <<home, moving>>
    BY DEF UpdateTokenCache
  <2> QED  BY <2>1, <2>2, <2>3 DEF IInv, CallsAtHome
<1>5. HistoryFollowsUid'
  BY DEF IInv, TypeOK, HistoryFollowsUid, UpdateTokenCache, Claim
<1> QED  BY <1>1, <1>2, <1>3, <1>4, <1>5 DEF IInv

(* A session ends. *)
LEMMA LogoutKeeps ==
    ASSUME IInv, NEW s \in Server, NEW u \in Uid, NEW a \in Addr,
           Logout(s, u, a)
    PROVE  IInv'
<1>1. TypeOK'
  BY DEF IInv, TypeOK, Logout
<1>2. SessionsAtHome'
  BY DEF IInv, TypeOK, SessionsAtHome, Logout
<1>3. RecordsAtHome'
  BY DEF IInv, TypeOK, RecordsAtHome, Logout
<1>4. CallsAtHome'
  BY DEF IInv, TypeOK, CallsAtHome, Logout
<1>5. HistoryFollowsUid'
  BY DEF IInv, TypeOK, HistoryFollowsUid, Logout
<1> QED  BY <1>1, <1>2, <1>3, <1>4, <1>5 DEF IInv

(* A move begins. *)
LEMMA MoveKeeps ==
    ASSUME IInv, NEW u \in Uid, NEW to \in Server, Move(u, to)
    PROVE  IInv'
<1>1. TypeOK'
  BY DEF IInv, TypeOK, Move
<1>2. SessionsAtHome'
  BY DEF IInv, TypeOK, SessionsAtHome, Move
<1>3. RecordsAtHome'
  BY DEF IInv, TypeOK, RecordsAtHome, Move
<1>4. CallsAtHome'
  BY DEF IInv, TypeOK, CallsAtHome, Move
<1>5. HistoryFollowsUid'
  BY DEF IInv, TypeOK, HistoryFollowsUid, Move
<1> QED  BY <1>1, <1>2, <1>3, <1>4, <1>5 DEF IInv

(* UidLogout leaves no session of the uid at home, where they all are. *)
LEMMA EndSessionsKeeps ==
    ASSUME IInv, NEW u \in Uid, EndSessions(u)
    PROVE  IInv'
<1>1. TypeOK'
  BY DEF IInv, TypeOK, EndSessions
<1>2. SessionsAtHome'
  <2> SUFFICES ASSUME NEW s \in Server, NEW x \in loginCache'[s],
                      ideal'[x[1]] # None
               PROVE  ~GivenUp(s, x[1])'
    BY DEF SessionsAtHome
  <2>1. x \in loginCache[s] /\ x \in Uid \X Addr
    BY DEF IInv, TypeOK, EndSessions
  <2>2. ~GivenUp(s, x[1])
    BY <2>1 DEF IInv, SessionsAtHome, EndSessions
  <2>3. x[1] # u
    BY <2>1, <2>2 DEF IInv, TypeOK, EndSessions
  <2>4. moving'[x[1]] = moving[x[1]] /\ home' = home
    BY <2>1, <2>3 DEF IInv, TypeOK, EndSessions
  <2> QED  BY <2>2, <2>4
<1>3. RecordsAtHome'
  BY DEF IInv, TypeOK, RecordsAtHome, EndSessions
<1>4. CallsAtHome'
  <2> SUFFICES ASSUME NEW c \in Call, NEW v \in Uid, ideal'[v] # None,
                      call'[c] # None /\ call'[c].u = v,
                      call'[c].op \in {"Upload", "List"}
               PROVE  call'[c].s = home'[v] /\ ~MovingAt(v, {"update"})'
    BY DEF CallsAtHome
  <2>1. call[c].s = home[v] /\ ~MovingAt(v, {"update"}) /\ call' = call
    BY DEF IInv, CallsAtHome, EndSessions
  <2> QED  BY <2>1 DEF IInv, TypeOK, EndSessions
<1>5. HistoryFollowsUid'
  BY DEF IInv, TypeOK, HistoryFollowsUid, EndSessions
<1> QED  BY <1>1, <1>2, <1>3, <1>4, <1>5 DEF IInv

(* UidLogout fails: the uid is disturbed. *)
LEMMA LogoutFailsKeeps ==
    ASSUME IInv, NEW u \in Uid, UidLogoutFails(u)
    PROVE  IInv'
<1>1. TypeOK'
  <2>1. faults' \in 0..MaxFaults
    BY MaxFaultsAssumption DEF UidLogoutFails, Etcd, IInv, TypeOK
  <2>2. ideal' \in [Uid -> Commands \cup {None}]
    BY DEF UidLogoutFails, Claim, IInv, TypeOK
  <2>3. moving' \in [Uid -> [step : Step, to : Server] \cup {None}]
    BY DEF UidLogoutFails, IInv, TypeOK
  <2> QED  BY <2>1, <2>2, <2>3 DEF UidLogoutFails, IInv, TypeOK
<1>2. SessionsAtHome'
  BY DEF IInv, TypeOK, SessionsAtHome, UidLogoutFails, Claim, Etcd
<1>3. RecordsAtHome'
  BY DEF IInv, TypeOK, RecordsAtHome, UidLogoutFails, Claim, Etcd
<1>4. CallsAtHome'
  BY DEF IInv, TypeOK, CallsAtHome, UidLogoutFails, Claim, Etcd
<1>5. HistoryFollowsUid'
  BY DEF IInv, TypeOK, HistoryFollowsUid, UidLogoutFails, Claim, Etcd
<1> QED  BY <1>1, <1>2, <1>3, <1>4, <1>5 DEF IInv

(* The home changes when nothing is left at it. *)
LEMMA updateEpInfoKeeps ==
    ASSUME IInv, NEW u \in Uid, updateEpInfo(u)
    PROVE  IInv'
<1>1. TypeOK'
  BY DEF IInv, TypeOK, updateEpInfo
<1>2. SessionsAtHome'
  <2> SUFFICES ASSUME NEW s \in Server, NEW x \in loginCache'[s],
                      ideal'[x[1]] # None
               PROVE  ~GivenUp(s, x[1])'
    BY DEF SessionsAtHome
  <2>1. x \in loginCache[s] /\ x \in Uid \X Addr
    BY DEF IInv, TypeOK, updateEpInfo
  <2>2. ~GivenUp(s, x[1])
    BY <2>1 DEF IInv, SessionsAtHome, updateEpInfo
  <2>3. x[1] # u
    BY <2>2 DEF updateEpInfo
  <2>4. moving'[x[1]] = moving[x[1]] /\ home'[x[1]] = home[x[1]]
    BY <2>1, <2>3 DEF IInv, TypeOK, updateEpInfo
  <2> QED  BY <2>2, <2>4
<1>3. RecordsAtHome'
  BY DEF IInv, TypeOK, RecordsAtHome, updateEpInfo
<1>4. CallsAtHome'
  <2> SUFFICES ASSUME NEW c \in Call, NEW v \in Uid, ideal'[v] # None,
                      call'[c] # None /\ call'[c].u = v,
                      call'[c].op \in {"Upload", "List"}
               PROVE  call'[c].s = home'[v] /\ ~MovingAt(v, {"update"})'
    BY DEF CallsAtHome
  <2>1. call[c].s = home[v] /\ ~MovingAt(v, {"update"}) /\ call' = call
    BY DEF IInv, CallsAtHome, updateEpInfo
  <2>2. v # u
    BY <2>1 DEF updateEpInfo
  <2>3. moving'[v] = moving[v] /\ home'[v] = home[v]
    BY <2>2 DEF IInv, TypeOK, updateEpInfo
  <2> QED  BY <2>1, <2>3 DEF MovingAt
<1>5. HistoryFollowsUid'
  BY DEF IInv, TypeOK, HistoryFollowsUid, updateEpInfo
<1> QED  BY <1>1, <1>2, <1>3, <1>4, <1>5 DEF IInv

(* The ticker saves what is recorded. *)
LEMMA TickKeeps ==
    ASSUME IInv, NEW s \in Server, NEW u \in Uid, Tick(s, u)
    PROVE  IInv'
<1>1. TypeOK'
  BY DEF IInv, TypeOK, Tick
<1>2. SessionsAtHome'
  BY DEF IInv, TypeOK, SessionsAtHome, Tick
<1>3. RecordsAtHome'
  BY DEF IInv, TypeOK, RecordsAtHome, Tick
<1>4. CallsAtHome'
  BY DEF IInv, TypeOK, CallsAtHome, Tick
<1>5. HistoryFollowsUid'
  BY DEF IInv, TypeOK, HistoryFollowsUid, Tick
<1> QED  BY <1>1, <1>2, <1>3, <1>4, <1>5 DEF IInv

(* A stopped recorder saves. *)
LEMMA LateTickKeeps ==
    ASSUME IInv, NEW s \in Server, NEW u \in Uid, NEW list \in Commands,
           LateTick(s, u, list)
    PROVE  IInv'
<1>1. TypeOK'
  BY DEF IInv, TypeOK, LateTick, Claim
<1>2. SessionsAtHome'
  BY DEF IInv, TypeOK, SessionsAtHome, LateTick, Claim
<1>3. RecordsAtHome'
  BY DEF IInv, TypeOK, RecordsAtHome, LateTick, Claim
<1>4. CallsAtHome'
  BY DEF IInv, TypeOK, CallsAtHome, LateTick, Claim
<1>5. HistoryFollowsUid'
  BY DEF IInv, TypeOK, HistoryFollowsUid, LateTick, Claim
<1> QED  BY <1>1, <1>2, <1>3, <1>4, <1>5 DEF IInv

(* A stopped recorder ends. *)
LEMMA FinishKeeps ==
    ASSUME IInv, NEW s \in Server, NEW u \in Uid, NEW list \in Commands,
           Finish(s, u, list)
    PROVE  IInv'
<1>1. TypeOK'
  BY DEF IInv, TypeOK, Finish
<1>2. SessionsAtHome'
  BY DEF IInv, TypeOK, SessionsAtHome, Finish
<1>3. RecordsAtHome'
  BY DEF IInv, TypeOK, RecordsAtHome, Finish
<1>4. CallsAtHome'
  BY DEF IInv, TypeOK, CallsAtHome, Finish
<1>5. HistoryFollowsUid'
  BY DEF IInv, TypeOK, HistoryFollowsUid, Finish
<1> QED  BY <1>1, <1>2, <1>3, <1>4, <1>5 DEF IInv

(* A recorder taken out of service has saved its list, unless etcd failed. *)
LEMMA Retired ==
    ASSUME IInv, NEW s \in Server, NEW u \in Uid, NEW ok \in BOOLEAN,
           Retire(s, u, ok)
    PROVE  /\ rec[s][u] # None /\ rec[s][u] \in Commands
           /\ faults' \in 0..MaxFaults
           /\ store' \in [Uid -> Commands]
           /\ leaving' \in SUBSET (Server \X Uid \X Commands)
           /\ rec' \in [Server -> [Uid -> Commands \cup {None}]]
           /\ rec'[s][u] = None
           /\ \A t \in Server, v \in Uid :
                t # s \/ v # u => rec'[t][v] = rec[t][v]
           /\ \A v \in Uid \ {u} : store'[v] = store[v]
           /\ ok => store'[u] = rec[s][u]
<1>1. rec[s][u] # None /\ rec[s][u] \in Commands
  BY DEF Retire, IInv, TypeOK
<1>2. faults' \in 0..MaxFaults
  BY MaxFaultsAssumption DEF Retire, Etcd, IInv, TypeOK
<1>3. store' \in [Uid -> Commands]
  BY <1>1 DEF Retire, IInv, TypeOK
<1>4. leaving' \in SUBSET (Server \X Uid \X Commands)
  BY <1>1 DEF Retire, IInv, TypeOK
<1>5. /\ rec' \in [Server -> [Uid -> Commands \cup {None}]]
      /\ rec'[s][u] = None
      /\ \A t \in Server, v \in Uid : t # s \/ v # u => rec'[t][v] = rec[t][v]
  BY DEF Retire, IInv, TypeOK
<1>6. /\ \A v \in Uid \ {u} : store'[v] = store[v]
      /\ ok => store'[u] = rec[s][u]
  BY DEF Retire, IInv, TypeOK
<1> QED  BY <1>1, <1>2, <1>3, <1>4, <1>5, <1>6

(* An evicted recorder has saved its list, or the uid is disturbed. *)
LEMMA EvictKeeps ==
    ASSUME IInv, NEW s \in Server, NEW u \in Uid, Evict(s, u)
    PROVE  IInv'
<1>1. PICK ok \in BOOLEAN : Retire(s, u, ok) /\ Claim(u, ideal[u], ~ok)
  BY DEF Evict
<1>2. /\ rec[s][u] # None /\ rec[s][u] \in Commands
      /\ faults' \in 0..MaxFaults
      /\ store' \in [Uid -> Commands]
      /\ leaving' \in SUBSET (Server \X Uid \X Commands)
      /\ rec' \in [Server -> [Uid -> Commands \cup {None}]]
      /\ rec'[s][u] = None
      /\ \A t \in Server, v \in Uid : t # s \/ v # u => rec'[t][v] = rec[t][v]
      /\ \A v \in Uid \ {u} : store'[v] = store[v]
      /\ ok => store'[u] = rec[s][u]
  BY <1>1, Retired
<1>3. UNCHANGED <<call, loginCache, home, moving>>
  BY DEF Evict
<1>4. /\ ideal' \in [Uid -> Commands \cup {None}]
      /\ \A v \in Uid : ideal'[v] # None => ideal'[v] = ideal[v]
      /\ \A v \in Uid \ {u} : ideal'[v] = ideal[v]
      /\ ideal'[u] # None => ok
  BY <1>1 DEF Claim, IInv, TypeOK
<1>5. TypeOK'
  BY <1>2, <1>3, <1>4 DEF IInv, TypeOK
<1>6. SessionsAtHome'
  BY <1>3, <1>4 DEF IInv, TypeOK, SessionsAtHome
<1>7. RecordsAtHome' /\ CallsAtHome'
  BY <1>2, <1>3, <1>4 DEF IInv, RecordsAtHome, CallsAtHome
<1>8. HistoryFollowsUid'
  <2> SUFFICES ASSUME NEW v \in Uid, ideal'[v] # None
               PROVE  IF \A t \in Server : rec'[t][v] = None
                      THEN store'[v] = ideal'[v]
                      ELSE \A t \in Server : rec'[t][v] \in {None, ideal'[v]}
    BY DEF HistoryFollowsUid
  <2>1. CASE v = u
    <3>1. rec[s][u] = ideal[u] /\ \A t \in Server : t # s => rec[t][u] = None
      BY <1>2, <1>4, <2>1 DEF IInv, HistoryFollowsUid, RecordsAtHome
    <3> QED  BY <1>2, <1>4, <2>1, <3>1
  <2>2. CASE v # u
    BY <1>2, <1>4, <2>2 DEF IInv, HistoryFollowsUid
  <2> QED  BY <2>1, <2>2
<1> QED  BY <1>5, <1>6, <1>7, <1>8 DEF IInv

(* UidLogout stops the recorder; no call is left that would make it again. *)
LEMMA StopKeeps ==
    ASSUME IInv, NEW u \in Uid, StopRecorder(u)
    PROVE  IInv'
<1> DEFINE s == home[u]
<1>1. s \in Server /\ moving[u] # None /\ moving[u].step = "stop"
  BY DEF StopRecorder, IInv, TypeOK
<1>2. /\ UNCHANGED <<call, loginCache, home>>
      /\ moving' = [moving EXCEPT ![u].step = "update"]
  BY DEF StopRecorder
<1>3. PICK ok \in BOOLEAN :
        /\ Claim(u, ideal[u], ~ok \/ Late(u) # {})
        /\ \/ Retire(s, u, ok)
           \/ ok /\ rec[s][u] = None /\ UNCHANGED <<rec, leaving, store, faults>>
  BY DEF StopRecorder, Claim
<1> HIDE DEF s
<1>4. /\ faults' \in 0..MaxFaults
      /\ store' \in [Uid -> Commands]
      /\ leaving' \in SUBSET (Server \X Uid \X Commands)
      /\ rec' \in [Server -> [Uid -> Commands \cup {None}]]
      /\ rec'[s][u] = None
      /\ \A t \in Server, v \in Uid : t # s \/ v # u => rec'[t][v] = rec[t][v]
      /\ \A v \in Uid \ {u} : store'[v] = store[v]
      /\ ok /\ rec[s][u] # None => store'[u] = rec[s][u]
      /\ rec[s][u] = None => store'[u] = store[u]
  <2>1. CASE Retire(s, u, ok)
    BY <1>1, <2>1, Retired
  <2>2. CASE rec[s][u] = None /\ UNCHANGED <<rec, leaving, store, faults>>
    BY <2>2 DEF IInv, TypeOK
  <2> QED  BY <1>3, <2>1, <2>2
<1>5. /\ ideal' \in [Uid -> Commands \cup {None}]
      /\ \A v \in Uid : ideal'[v] # None => ideal'[v] = ideal[v]
      /\ \A v \in Uid \ {u} : ideal'[v] = ideal[v]
      /\ ideal'[u] # None => ok /\ Late(u) = {}
  BY <1>3 DEF Claim, IInv, TypeOK
<1>6. /\ moving' \in [Uid -> [step : Step, to : Server] \cup {None}]
      /\ \A v \in Uid \ {u} : moving'[v] = moving[v]
  BY <1>1, <1>2 DEF IInv, TypeOK
<1>7. TypeOK'
  BY <1>2, <1>4, <1>5, <1>6 DEF IInv, TypeOK
<1>8. SessionsAtHome'
  <2>1. \A a \in Addr, t \in Server :
          ideal[u] # None => <<u, a>> \notin loginCache[t]
    BY <1>1 DEF IInv, SessionsAtHome
  <2>2. \A t \in Server : \A x \in loginCache[t] :
          x[1] \in Uid /\ x[2] \in Addr /\ x = <<x[1], x[2]>>
    BY DEF IInv, TypeOK
  <2> QED  BY <1>2, <1>5, <1>6, <2>1, <2>2 DEF IInv, SessionsAtHome
<1>9. \A t \in Server : ideal'[u] # None => rec'[t][u] = None
  <2>1. \A t \in Server : ideal[u] # None /\ rec[t][u] # None => t = s
    BY DEF IInv, RecordsAtHome, s
  <2> QED  BY <1>4, <1>5, <2>1
<1>10. RecordsAtHome'
  BY <1>2, <1>4, <1>5, <1>6, <1>9 DEF IInv, RecordsAtHome
<1>11. CallsAtHome'
  <2>1. ideal'[u] # None => \A c \in Call :
          ~(call[c] # None /\ call[c].u = u /\ call[c].op \in {"Upload", "List"})
    BY <1>5 DEF IInv, CallsAtHome, Late
  <2> QED  BY <1>2, <1>5, <1>6, <2>1 DEF IInv, CallsAtHome
<1>12. HistoryFollowsUid'
  <2> SUFFICES ASSUME NEW v \in Uid, ideal'[v] # None
               PROVE  IF \A t \in Server : rec'[t][v] = None
                      THEN store'[v] = ideal'[v]
                      ELSE \A t \in Server : rec'[t][v] \in {None, ideal'[v]}
    BY DEF HistoryFollowsUid
  <2>1. CASE v = u
    <3>1. ok /\ ideal'[u] = ideal[u] /\ ideal[u] # None
      BY <1>5, <2>1
    <3>2. CASE rec[s][u] # None
      <4>1. rec[s][u] = ideal[u]
        BY <1>1, <3>1, <3>2 DEF IInv, HistoryFollowsUid
      <4> QED  BY <1>4, <1>9, <2>1, <3>1, <3>2, <4>1
    <3>3. CASE rec[s][u] = None
      <4>1. \A t \in Server : rec[t][u] = None
        BY <3>1, <3>3 DEF IInv, RecordsAtHome, s
      <4>2. store[u] = ideal[u]
        BY <3>1, <4>1 DEF IInv, HistoryFollowsUid
      <4> QED  BY <1>4, <1>9, <2>1, <3>1, <3>3, <4>2
    <3> QED  BY <3>2, <3>3
  <2>2. CASE v # u
    BY <1>4, <1>5, <2>2 DEF IInv, HistoryFollowsUid
  <2> QED  BY <2>1, <2>2
<1> QED  BY <1>7, <1>8, <1>10, <1>11, <1>12 DEF IInv

(* A call is recorded. *)
LEMMA RecordKeeps ==
    ASSUME IInv, NEW c \in Call, Record(c)
    PROVE  IInv'
<1> DEFINE r == call[c]
           s == call[c].s
           u == call[c].u
           q == call[c].q
<1>1. r # None /\ r.op # "Login" /\ r \in Admitted
  BY DEF Record, IInv, TypeOK
<1>2. PICK ok \in BOOLEAN :
        /\ ok \/ rec[s][u] = None
        /\ Etcd(ok)
        /\ rec' = [rec EXCEPT ![s][u] = Serve(Opened(s, u, ok), q)]
        /\ Claim(u, Serve(ideal[u], q), ~ok \/ (r.op = "Find" /\ GivenUp(s, u)))
  BY DEF Record
<1>3. /\ UNCHANGED <<loginCache, leaving, store, home, moving>>
      /\ call' = [call EXCEPT ![c] = None]
  BY DEF Record
<1>4. s \in Server /\ u \in Uid /\ r.op \in Op
  BY <1>1
<1>5. /\ ideal[u] # None /\ (r.op = "Find" => ~GivenUp(s, u))
           => s = home[u] /\ ~MovingAt(u, {"update"})
  BY <1>1, <1>4 DEF IInv, CallsAtHome
<1> HIDE DEF r, s, u, q
<1>6. /\ Opened(s, u, ok) \in Commands
      /\ rec[s][u] # None => Opened(s, u, ok) = rec[s][u]
      /\ rec[s][u] = None /\ ok => Opened(s, u, ok) = store[u]
  <2>1. rec[s][u] \in Commands \cup {None} /\ store[u] \in Commands
    BY <1>4 DEF IInv, TypeOK
  <2>2. Replay(store[u]) = store[u]
    BY <2>1, ReplayRestores
  <2> QED  BY <2>1, <2>2, EmptyCommands DEF Opened
<1>7. Serve(Opened(s, u, ok), q) \in Commands
  BY <1>6, ServeCommands
<1>8. /\ rec' \in [Server -> [Uid -> Commands \cup {None}]]
      /\ rec'[s][u] = Serve(Opened(s, u, ok), q)
      /\ \A t \in Server, v \in Uid : t # s \/ v # u => rec'[t][v] = rec[t][v]
  BY <1>2, <1>4, <1>7 DEF IInv, TypeOK
<1>9. /\ ideal' \in [Uid -> Commands \cup {None}]
      /\ \A v \in Uid \ {u} : ideal'[v] = ideal[v]
      /\ ideal'[u] # None =>
           /\ ideal[u] # None /\ ok /\ (r.op = "Find" => ~GivenUp(s, u))
           /\ ideal'[u] = Serve(ideal[u], q)
  <2>1. ideal[u] # None => Serve(ideal[u], q) \in Commands
    BY <1>4, ServeCommands DEF IInv, TypeOK
  <2> QED  BY <1>2, <1>4, <2>1 DEF Claim, IInv, TypeOK
<1>10. ideal'[u] # None => s = home[u] /\ ~MovingAt(u, {"update"})
  BY <1>5, <1>9
<1>11. call' \in [Call -> Admitted \cup {None}]
       /\ \A b \in Call : call'[b] # None => call'[b] = call[b]
  BY <1>3 DEF IInv, TypeOK
<1>12. TypeOK'
  <2>1. faults' \in 0..MaxFaults
    BY <1>2, MaxFaultsAssumption DEF Etcd, IInv, TypeOK
  <2> QED  BY <1>3, <1>8, <1>9, <1>11, <2>1 DEF IInv, TypeOK
<1>13. SessionsAtHome'
  <2>1. \A v \in Uid : ideal'[v] # None => ideal[v] # None
    BY <1>4, <1>9
  <2>2. \A t \in Server : \A x \in loginCache[t] : x[1] \in Uid
    BY DEF IInv, TypeOK
  <2> QED  BY <1>3, <2>1, <2>2 DEF IInv, SessionsAtHome
<1>14. RecordsAtHome'
  BY <1>3, <1>4, <1>8, <1>9, <1>10 DEF IInv, RecordsAtHome
<1>15. CallsAtHome'
  <2>1. \A v \in Uid : ideal'[v] # None => ideal[v] # None
    BY <1>4, <1>9
  <2> QED  BY <1>3, <1>11, <2>1 DEF IInv, CallsAtHome
<1>16. HistoryFollowsUid'
  <2> SUFFICES ASSUME NEW v \in Uid, ideal'[v] # None
               PROVE  IF \A t \in Server : rec'[t][v] = None
                      THEN store'[v] = ideal'[v]
                      ELSE \A t \in Server : rec'[t][v] \in {None, ideal'[v]}
    BY DEF HistoryFollowsUid
  <2>1. CASE v = u
    <3>1. ideal[u] # None /\ ok /\ ideal'[u] = Serve(ideal[u], q) /\ s = home[u]
      BY <1>9, <1>10, <2>1
    <3>2. \A t \in Server : t # s => rec[t][u] = None
      BY <1>4, <3>1 DEF IInv, RecordsAtHome
    <3>3. Opened(s, u, ok) = ideal[u]
      <4>1. CASE rec[s][u] # None
        BY <1>4, <1>6, <3>1, <4>1 DEF IInv, HistoryFollowsUid
      <4>2. CASE rec[s][u] = None
        <5>1. store[u] = ideal[u]
          BY <1>4, <3>1, <3>2, <4>2 DEF IInv, HistoryFollowsUid
        <5> QED  BY <1>6, <3>1, <4>2, <5>1
      <4> QED  BY <4>1, <4>2
    <3>4. rec'[s][u] = ideal'[u] /\ rec'[s][u] # None
      BY <1>8, <2>1, <3>1, <3>3
    <3>5. \A t \in Server : t # s => rec'[t][u] = None
      BY <1>4, <1>8, <3>2
    <3> QED  BY <1>4, <2>1, <3>4, <3>5
  <2>2. CASE v # u
    BY <1>3, <1>4, <1>8, <1>9, <2>2 DEF IInv, HistoryFollowsUid
  <2> QED  BY <2>1, <2>2
<1> QED  BY <1>12, <1>13, <1>14, <1>15, <1>16 DEF IInv

(* A server dies. *)
LEMMA CrashKeeps ==
    ASSUME IInv, NEW s \in Server, Crash(s)
    PROVE  IInv'
<1>1. TypeOK'
  BY DEF IInv, TypeOK, Crash
<1>2. SessionsAtHome'
  BY DEF IInv, TypeOK, SessionsAtHome, Crash
<1>3. RecordsAtHome'
  BY DEF IInv, TypeOK, RecordsAtHome, Crash
<1>4. CallsAtHome'
  BY DEF IInv, TypeOK, CallsAtHome, Crash
<1>5. HistoryFollowsUid'
  <2> SUFFICES ASSUME NEW v \in Uid, ideal'[v] # None
               PROVE  IF \A t \in Server : rec'[t][v] = None
                      THEN store'[v] = ideal'[v]
                      ELSE \A t \in Server : rec'[t][v] \in {None, ideal'[v]}
    BY DEF HistoryFollowsUid
  <2>1. /\ ideal[v] # None
        /\ ideal'[v] = IF rec[s][v] # None THEN store[v] ELSE ideal[v]
        /\ store' = store
        /\ rec'[s][v] = None
        /\ \A t \in Server : t # s => rec'[t][v] = rec[t][v]
    BY DEF Crash, IInv, TypeOK
  <2>2. CASE rec[s][v] # None
    <3>1. \A t \in Server : t # s => rec[t][v] = None
      BY <2>1, <2>2 DEF IInv, RecordsAtHome
    <3> QED  BY <2>1, <2>2, <3>1
  <2>3. CASE rec[s][v] = None
    <3>1. \A t \in Server : rec'[t][v] = rec[t][v]
      BY <2>1, <2>3
    <3> QED  BY <2>1, <2>3, <3>1 DEF IInv, HistoryFollowsUid
  <2> QED  BY <2>2, <2>3
<1> QED  BY <1>1, <1>2, <1>3, <1>4, <1>5 DEF IInv

-----------------------------------------------------------------------------

(* Every step of calls, moves, recorders and crashes keeps the invariant. *)
LEMMA StepKeeps == IInv /\ [Next]_vars => IInv'
<1> SUFFICES ASSUME IInv, [Next]_vars  PROVE IInv'
  OBVIOUS
<1>1. ASSUME NEW c \in Call, NEW s \in Server, NEW u \in Uid, NEW a \in Addr,
             Upload(c, s, u, a) \/ Search(c, s, u, a) \/ Login(c, s, u, a)
      PROVE  IInv'
  BY <1>1, UploadKeeps, SearchOrLoginKeeps
<1>2. ASSUME NEW c \in Call, Record(c) \/ UpdateTokenCache(c)  PROVE IInv'
  BY <1>2, RecordKeeps, TokenKeeps
<1>3. ASSUME NEW s \in Server, NEW u \in Uid,
             Tick(s, u) \/ Evict(s, u) \/ \E a \in Addr : Logout(s, u, a)
      PROVE  IInv'
  BY <1>3, TickKeeps, EvictKeeps, LogoutKeeps
<1>4. ASSUME NEW u \in Uid,
             \/ \E to \in Server : Move(u, to)
             \/ EndSessions(u) \/ StopRecorder(u) \/ UidLogoutFails(u)
             \/ updateEpInfo(u)
      PROVE  IInv'
  BY <1>4, MoveKeeps, EndSessionsKeeps, StopKeeps, LogoutFailsKeeps,
     updateEpInfoKeeps
<1>5. ASSUME NEW s \in Server, NEW u \in Uid, NEW list \in Commands,
             LateTick(s, u, list) \/ Finish(s, u, list)
      PROVE  IInv'
  BY <1>5, LateTickKeeps, FinishKeeps
<1>6. ASSUME NEW s \in Server, Crash(s)  PROVE IInv'
  BY <1>6, CrashKeeps
<1>7. CASE UNCHANGED vars
  BY <1>7 DEF vars, IInv, TypeOK, SessionsAtHome, RecordsAtHome, CallsAtHome,
              HistoryFollowsUid
<1> QED  BY <1>1, <1>2, <1>3, <1>4, <1>5, <1>6, <1>7 DEF Next

(***************************************************************************)
(* Whatever servers, users, connections and calls there are, and however   *)
(* they interleave with moves, evictions, late saves and crashes: a user   *)
(* without disturbance has sessions only at the server on record, is       *)
(* recorded by one server, and gets exactly the acknowledged history, in   *)
(* service or from etcd.                                                   *)
(***************************************************************************)
THEOREM HistoryFollows ==
    Spec => [](TypeOK /\ SessionsAtHome /\ OneServerRecords /\ HistoryFollowsUid)
<1>1. Init => IInv
  BY EmptyCommands, MaxFaultsAssumption
     DEF Init, IInv, TypeOK, SessionsAtHome, RecordsAtHome, CallsAtHome,
         HistoryFollowsUid
<1>2. IInv => TypeOK /\ SessionsAtHome /\ OneServerRecords /\ HistoryFollowsUid
  BY DEF IInv, RecordsAtHome, OneServerRecords
<1> QED  BY <1>1, <1>2, StepKeeps, PTL DEF Spec

(* The calls, sessions, recorders and histories of the servers keep their
   types: no list ever repeats a command or exceeds its capacity. *)
THEOREM ServersTyped == Spec => []TypeOK
BY HistoryFollows, PTL

(* UidLogout ends sessions early enough: an undisturbed user has none at a
   server that has given it up. *)
THEOREM SessionsEndBeforeMove == Spec => []SessionsAtHome
BY HistoryFollows, PTL

(* No two servers record an undisturbed user. *)
THEOREM RecordedOnce == Spec => []OneServerRecords
BY HistoryFollows, PTL

=============================================================================
