---------------------------- MODULE ProxyProofs ----------------------------
(***************************************************************************)
(* The safety of the proxy, for any number of requests, cleaners, uids,    *)
(* endpoints and failures.                                                 *)
(***************************************************************************)
EXTENDS Proxy, FiniteSetTheorems, TLAPS

(* Where a request holds no endpoint, and where it has not been run. *)
NoEndpoint == {"idle", "lookup", "lock"}
Ended == {"return", "undo", "idle"}

(* The places of the two kinds of goroutine. *)
Places ==
    /\ \A r \in Req : pc[r] \notin {"wait", "clean"}
    /\ \A c \in Cleaner : pc[c] \in {"idle", "wait", "clean"}
    /\ \A t \in Thread : pc[t] # "idle" => uid[t] \in Uid

(* The retries of a request are paid for by failures, and only a retry is
   undone. *)
DepthPaid ==
    \A r \in Req :
        /\ depth[r] <= faults
        /\ pc[r] \in {"giveup", "del"} => depth[r] + 1 <= faults
        /\ pc[r] = "undo" => depth[r] > 0

(* The lock is held by whoever asks the dash or cleans, and only then. *)
LockHeld ==
    \A t \in Thread : pc[t] \in {"ask", "wait", "clean"} <=> writer = t

(* A question to the dash is answered after the lock was taken. *)
FreshAnswer ==
    /\ \A r \in Req : pc[r] \in NoEndpoint => ep[r] = None
    /\ \A r \in Req : pc[r] = "ask" /\ uid[r] \in cleaned
                        => ep[r] \in {None, home[uid[r]]}

(* A request is run on its way out only; an answer comes from its run. *)
RunOnTheWayOut ==
    /\ \A r \in Req : executed[r] \in {0, 1}
    /\ \A r \in Req : pc[r] \notin Ended => executed[r] = 0
    /\ \A r \in Req : resp[r] => executed[r] = 1

IInv ==
    /\ TypeOK
    /\ Places
    /\ DepthPaid
    /\ LockHeld
    /\ FreshAnswer
    /\ FreshAfterClean
    /\ RunOnTheWayOut
    /\ CountExact

USE DEF At, Goto, AddCount, Fault, Hit, Thread, Place, Counted

-----------------------------------------------------------------------------
(* How the number of counted requests follows a change of place. *)

CountedIn(f) == {r \in Req : f[r] \in Counted}

(* Leaving a request on its side of the count, or moving a cleaner, keeps
   the number of counted requests. *)
LEMMA CountKept ==
  ASSUME IInv, NEW t \in Thread, NEW p \in Place,
         pc' = [pc EXCEPT ![t] = p],
         t \in Req => (pc[t] \in Counted <=> p \in Counted),
         proxyReqCount' = proxyReqCount
  PROVE  CountExact'
<1>1. CountedIn(pc') = CountedIn(pc)
  BY DEF IInv, TypeOK, CountedIn
<1> QED  BY <1>1 DEF IInv, CountExact, CountedIn

(* A request that raises the count as it enters a counted place. *)
LEMMA CountRaised ==
  ASSUME IInv, NEW r \in Req, NEW p \in Counted,
         pc[r] \notin Counted,
         pc' = [pc EXCEPT ![r] = p],
         proxyReqCount' = proxyReqCount + 1
  PROVE  CountExact'
<1>1. CountedIn(pc') = CountedIn(pc) \cup {r} /\ r \notin CountedIn(pc)
  BY DEF IInv, TypeOK, CountedIn
<1>2. IsFiniteSet(CountedIn(pc))
  BY ReqAssumption, FS_Subset DEF CountedIn
<1>3. Cardinality(CountedIn(pc')) = Cardinality(CountedIn(pc)) + 1
  BY <1>1, <1>2, FS_AddElement
<1> QED  BY <1>3 DEF IInv, CountExact, CountedIn

(* A request that lowers the count as it leaves the counted places. *)
LEMMA CountLowered ==
  ASSUME IInv, NEW r \in Req, NEW p \in Place \ Counted,
         pc[r] \in Counted,
         pc' = [pc EXCEPT ![r] = p],
         proxyReqCount' = proxyReqCount + (-1)
  PROVE  CountExact'
<1>1. CountedIn(pc') = CountedIn(pc) \ {r} /\ r \in CountedIn(pc)
  BY DEF IInv, TypeOK, CountedIn
<1>2. IsFiniteSet(CountedIn(pc))
  BY ReqAssumption, FS_Subset DEF CountedIn
<1>3. Cardinality(CountedIn(pc')) = Cardinality(CountedIn(pc)) - 1
  BY <1>1, <1>2, FS_RemoveElement
<1>4. Cardinality(CountedIn(pc)) \in Nat
  BY <1>2, FS_CardinalityType
<1> QED  BY <1>3, <1>4 DEF IInv, CountExact, CountedIn

-----------------------------------------------------------------------------

(* Every step of the proxy keeps the invariant. *)
LEMMA StepKeepsInv == IInv /\ [Next]_vars => IInv'
<1> SUFFICES ASSUME IInv, [Next]_vars PROVE IInv'
  OBVIOUS
<1> USE NoneAssumption, ReqAssumption, MaxFaultsAssumption
<1>0. CASE UNCHANGED vars
  <2>1. TypeOK' /\ Places' /\ DepthPaid' /\ LockHeld'
    BY <1>0 DEF IInv, TypeOK, Places, DepthPaid, LockHeld, vars, request,
       cacheVars
  <2>2. FreshAnswer' /\ FreshAfterClean' /\ RunOnTheWayOut' /\ CountExact'
    BY <1>0 DEF IInv, FreshAnswer, FreshAfterClean, RunOnTheWayOut, CountExact,
       vars,
                request, cacheVars
  <2> QED  BY <2>1, <2>2 DEF IInv
<1>1. ASSUME NEW r \in Req, NEW u \in Uid, Start(r, u) PROVE IInv'
  <2>1. TypeOK'
    BY <1>1 DEF IInv, TypeOK, Places, DepthPaid, Start, request, cacheVars
  <2>2. Places' /\ DepthPaid'
    BY <1>1 DEF IInv, TypeOK, Places, DepthPaid, Start, request, cacheVars
  <2>3. LockHeld'
    BY <1>1 DEF IInv, TypeOK, LockHeld, Places, Start, request, cacheVars
  <2>4. FreshAnswer' /\ FreshAfterClean'
    BY <1>1 DEF IInv, TypeOK, Places, LockHeld, FreshAnswer, NoEndpoint,
              FreshAfterClean, Start, request, cacheVars
  <2>5. RunOnTheWayOut'
    BY <1>1 DEF IInv, TypeOK, Places, RunOnTheWayOut, Ended, Start, request,
       cacheVars
  <2>6. CountExact'
    BY <1>1, CountKept DEF IInv, TypeOK, Places, Start
  <2> QED  BY <2>1, <2>2, <2>3, <2>4, <2>5, <2>6 DEF IInv
<1>2. ASSUME NEW r \in Req, CacheGet(r) PROVE IInv'
  <2>1. TypeOK'
    BY <1>2 DEF IInv, TypeOK, Places, DepthPaid, CacheGet, request, cacheVars
  <2>2. Places' /\ DepthPaid'
    BY <1>2 DEF IInv, TypeOK, Places, DepthPaid, CacheGet, request, cacheVars
  <2>3. LockHeld'
    BY <1>2 DEF IInv, TypeOK, LockHeld, Places, CacheGet, request, cacheVars
  <2>4. FreshAnswer' /\ FreshAfterClean'
    BY <1>2 DEF IInv, TypeOK, Places, LockHeld, FreshAnswer, NoEndpoint,
              FreshAfterClean, CacheGet, request, cacheVars
  <2>5. RunOnTheWayOut'
    BY <1>2 DEF IInv, TypeOK, Places, RunOnTheWayOut, Ended, CacheGet, request,
       cacheVars
  <2>6. CountExact'
    BY <1>2, CountKept DEF IInv, TypeOK, Places, CacheGet
  <2> QED  BY <2>1, <2>2, <2>3, <2>4, <2>5, <2>6 DEF IInv
<1>3. ASSUME NEW r \in Req, AcquireToAsk(r) PROVE IInv'
  <2>1. TypeOK'
    BY <1>3 DEF IInv, TypeOK, Places, DepthPaid, AcquireToAsk, request,
       cacheVars
  <2>2. Places' /\ DepthPaid'
    BY <1>3 DEF IInv, TypeOK, Places, DepthPaid, AcquireToAsk, request,
       cacheVars
  <2>3. LockHeld'
    BY <1>3 DEF IInv, TypeOK, LockHeld, Places, AcquireToAsk, request,
       cacheVars
  <2>4. FreshAnswer' /\ FreshAfterClean'
    BY <1>3 DEF IInv, TypeOK, Places, LockHeld, FreshAnswer, NoEndpoint,
              FreshAfterClean, AcquireToAsk, request, cacheVars
  <2>5. RunOnTheWayOut'
    BY <1>3 DEF IInv, TypeOK, Places, RunOnTheWayOut, Ended, AcquireToAsk,
       request, cacheVars
  <2>6. CountExact'
    BY <1>3, CountKept DEF IInv, TypeOK, Places, AcquireToAsk
  <2> QED  BY <2>1, <2>2, <2>3, <2>4, <2>5, <2>6 DEF IInv
<1>4. ASSUME NEW r \in Req, AskDash(r) PROVE IInv'
  <2>1. TypeOK'
    BY <1>4 DEF IInv, TypeOK, Places, DepthPaid, AskDash, request, cacheVars
  <2>2. Places' /\ DepthPaid'
    BY <1>4 DEF IInv, TypeOK, Places, DepthPaid, AskDash, request, cacheVars
  <2>3. LockHeld'
    BY <1>4 DEF IInv, TypeOK, LockHeld, Places, AskDash, request, cacheVars
  <2>4. FreshAnswer' /\ FreshAfterClean'
    BY <1>4 DEF IInv, TypeOK, Places, LockHeld, FreshAnswer, NoEndpoint,
              FreshAfterClean, AskDash, request, cacheVars
  <2>5. RunOnTheWayOut'
    BY <1>4 DEF IInv, TypeOK, Places, RunOnTheWayOut, Ended, AskDash, request,
       cacheVars
  <2>6. CountExact'
    BY <1>4 DEF IInv, CountExact, AskDash
  <2> QED  BY <2>1, <2>2, <2>3, <2>4, <2>5, <2>6 DEF IInv
<1>5. ASSUME NEW r \in Req, CachePut(r) PROVE IInv'
  <2>1. TypeOK'
    BY <1>5 DEF IInv, TypeOK, Places, DepthPaid, CachePut, request, cacheVars
  <2>2. Places' /\ DepthPaid'
    BY <1>5 DEF IInv, TypeOK, Places, DepthPaid, CachePut, request, cacheVars
  <2>3. LockHeld'
    BY <1>5 DEF IInv, TypeOK, LockHeld, Places, CachePut, request, cacheVars
  <2>4. FreshAnswer' /\ FreshAfterClean'
    BY <1>5 DEF IInv, TypeOK, Places, LockHeld, FreshAnswer, NoEndpoint,
              FreshAfterClean, CachePut, request, cacheVars
  <2>5. RunOnTheWayOut'
    BY <1>5 DEF IInv, TypeOK, Places, RunOnTheWayOut, Ended, CachePut, request,
       cacheVars
  <2>6. CountExact'
    BY <1>5, CountKept DEF IInv, TypeOK, Places, CachePut
  <2> QED  BY <2>1, <2>2, <2>3, <2>4, <2>5, <2>6 DEF IInv
<1>6. ASSUME NEW r \in Req, DashFails(r) PROVE IInv'
  <2>1. TypeOK'
    BY <1>6 DEF IInv, TypeOK, Places, DepthPaid, DashFails, request, cacheVars
  <2>2. Places' /\ DepthPaid'
    BY <1>6 DEF IInv, TypeOK, Places, DepthPaid, DashFails, request, cacheVars
  <2>3. LockHeld'
    BY <1>6 DEF IInv, TypeOK, LockHeld, Places, DashFails, request, cacheVars
  <2>4. FreshAnswer' /\ FreshAfterClean'
    BY <1>6 DEF IInv, TypeOK, Places, LockHeld, FreshAnswer, NoEndpoint,
              FreshAfterClean, DashFails, request, cacheVars
  <2>5. RunOnTheWayOut'
    BY <1>6 DEF IInv, TypeOK, Places, RunOnTheWayOut, Ended, DashFails,
       request, cacheVars
  <2>6. CountExact'
    BY <1>6, CountKept DEF IInv, TypeOK, Places, DashFails
  <2> QED  BY <2>1, <2>2, <2>3, <2>4, <2>5, <2>6 DEF IInv
<1>7. ASSUME NEW r \in Req, Enter(r) PROVE IInv'
  <2>1. TypeOK'
    BY <1>7 DEF IInv, TypeOK, Places, DepthPaid, Enter, request, cacheVars
  <2>2. Places' /\ DepthPaid'
    BY <1>7 DEF IInv, TypeOK, Places, DepthPaid, Enter, request, cacheVars
  <2>3. LockHeld'
    BY <1>7 DEF IInv, TypeOK, LockHeld, Places, Enter, request, cacheVars
  <2>4. FreshAnswer' /\ FreshAfterClean'
    BY <1>7 DEF IInv, TypeOK, Places, LockHeld, FreshAnswer, NoEndpoint,
              FreshAfterClean, Enter, request, cacheVars
  <2>5. RunOnTheWayOut'
    BY <1>7 DEF IInv, TypeOK, Places, RunOnTheWayOut, Ended, Enter, request,
       cacheVars
  <2>6. CountExact'
    BY <1>7, CountRaised DEF IInv, TypeOK, Places, Enter
  <2> QED  BY <2>1, <2>2, <2>3, <2>4, <2>5, <2>6 DEF IInv
<1>8. ASSUME NEW r \in Req, DealReturns(r) PROVE IInv'
  <2>1. TypeOK'
    BY <1>8 DEF IInv, TypeOK, Places, DepthPaid, DealReturns, request,
       cacheVars
  <2>2. Places' /\ DepthPaid'
    BY <1>8 DEF IInv, TypeOK, Places, DepthPaid, DealReturns, request,
       cacheVars
  <2>3. LockHeld'
    BY <1>8 DEF IInv, TypeOK, LockHeld, Places, DealReturns, request, cacheVars
  <2>4. FreshAnswer' /\ FreshAfterClean'
    BY <1>8 DEF IInv, TypeOK, Places, LockHeld, FreshAnswer, NoEndpoint,
              FreshAfterClean, DealReturns, request, cacheVars
  <2>5. RunOnTheWayOut'
    BY <1>8 DEF IInv, TypeOK, Places, RunOnTheWayOut, Ended, DealReturns,
       request, cacheVars
  <2>6. CountExact'
    BY <1>8, CountLowered DEF IInv, TypeOK, Places, DealReturns
  <2> QED  BY <2>1, <2>2, <2>3, <2>4, <2>5, <2>6 DEF IInv
<1>9. ASSUME NEW r \in Req, DealConnError(r) PROVE IInv'
  <2>1. TypeOK'
    BY <1>9 DEF IInv, TypeOK, Places, DepthPaid, DealConnError, request,
       cacheVars
  <2>2. Places' /\ DepthPaid'
    BY <1>9 DEF IInv, TypeOK, Places, DepthPaid, DealConnError, request,
       cacheVars
  <2>3. LockHeld'
    BY <1>9 DEF IInv, TypeOK, LockHeld, Places, DealConnError, request,
       cacheVars
  <2>4. FreshAnswer' /\ FreshAfterClean'
    BY <1>9 DEF IInv, TypeOK, Places, LockHeld, FreshAnswer, NoEndpoint,
              FreshAfterClean, DealConnError, request, cacheVars
  <2>5. RunOnTheWayOut'
    BY <1>9 DEF IInv, TypeOK, Places, RunOnTheWayOut, Ended, DealConnError,
       request, cacheVars
  <2>6. CountExact'
    BY <1>9, CountKept DEF IInv, TypeOK, Places, DealConnError
  <2> QED  BY <2>1, <2>2, <2>3, <2>4, <2>5, <2>6 DEF IInv
<1>10. ASSUME NEW r \in Req, GiveUp(r) PROVE IInv'
  <2>1. TypeOK'
    BY <1>10 DEF IInv, TypeOK, Places, DepthPaid, GiveUp, request, cacheVars
  <2>2. Places' /\ DepthPaid'
    BY <1>10 DEF IInv, TypeOK, Places, DepthPaid, GiveUp, request, cacheVars
  <2>3. LockHeld'
    BY <1>10 DEF IInv, TypeOK, LockHeld, Places, GiveUp, request, cacheVars
  <2>4. FreshAnswer' /\ FreshAfterClean'
    BY <1>10 DEF IInv, TypeOK, Places, LockHeld, FreshAnswer, NoEndpoint,
              FreshAfterClean, GiveUp, request, cacheVars
  <2>5. RunOnTheWayOut'
    BY <1>10 DEF IInv, TypeOK, Places, RunOnTheWayOut, Ended, GiveUp, request,
       cacheVars
  <2>6. CountExact'
    BY <1>10, CountLowered DEF IInv, TypeOK, Places, GiveUp
  <2> QED  BY <2>1, <2>2, <2>3, <2>4, <2>5, <2>6 DEF IInv
<1>11. ASSUME NEW r \in Req, DelOwn(r) PROVE IInv'
  <2>1. TypeOK'
    BY <1>11 DEF IInv, TypeOK, Places, DepthPaid, DelOwn, request, cacheVars
  <2>2. Places' /\ DepthPaid'
    BY <1>11 DEF IInv, TypeOK, Places, DepthPaid, DelOwn, request, cacheVars
  <2>3. LockHeld'
    BY <1>11 DEF IInv, TypeOK, LockHeld, Places, DelOwn, request, cacheVars
  <2>4. FreshAnswer' /\ FreshAfterClean'
    BY <1>11 DEF IInv, TypeOK, Places, LockHeld, FreshAnswer, NoEndpoint,
              FreshAfterClean, DelOwn, request, cacheVars
  <2>5. RunOnTheWayOut'
    BY <1>11 DEF IInv, TypeOK, Places, RunOnTheWayOut, Ended, DelOwn, request,
       cacheVars
  <2>6. CountExact'
    BY <1>11, CountKept DEF IInv, TypeOK, Places, DelOwn
  <2> QED  BY <2>1, <2>2, <2>3, <2>4, <2>5, <2>6 DEF IInv
<1>12. ASSUME NEW r \in Req, Undo(r) PROVE IInv'
  <2>1. TypeOK'
    BY <1>12 DEF IInv, TypeOK, Places, DepthPaid, Undo, request, cacheVars
  <2>2. Places' /\ DepthPaid'
    BY <1>12 DEF IInv, TypeOK, Places, DepthPaid, Undo, request, cacheVars
  <2>3. LockHeld'
    BY <1>12 DEF IInv, TypeOK, LockHeld, Places, Undo, request, cacheVars
  <2>4. FreshAnswer' /\ FreshAfterClean'
    BY <1>12 DEF IInv, TypeOK, Places, LockHeld, FreshAnswer, NoEndpoint,
              FreshAfterClean, Undo, request, cacheVars
  <2>5. RunOnTheWayOut'
    BY <1>12 DEF IInv, TypeOK, Places, RunOnTheWayOut, Ended, Undo, request,
       cacheVars
  <2>6. CountExact'
    BY <1>12, CountRaised DEF IInv, TypeOK, Places, Undo
  <2> QED  BY <2>1, <2>2, <2>3, <2>4, <2>5, <2>6 DEF IInv
<1>13. ASSUME NEW r \in Req, LeaveOuter(r) PROVE IInv'
  <2>1. TypeOK'
    BY <1>13 DEF IInv, TypeOK, Places, DepthPaid, LeaveOuter, request,
       cacheVars
  <2>2. Places' /\ DepthPaid'
    BY <1>13 DEF IInv, TypeOK, Places, DepthPaid, LeaveOuter, request,
       cacheVars
  <2>3. LockHeld'
    BY <1>13 DEF IInv, TypeOK, LockHeld, Places, LeaveOuter, request, cacheVars
  <2>4. FreshAnswer' /\ FreshAfterClean'
    BY <1>13 DEF IInv, TypeOK, Places, LockHeld, FreshAnswer, NoEndpoint,
              FreshAfterClean, LeaveOuter, request, cacheVars
  <2>5. RunOnTheWayOut'
    BY <1>13 DEF IInv, TypeOK, Places, RunOnTheWayOut, Ended, LeaveOuter,
       request, cacheVars
  <2>6. CountExact'
    BY <1>13, CountLowered DEF IInv, TypeOK, Places, LeaveOuter
  <2> QED  BY <2>1, <2>2, <2>3, <2>4, <2>5, <2>6 DEF IInv
<1>14. ASSUME NEW r \in Req, Reply(r) PROVE IInv'
  <2>1. TypeOK'
    BY <1>14 DEF IInv, TypeOK, Places, DepthPaid, Reply, request, cacheVars
  <2>2. Places' /\ DepthPaid'
    BY <1>14 DEF IInv, TypeOK, Places, DepthPaid, Reply, request, cacheVars
  <2>3. LockHeld'
    BY <1>14 DEF IInv, TypeOK, LockHeld, Places, Reply, request, cacheVars
  <2>4. FreshAnswer' /\ FreshAfterClean'
    BY <1>14 DEF IInv, TypeOK, Places, LockHeld, FreshAnswer, NoEndpoint,
              FreshAfterClean, Reply, request, cacheVars
  <2>5. RunOnTheWayOut'
    BY <1>14 DEF IInv, TypeOK, Places, RunOnTheWayOut, Ended, Reply, request,
       cacheVars
  <2>6. CountExact'
    BY <1>14, CountKept DEF IInv, TypeOK, Places, Reply
  <2> QED  BY <2>1, <2>2, <2>3, <2>4, <2>5, <2>6 DEF IInv
<1>15. ASSUME NEW c \in Cleaner, NEW u \in Uid, CleanLock(c, u) PROVE IInv'
  <2>1. TypeOK'
    BY <1>15 DEF IInv, TypeOK, Places, DepthPaid, CleanLock, request, cacheVars
  <2>2. Places' /\ DepthPaid'
    BY <1>15 DEF IInv, TypeOK, Places, DepthPaid, CleanLock, request, cacheVars
  <2>3. LockHeld'
    BY <1>15 DEF IInv, TypeOK, LockHeld, Places, CleanLock, request, cacheVars
  <2>4. FreshAnswer' /\ FreshAfterClean'
    BY <1>15 DEF IInv, TypeOK, Places, LockHeld, FreshAnswer, NoEndpoint,
              FreshAfterClean, CleanLock, request, cacheVars
  <2>5. RunOnTheWayOut'
    BY <1>15 DEF IInv, TypeOK, Places, RunOnTheWayOut, Ended, CleanLock,
       request, cacheVars
  <2>6. CountExact'
    BY <1>15, CountKept DEF IInv, TypeOK, Places, CleanLock
  <2> QED  BY <2>1, <2>2, <2>3, <2>4, <2>5, <2>6 DEF IInv
<1>16. ASSUME NEW c \in Cleaner, CleanDrained(c) PROVE IInv'
  <2>1. TypeOK'
    BY <1>16 DEF IInv, TypeOK, Places, DepthPaid, CleanDrained, request,
       cacheVars
  <2>2. Places' /\ DepthPaid'
    BY <1>16 DEF IInv, TypeOK, Places, DepthPaid, CleanDrained, request,
       cacheVars
  <2>3. LockHeld'
    BY <1>16 DEF IInv, TypeOK, LockHeld, Places, CleanDrained, request,
       cacheVars
  <2>4. FreshAnswer' /\ FreshAfterClean'
    BY <1>16 DEF IInv, TypeOK, Places, LockHeld, FreshAnswer, NoEndpoint,
              FreshAfterClean, CleanDrained, request, cacheVars
  <2>5. RunOnTheWayOut'
    BY <1>16 DEF IInv, TypeOK, Places, RunOnTheWayOut, Ended, CleanDrained,
       request, cacheVars
  <2>6. CountExact'
    BY <1>16, CountKept DEF IInv, TypeOK, Places, CleanDrained
  <2> QED  BY <2>1, <2>2, <2>3, <2>4, <2>5, <2>6 DEF IInv
<1>17. ASSUME NEW c \in Cleaner, CleanDel(c) PROVE IInv'
  <2>1. TypeOK'
    BY <1>17 DEF IInv, TypeOK, Places, DepthPaid, CleanDel, request, cacheVars
  <2>2. Places' /\ DepthPaid'
    BY <1>17 DEF IInv, TypeOK, Places, DepthPaid, CleanDel, request, cacheVars
  <2>3. LockHeld'
    BY <1>17 DEF IInv, TypeOK, LockHeld, Places, CleanDel, request, cacheVars
  <2>4. FreshAnswer' /\ FreshAfterClean'
    BY <1>17 DEF IInv, TypeOK, Places, LockHeld, FreshAnswer, NoEndpoint,
              FreshAfterClean, CleanDel, request, cacheVars
  <2>5. RunOnTheWayOut'
    BY <1>17 DEF IInv, TypeOK, Places, RunOnTheWayOut, Ended, CleanDel,
       request, cacheVars
  <2>6. CountExact'
    BY <1>17, CountKept DEF IInv, TypeOK, Places, CleanDel
  <2> QED  BY <2>1, <2>2, <2>3, <2>4, <2>5, <2>6 DEF IInv
<1>18. ASSUME NEW u \in Uid, Stale(u) PROVE IInv'
  <2>1. TypeOK'
    BY <1>18 DEF IInv, TypeOK, Places, DepthPaid, Stale, request, cacheVars
  <2>2. Places' /\ DepthPaid'
    BY <1>18 DEF IInv, TypeOK, Places, DepthPaid, Stale, request, cacheVars
  <2>3. LockHeld'
    BY <1>18 DEF IInv, TypeOK, LockHeld, Places, Stale, request, cacheVars
  <2>4. FreshAnswer' /\ FreshAfterClean'
    BY <1>18 DEF IInv, TypeOK, Places, LockHeld, FreshAnswer, NoEndpoint,
              FreshAfterClean, Stale, request, cacheVars
  <2>5. RunOnTheWayOut'
    BY <1>18 DEF IInv, TypeOK, Places, RunOnTheWayOut, Ended, Stale, request,
       cacheVars
  <2>6. CountExact'
    BY <1>18 DEF IInv, CountExact, Stale
  <2> QED  BY <2>1, <2>2, <2>3, <2>4, <2>5, <2>6 DEF IInv
<1>19. ASSUME NEW u \in Uid, NEW e \in Endpoint, Move(u, e) PROVE IInv'
  <2>1. TypeOK'
    BY <1>19 DEF IInv, TypeOK, Places, DepthPaid, Move, request, cacheVars
  <2>2. Places' /\ DepthPaid'
    BY <1>19 DEF IInv, TypeOK, Places, DepthPaid, Move, request, cacheVars
  <2>3. LockHeld'
    BY <1>19 DEF IInv, TypeOK, LockHeld, Places, Move, request, cacheVars
  <2>4. FreshAnswer' /\ FreshAfterClean'
    BY <1>19 DEF IInv, TypeOK, Places, LockHeld, FreshAnswer, NoEndpoint,
              FreshAfterClean, Move, request, cacheVars
  <2>5. RunOnTheWayOut'
    BY <1>19 DEF IInv, TypeOK, Places, RunOnTheWayOut, Ended, Move, request,
       cacheVars
  <2>6. CountExact'
    BY <1>19 DEF IInv, CountExact, Move
  <2> QED  BY <2>1, <2>2, <2>3, <2>4, <2>5, <2>6 DEF IInv
<1> QED
  BY <1>0, <1>1, <1>2, <1>3, <1>4, <1>5, <1>6, <1>7, <1>8, <1>9, <1>10, <1>11,
     <1>12, <1>13, <1>14, <1>15, <1>16, <1>17, <1>18, <1>19 DEF Next, Run,
     Locking, Clean

(***************************************************************************)
(* Safety of the proxy: its state is well typed, the counter that          *)
(* CleanUidCache waits for is exact, a cleaned uid gets no older answer    *)
(* back, no request is run twice, and who is answered was served.          *)
(***************************************************************************)
THEOREM ProxySafe ==
    Spec => [](TypeOK /\ CountExact /\ FreshAfterClean /\ AtMostOnce /\ AnswerIsReal)
<1>1. Init => IInv
  <2> SUFFICES ASSUME Init PROVE IInv
    OBVIOUS
  <2> USE NoneAssumption, MaxFaultsAssumption
  <2>1. TypeOK /\ Places /\ DepthPaid /\ LockHeld
    BY DEF Init, TypeOK, Places, DepthPaid, LockHeld
  <2>2. FreshAnswer /\ FreshAfterClean /\ RunOnTheWayOut
    BY DEF Init, FreshAnswer, FreshAfterClean, RunOnTheWayOut, Ended
  <2>3. CountExact
    <3>1. {r \in Req : pc[r] \in Counted} = {}
      BY DEF Init
    <3> QED  BY <3>1, FS_EmptySet DEF Init, CountExact
  <2> QED  BY <2>1, <2>2, <2>3 DEF IInv
<1>2. IInv /\ [Next]_vars => IInv'
  BY StepKeepsInv
<1>3. IInv => TypeOK /\ CountExact /\ FreshAfterClean /\ AtMostOnce /\ AnswerIsReal
  BY DEF IInv, RunOnTheWayOut, AtMostOnce, AnswerIsReal
<1> QED  BY <1>1, <1>2, <1>3, PTL DEF Spec

(* The counter CleanUidCache polls never drifts. *)
THEOREM CountIsExact == Spec => []CountExact
BY ProxySafe, PTL

(* After a cleaning the cache holds nothing the dash would not answer now. *)
THEOREM CleanedStaysFresh == Spec => []FreshAfterClean
BY ProxySafe, PTL

(* doProxy's retries never run a request a second time. *)
THEOREM RunAtMostOnce == Spec => []AtMostOnce
BY ProxySafe, PTL

(* A success without a search server behind it is never answered. *)
THEOREM AnswersAreReal == Spec => []AnswerIsReal
BY ProxySafe, PTL

=============================================================================
