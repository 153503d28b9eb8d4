------------------------------- MODULE Proxy -------------------------------
(***************************************************************************)
(* The proxy (src/server/server.go): doProxy and uidEndpoint, which every  *)
(* Search, Upload, Login and Logout goes through, the stalingCache of uid  *)
(* to endpoint, and ProxyController.CleanUidCache, which empties it.       *)
(*                                                                         *)
(* Requests and cleaners are goroutines.  They share the read-write lock   *)
(* uidEndpointsCacheMtx and the atomic counter proxyReqCount.  A section   *)
(* under RLock is one step taken while there is no writer.  The dash and   *)
(* the search servers are environment: home is the endpoint the dash would *)
(* answer.                                                                 *)
(***************************************************************************)
EXTENDS Integers, FiniteSets

CONSTANTS
    Req,        \* request goroutines
    Cleaner,    \* goroutines of CleanUidCache
    Uid,
    Endpoint,
    None,
    MaxFaults   \* bound: "not leader" answers and connection errors

ASSUME NoneAssumption == None \notin Req \cup Cleaner \cup Uid \cup Endpoint
ASSUME ReqAssumption == IsFiniteSet(Req) /\ Req \cap Cleaner = {}
ASSUME MaxFaultsAssumption == MaxFaults \in Nat

VARIABLES
    pc,             \* where a request or a cleaner is
    uid,            \* the uid it is about
    ep,             \* the endpoint a request was given
    depth,          \* a request's suspended outer calls of doProxy
    executed,       \* history: search servers that ran the request
    resp,           \* "resp" of a request: an answer, or nil (FALSE)
    writer,         \* who holds uidEndpointsCacheMtx for writing
    cache,          \* uidEndpointsCache: the endpoint held for a uid
    expired,        \* the uids whose entry is past its deadline
    proxyReqCount,
    faults,
    home,           \* environment: the endpoint the dash assigns to a uid
    cleaned         \* history: uids cleaned since the dash last moved them

request == <<uid, ep, depth, executed, resp>>
cacheVars == <<cache, expired>>
vars == <<pc, request, writer, cacheVars, proxyReqCount, faults, home, cleaned>>

Thread == Req \cup Cleaner
Counted == {"deal", "giveup", "undo"}
Place == {"idle", "lookup", "lock", "ask", "got", "del", "return", "wait",
          "clean"} \cup Counted

TypeOK ==
    /\ pc \in [Thread -> Place]
    /\ uid \in [Thread -> Uid \cup {None}]
    /\ ep \in [Req -> Endpoint \cup {None}]
    /\ depth \in [Req -> 0..MaxFaults]
    /\ executed \in [Req -> Nat]
    /\ resp \in [Req -> BOOLEAN]
    /\ writer \in Thread \cup {None}
    /\ cache \in [Uid -> Endpoint \cup {None}]
    /\ expired \in SUBSET Uid
    /\ proxyReqCount \in Int
    /\ faults \in 0..MaxFaults
    /\ home \in [Uid -> Endpoint]
    /\ cleaned \in SUBSET Uid

Goto(t, place) == pc' = [pc EXCEPT ![t] = place]
At(t, place) == pc[t] = place
Fault == faults < MaxFaults /\ faults' = faults + 1
AddCount(n) == proxyReqCount' = proxyReqCount + n

-----------------------------------------------------------------------------

Init ==
    /\ pc = [t \in Thread |-> "idle"]
    /\ uid = [t \in Thread |-> None]
    /\ ep = [r \in Req |-> None]
    /\ depth = [r \in Req |-> 0]
    /\ executed = [r \in Req |-> 0]
    /\ resp = [r \in Req |-> FALSE]
    /\ writer = None
    /\ cache = [u \in Uid |-> None]
    /\ expired = {}
    /\ proxyReqCount = 0
    /\ faults = 0
    /\ home \in [Uid -> Endpoint]
    /\ cleaned = {}

(* A client's request for u arrives: ProxyServer.Search, Upload, ... *)
Start(r, u) ==
    /\ At(r, "idle")
    /\ Goto(r, "lookup")
    /\ uid' = [uid EXCEPT ![r] = u]
    /\ executed' = [executed EXCEPT ![r] = 0]
    /\ resp' = [resp EXCEPT ![r] = FALSE]
    /\ UNCHANGED <<ep, depth, writer, cacheVars, proxyReqCount, faults, home,
                   cleaned>>

(***************************************************************************)
(* uidEndpoint, first part: stalingCache.Get under RLock.  An entry past   *)
(* its deadline is deleted and counts as absent.                           *)
(***************************************************************************)
Hit(u) == cache[u] # None /\ u \notin expired

CacheGet(r) ==
    LET u == uid[r] IN
    /\ At(r, "lookup")
    /\ writer = None
    /\ \/ /\ Hit(u)
          /\ ep' = [ep EXCEPT ![r] = cache[u]]
          /\ Goto(r, "got")
          /\ UNCHANGED cacheVars
       \/ /\ ~Hit(u)
          /\ cache' = [cache EXCEPT ![u] = None]
          /\ expired' = expired \ {u}
          /\ Goto(r, "lock")
          /\ UNCHANGED ep
    /\ UNCHANGED <<uid, depth, executed, resp, writer, proxyReqCount, faults, home,
                   cleaned>>

AcquireToAsk_NoLock(r) ==       \* mutant: the dash is asked without the lock
    /\ At(r, "lock")
    /\ writer = None
    /\ Goto(r, "ask")
    /\ UNCHANGED <<request, writer, cacheVars, proxyReqCount, faults, home, cleaned>>

(* Second part: the write lock is taken and kept over the call to the dash;
   the cache is not looked at again. *)
AcquireToAsk(r) ==
    /\ At(r, "lock")
    /\ writer = None
    /\ writer' = r
    /\ Goto(r, "ask")
    /\ UNCHANGED <<request, cacheVars, proxyReqCount, faults, home, cleaned>>

(* The dash takes the request up and decides; the answer travels back. *)
AskDash(r) ==
    /\ At(r, "ask")
    /\ ep[r] = None
    /\ ep' = [ep EXCEPT ![r] = home[uid[r]]]
    /\ UNCHANGED <<pc, uid, depth, executed, resp, writer, cacheVars, proxyReqCount,
                   faults, home, cleaned>>

CachePut(r) ==
    /\ At(r, "ask")
    /\ ep[r] # None
    /\ cache' = [cache EXCEPT ![uid[r]] = ep[r]]
    /\ expired' = expired \ {uid[r]}
    /\ writer' = None
    /\ Goto(r, "got")
    /\ UNCHANGED <<request, proxyReqCount, faults, home, cleaned>>

DashFails_KeepsLock(r) ==       \* mutant: no Unlock on the error path
    /\ At(r, "ask")
    /\ ep' = [ep EXCEPT ![r] = None]
    /\ \/ Fault /\ Goto(r, "lookup")
       \/ UNCHANGED faults /\ Goto(r, "return")
    /\ UNCHANGED <<uid, depth, executed, resp, writer, cacheVars, proxyReqCount, home,
                   cleaned>>

(* doProxy: on "not leader" it sleeps and asks again, on any other error it
   returns. *)
DashFails(r) ==
    /\ At(r, "ask")
    /\ writer' = None
    /\ ep' = [ep EXCEPT ![r] = None]
    /\ \/ Fault /\ Goto(r, "lookup")
       \/ UNCHANGED faults /\ Goto(r, "return")
    /\ UNCHANGED <<uid, depth, executed, resp, cacheVars, proxyReqCount, home, cleaned>>

(* atomic.AddInt32(&proxyReqCount, 1), then the call to the endpoint. *)
Enter(r) ==
    /\ At(r, "got")
    /\ AddCount(1)
    /\ Goto(r, "deal")
    /\ UNCHANGED <<request, writer, cacheVars, faults, home, cleaned>>

(* dealFunc returns nil with an answer, or an error that does not say
   "connection error", without one; in the second case the search server may
   or may not have run the request.  doProxy returns, with the deferred
   atomic.AddInt32(&proxyReqCount, -1). *)
DealReturns(r) ==
    /\ At(r, "deal")
    /\ \E n \in {0, 1}, ok \in BOOLEAN :
        /\ ok => n = 1
        /\ executed' = [executed EXCEPT ![r] = @ + n]
        /\ resp' = [resp EXCEPT ![r] = ok]
    /\ AddCount(-1)
    /\ Goto(r, "return")
    /\ UNCHANGED <<uid, ep, depth, writer, cacheVars, faults, home, cleaned>>

DealConnError_Ran(r) ==         \* mutant: every error is retried
    /\ At(r, "deal")
    /\ Fault
    /\ \E n \in {0, 1} : executed' = [executed EXCEPT ![r] = @ + n]
    /\ Goto(r, "giveup")
    /\ UNCHANGED <<uid, ep, depth, resp, writer, cacheVars, proxyReqCount, home, cleaned>>

(* checkConnErr: the server was not reached, so it did not run it. *)
DealConnError(r) ==
    /\ At(r, "deal")
    /\ Fault
    /\ Goto(r, "giveup")
    /\ UNCHANGED <<request, writer, cacheVars, proxyReqCount, home, cleaned>>

GiveUp_StillCounted(r) ==       \* mutant: the count is not lowered first
    /\ At(r, "giveup")
    /\ Goto(r, "del")
    /\ UNCHANGED <<request, writer, cacheVars, proxyReqCount, faults, home,
                   cleaned>>

(* atomic.AddInt32(&proxyReqCount, -1) before the lock is asked for. *)
GiveUp(r) ==
    /\ At(r, "giveup")
    /\ AddCount(-1)
    /\ Goto(r, "del")
    /\ UNCHANGED <<request, writer, cacheVars, faults, home, cleaned>>

(* The uid's entry goes and, after a second, doProxy calls itself. *)
DelOwn(r) ==
    /\ At(r, "del")
    /\ writer = None
    /\ cache' = [cache EXCEPT ![uid[r]] = None]
    /\ expired' = expired \ {uid[r]}
    /\ ep' = [ep EXCEPT ![r] = None]
    /\ depth' = [depth EXCEPT ![r] = @ + 1]
    /\ Goto(r, "lookup")
    /\ UNCHANGED <<uid, executed, resp, writer, proxyReqCount, faults, home, cleaned>>

(***************************************************************************)
(* A call of doProxy has returned.  An outer call drops its error, raises  *)
(* the count again and returns in turn, lowering it.                       *)
(***************************************************************************)
Undo_NotRaised(r) ==            \* mutant: the +1 after the recursion is lost
    /\ At(r, "return")
    /\ depth[r] > 0
    /\ Goto(r, "undo")
    /\ UNCHANGED <<request, writer, cacheVars, proxyReqCount, faults, home,
                   cleaned>>

Undo_Always(r) ==               \* mutant: also where nothing was retried
    /\ At(r, "return")
    /\ AddCount(1)
    /\ Goto(r, "undo")
    /\ UNCHANGED <<request, writer, cacheVars, faults, home, cleaned>>

Undo(r) ==
    /\ At(r, "return")
    /\ depth[r] > 0
    /\ AddCount(1)
    /\ Goto(r, "undo")
    /\ UNCHANGED <<request, writer, cacheVars, faults, home, cleaned>>

LeaveOuter(r) ==
    /\ At(r, "undo")
    /\ AddCount(-1)
    /\ depth' = [depth EXCEPT ![r] = @ - 1]
    /\ Goto(r, "return")
    /\ UNCHANGED <<uid, ep, executed, resp, writer, cacheVars, faults, home, cleaned>>

Reply_Empty(r) ==               \* mutant: an empty message in place of nil
    /\ At(r, "return")
    /\ depth[r] = 0
    /\ Goto(r, "idle")
    /\ uid' = [uid EXCEPT ![r] = None]
    /\ ep' = [ep EXCEPT ![r] = None]
    /\ resp' = [resp EXCEPT ![r] = TRUE]
    /\ UNCHANGED <<depth, executed, writer, cacheVars, proxyReqCount, faults, home,
                   cleaned>>

(* Search, Upload, Login or Logout returns.  The client gets resp; a nil one,
   with or without an error beside it, reaches it as an error (and the
   history of the request is forgotten). *)
Reply(r) ==
    /\ At(r, "return")
    /\ depth[r] = 0
    /\ Goto(r, "idle")
    /\ uid' = [uid EXCEPT ![r] = None]
    /\ ep' = [ep EXCEPT ![r] = None]
    /\ executed' = [executed EXCEPT ![r] = IF resp[r] THEN @ ELSE 0]
    /\ UNCHANGED <<depth, resp, writer, cacheVars, proxyReqCount, faults, home,
                   cleaned>>

-----------------------------------------------------------------------------
(* CleanUidCache: take the lock, poll until the count reads 0, delete. *)

CleanLock(c, u) ==
    /\ At(c, "idle")
    /\ writer = None
    /\ writer' = c
    /\ uid' = [uid EXCEPT ![c] = u]
    /\ Goto(c, "wait")
    /\ UNCHANGED <<ep, depth, executed, resp, cacheVars, proxyReqCount, faults, home,
                   cleaned>>

CleanDrained(c) ==
    /\ At(c, "wait")
    /\ proxyReqCount = 0
    /\ Goto(c, "clean")
    /\ UNCHANGED <<request, writer, cacheVars, proxyReqCount, faults, home,
                   cleaned>>

CleanDel(c) ==
    /\ At(c, "clean")
    /\ cache' = [cache EXCEPT ![uid[c]] = None]
    /\ expired' = expired \ {uid[c]}
    /\ cleaned' = cleaned \cup {uid[c]}
    /\ writer' = None
    /\ uid' = [uid EXCEPT ![c] = None]
    /\ Goto(c, "idle")
    /\ UNCHANGED <<ep, depth, executed, resp, proxyReqCount, faults, home>>

(* Thirty seconds pass; the dash moves a uid to another endpoint. *)
Stale(u) ==
    /\ cache[u] # None
    /\ expired' = expired \cup {u}
    /\ UNCHANGED <<pc, request, writer, cache, proxyReqCount, faults, home, cleaned>>

Move(u, e) ==
    /\ home' = [home EXCEPT ![u] = e]
    /\ cleaned' = cleaned \ {u}
    /\ UNCHANGED <<pc, request, writer, cacheVars, proxyReqCount, faults>>

-----------------------------------------------------------------------------

(* What a request does once it has what it waits for; the two parts that
   wait for the lock are apart, for their fairness. *)
Run(r) ==
    \/ AskDash(r) \/ CachePut(r) \/ DashFails(r)
    \/ Enter(r) \/ DealReturns(r) \/ DealConnError(r) \/ GiveUp(r)
    \/ Undo(r) \/ LeaveOuter(r) \/ Reply(r)
Locking(r) == CacheGet(r) \/ AcquireToAsk(r) \/ DelOwn(r)
Clean(c) == CleanDrained(c) \/ CleanDel(c)

Next ==
    \/ \E r \in Req : Run(r) \/ Locking(r) \/ \E u \in Uid : Start(r, u)
    \/ \E c \in Cleaner : Clean(c) \/ \E u \in Uid : CleanLock(c, u)
    \/ \E u \in Uid : Stale(u) \/ \E e \in Endpoint : Move(u, e)

(***************************************************************************)
(* Goroutines and calls make progress; sync.RWMutex starves nobody, since  *)
(* a waiting writer keeps new readers out and readers go before the next   *)
(* writer.                                                                 *)
(***************************************************************************)
Fairness ==
    /\ \A r \in Req : WF_vars(Run(r)) /\ SF_vars(Locking(r))
    /\ \A c \in Cleaner : WF_vars(Clean(c))

Spec == Init /\ [][Next]_vars /\ Fairness

-----------------------------------------------------------------------------

(***************************************************************************)
(* proxyReqCount is the number of requests between its raising and its     *)
(* lowering, through retries and the unwinding of the recursion: it never  *)
(* drifts, which would make CleanUidCache wait for ever or not at all.     *)
(***************************************************************************)
CountExact == proxyReqCount = Cardinality({r \in Req : pc[r] \in Counted})

(***************************************************************************)
(* Once a uid was cleaned, the cache holds for it only what the dash       *)
(* answers now: no answer obtained before the cleaning is put in the cache *)
(* after it, since the lock is held from the question to the Put.          *)
(***************************************************************************)
FreshAfterClean ==
    \A u \in cleaned : cache[u] \in {None, home[u]}

(* A request is run by at most one search server, however often the proxy
   looks for an endpoint that answers. *)
AtMostOnce == \A r \in Req : executed[r] <= 1

(***************************************************************************)
(* A client that is answered without an error was served: doProxy drops    *)
(* the error of the call it makes after a connection error and returns     *)
(* nil, but resp is then still nil, which grpc refuses to send.            *)
(***************************************************************************)
AnswerIsReal == \A r \in Req : pc[r] = "idle" /\ resp[r] => executed[r] = 1

(***************************************************************************)
(* Every request is answered in the end: a request needs the lock that the *)
(* cleaner holds while it waits for the requests that are counted, and one *)
(* that gives up on its endpoint is not counted when it asks for the lock. *)
(***************************************************************************)
RequestsEnd == \A r \in Req : pc[r] # "idle" ~> pc[r] = "idle"

(* Every cleaning ends: proxyReqCount comes down to 0 while the cleaner holds
   the lock, whatever retries are under way. *)
CleaningEnds == \A c \in Cleaner : pc[c] # "idle" ~> pc[c] = "idle"

=============================================================================
