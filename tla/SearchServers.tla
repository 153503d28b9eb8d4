--------------------------- MODULE SearchServers ---------------------------
(***************************************************************************)
(* The search servers (src/server/server.go, src/auth/auth.go) while the   *)
(* dash moves users between them: Search, Upload, Login, Logout and        *)
(* UidLogout over each server's loginCache and recorders, and the history  *)
(* that all of them load from and save to in etcd.                         *)
(*                                                                         *)
(* A proxy may have cached an endpoint before a move, so a call may reach  *)
(* any server.  Each look at loginCache is one step, under auth's mutex,   *)
(* and each use of a recorder another, under the manager's; between the    *)
(* two a call holds nothing.  A call that is refused changes nothing and   *)
(* is no step.  The token is a function of uid and address (genToken), so  *)
(* an entry of loginCache is the pair.  What goes on inside one manager is *)
(* module Recorder's; here a recorder is the list it holds.  The dash      *)
(* moves a uid in the order of module Dash, one move at a time.            *)
(***************************************************************************)
EXTENDS History

CONSTANTS
    Server,
    Uid,
    Addr,       \* client addresses, as the proxy fills them in
    Call,       \* goroutines that serve calls
    None,
    MaxFaults   \* bound: etcd requests and UidLogouts that fail

ASSUME MaxFaultsAssumption == MaxFaults \in Nat
ASSUME NoneAssumption ==
    /\ None \notin Commands \cup Cmd
    /\ None \notin [step : {"tokens", "stop", "update"}, to : Server]

VARIABLES
    call,       \* the call a goroutine has let in and not finished, or None
    loginCache, \* pairs of uid and address logged in at a server
    rec,        \* the recorder in service for a uid at a server, or None
    leaving,    \* stopped recorders whose goroutine has not ended
    store,      \* etcd: the saved history of a uid
    home,       \* etcd: the endpoint the dash has on record for a uid
    moving,     \* the move of a uid under way: its next step and its goal
    faults,
    ideal       \* history: the commands acknowledged for a uid, or None
                \* once one of the disturbances named below has happened

vars == <<call, loginCache, rec, leaving, store, home, moving, faults, ideal>>

Op == {"Upload", "List", "Find", "Login"}
Admitted == [op : Op, s : Server, u : Uid, a : Addr, q : Cmd \cup {None}]
Step == {"tokens", "stop", "update"}

TypeOK ==
    /\ call \in [Call -> Admitted \cup {None}]
    /\ loginCache \in [Server -> SUBSET (Uid \X Addr)]
    /\ rec \in [Server -> [Uid -> Commands \cup {None}]]
    /\ leaving \in SUBSET (Server \X Uid \X Commands)
    /\ store \in [Uid -> Commands]
    /\ home \in [Uid -> Server]
    /\ moving \in [Uid -> [step : Step, to : Server] \cup {None}]
    /\ faults \in 0..MaxFaults
    /\ ideal \in [Uid -> Commands \cup {None}]

Etcd(ok) ==
    /\ ok \/ faults < MaxFaults
    /\ faults' = IF ok THEN faults ELSE faults + 1

MovingAt(u, steps) == moving[u] # None /\ moving[u].step \in steps

(* s has ended the sessions of u on its way to give it up, or it is not the
   server of u at all. *)
GivenUp(s, u) == s # home[u] \/ MovingAt(u, {"stop", "update"})

(* What is claimed for u becomes list, or nothing if a disturbance occurs. *)
Claim(u, list, disturbance) ==
    ideal' = [ideal EXCEPT ![u] =
                IF @ = None \/ disturbance THEN None ELSE list]

-----------------------------------------------------------------------------

Init ==
    /\ call = [c \in Call |-> None]
    /\ loginCache = [s \in Server |-> {}]
    /\ rec = [s \in Server |-> [u \in Uid |-> None]]
    /\ leaving = {}
    /\ store = [u \in Uid |-> <<>>]
    /\ home \in [Uid -> Server]
    /\ moving = [u \in Uid |-> None]
    /\ faults = 0
    /\ ideal = [u \in Uid |-> <<>>]

Admit(c, op, s, u, a, q) ==
    /\ call[c] = None
    /\ call' = [call EXCEPT ![c] =
                  [op |-> op, s |-> s, u |-> u, a |-> a, q |-> q]]
    /\ UNCHANGED <<loginCache, rec, leaving, store, home, moving, faults, ideal>>

(* CheckLoginState: the pair is in the cache (and the token is right). *)
CheckLoginState(s, u, a) == <<u, a>> \in loginCache[s]

(* Upload, and Search for "" (List), which an Upload of "" amounts to: it
   is refused only after the recorder was made. *)
Upload(c, s, u, a) ==
    /\ CheckLoginState(s, u, a)
    /\ \/ \E q \in Cmd : Admit(c, "Upload", s, u, a, q)
       \/ Admit(c, "List", s, u, a, None)

(* Search for a string that is not empty is let in unchecked. *)
Search(c, s, u, a) == Admit(c, "Find", s, u, a, None)

(* auth.Login: the database confirms the password. *)
Login(c, s, u, a) == Admit(c, "Login", s, u, a, None)

(***************************************************************************)
(* recorderManager.Add and Find: a recorder that is not there is made from *)
(* what is stored, or empty if that cannot be read (a disturbance).  So is *)
(* a Find at a server that has given the uid up.                           *)
(***************************************************************************)
Opened(s, u, ok) ==
    CASE rec[s][u] # None -> rec[s][u]
      [] rec[s][u] = None /\ ok -> Replay(store[u])
      [] rec[s][u] = None /\ ~ok -> <<>>

Record_EmptyRecorded(c) ==          \* mutant: Add without the check for ""
    LET r == call[c] IN
    /\ r # None /\ r.op # "Login"
    /\ \E ok \in BOOLEAN :
        /\ ok \/ rec[r.s][r.u] = None
        /\ Etcd(ok)
        /\ rec' = [rec EXCEPT ![r.s][r.u] =
                     IF r.op = "List" THEN Touch(Opened(r.s, r.u, ok), None, Capacity)
                     ELSE Serve(Opened(r.s, r.u, ok), r.q)]
        /\ Claim(r.u, Serve(ideal[r.u], r.q),
                 ~ok \/ (r.op = "Find" /\ GivenUp(r.s, r.u)))
    /\ call' = [call EXCEPT ![c] = None]
    /\ UNCHANGED <<loginCache, leaving, store, home, moving>>

Record(c) ==
    LET r == call[c] IN
    /\ r # None /\ r.op # "Login"
    /\ \E ok \in BOOLEAN :
        /\ ok \/ rec[r.s][r.u] = None
        /\ Etcd(ok)
        /\ rec' = [rec EXCEPT ![r.s][r.u] = Serve(Opened(r.s, r.u, ok), r.q)]
        /\ Claim(r.u, Serve(ideal[r.u], r.q),
                 ~ok \/ (r.op = "Find" /\ GivenUp(r.s, r.u)))
    /\ call' = [call EXCEPT ![c] = None]
    /\ UNCHANGED <<loginCache, leaving, store, home, moving>>

(* UpdateTokenCache, with no look at what happened since auth.Login: at a
   server that has given the uid up, a disturbance. *)
UpdateTokenCache(c) ==
    LET r == call[c] IN
    /\ r # None /\ r.op = "Login"
    /\ loginCache' = [loginCache EXCEPT ![r.s] = @ \cup {<<r.u, r.a>>}]
    /\ Claim(r.u, ideal[r.u], GivenUp(r.s, r.u))
    /\ call' = [call EXCEPT ![c] = None]
    /\ UNCHANGED <<rec, leaving, store, home, moving, faults>>

(* Logout: RemoveTokenCache for one address; the recorder stays. *)
Logout(s, u, a) ==
    /\ loginCache' = [loginCache EXCEPT ![s] = @ \ {<<u, a>>}]
    /\ UNCHANGED <<call, rec, leaving, store, home, moving, faults, ideal>>

-----------------------------------------------------------------------------
(* The dash moves u from its home to another server. *)

Move(u, to) ==
    /\ moving[u] = None
    /\ to # home[u]
    /\ moving' = [moving EXCEPT ![u] = [step |-> "tokens", to |-> to]]
    /\ UNCHANGED <<call, loginCache, rec, leaving, store, home, faults, ideal>>

(* UidLogout, first half, RemoveTokenCache(uid): every session of u. *)
EndSessions_NoAddress(u) ==         \* mutant: deletes the entry of address ""
    /\ MovingAt(u, {"tokens"})
    /\ moving' = [moving EXCEPT ![u].step = "stop"]
    /\ UNCHANGED <<call, loginCache, rec, leaving, store, home, faults, ideal>>

EndSessions(u) ==
    /\ MovingAt(u, {"tokens"})
    /\ loginCache' = [loginCache EXCEPT ![home[u]] = @ \ ({u} \X Addr)]
    /\ moving' = [moving EXCEPT ![u].step = "stop"]
    /\ UNCHANGED <<call, rec, leaving, store, home, faults, ideal>>

(* A recorder is taken out of service with a last save, or without. *)
Retire(s, u, ok) ==
    /\ rec[s][u] # None
    /\ Etcd(ok)
    /\ store' = IF ok THEN [store EXCEPT ![u] = rec[s][u]] ELSE store
    /\ leaving' = leaving \cup {<<s, u, rec[s][u]>>}
    /\ rec' = [rec EXCEPT ![s][u] = None]

(* Calls that were let in at the home of u and will make its recorder again. *)
Late(u) == {c \in Call : /\ call[c] # None /\ call[c].op # "Login"
                         /\ call[c].s = home[u] /\ call[c].u = u}

StopRecorder_Skipped(u) ==          \* mutant: RemoveTokenCache, then return
    /\ MovingAt(u, {"stop"})
    /\ moving' = [moving EXCEPT ![u].step = "update"]
    /\ UNCHANGED <<call, loginCache, rec, leaving, store, home, faults, ideal>>

(* Second half, recorderManager.Stop; a late call is a disturbance. *)
StopRecorder(u) ==
    /\ MovingAt(u, {"stop"})
    /\ \/ \E ok \in BOOLEAN :
            /\ Retire(home[u], u, ok)
            /\ Claim(u, ideal[u], ~ok \/ Late(u) # {})
       \/ /\ rec[home[u]][u] = None
          /\ Claim(u, ideal[u], Late(u) # {})
          /\ UNCHANGED <<rec, leaving, store, faults>>
    /\ moving' = [moving EXCEPT ![u].step = "update"]
    /\ UNCHANGED <<call, loginCache, home>>

(* The old server does not answer: the dash logs the error and goes on. *)
UidLogoutFails(u) ==
    /\ MovingAt(u, {"tokens", "stop"})
    /\ Etcd(FALSE)
    /\ moving' = [moving EXCEPT ![u].step = "update"]
    /\ Claim(u, ideal[u], TRUE)
    /\ UNCHANGED <<call, loginCache, rec, leaving, store, home>>

(* updateEpInfo: the new endpoint is on record, or the transaction failed. *)
updateEpInfo(u) ==
    /\ MovingAt(u, {"update"})
    /\ home' = [home EXCEPT ![u] = moving[u].to] \/ UNCHANGED home
    /\ moving' = [moving EXCEPT ![u] = None]
    /\ UNCHANGED <<call, loginCache, rec, leaving, store, faults, ideal>>

-----------------------------------------------------------------------------
(* Recorders: the ticker, eviction, a stopped one's late save and its end. *)

Tick(s, u) ==
    /\ rec[s][u] # None
    /\ store' = [store EXCEPT ![u] = rec[s][u]]
    /\ UNCHANGED <<call, loginCache, rec, leaving, home, moving, faults, ideal>>

Evict_Unsaved(s, u) ==              \* mutant: Stop without its sync
    /\ rec[s][u] # None
    /\ rec' = [rec EXCEPT ![s][u] = None]
    /\ UNCHANGED <<call, loginCache, leaving, store, home, moving, faults, ideal>>

Evict(s, u) ==
    /\ \E ok \in BOOLEAN : Retire(s, u, ok) /\ Claim(u, ideal[u], ~ok)
    /\ UNCHANGED <<call, loginCache, home, moving>>

(* A disturbance if it saves something else than what was acknowledged
   while no recorder is in service that would save again. *)
LateTick(s, u, list) ==
    /\ <<s, u, list>> \in leaving
    /\ store' = [store EXCEPT ![u] = list]
    /\ Claim(u, ideal[u], /\ \A t \in Server : rec[t][u] = None
                          /\ list # ideal[u])
    /\ UNCHANGED <<call, loginCache, rec, leaving, home, moving, faults>>

Finish(s, u, list) ==
    /\ <<s, u, list>> \in leaving
    /\ leaving' = leaving \ {<<s, u, list>>}
    /\ UNCHANGED <<call, loginCache, rec, store, home, moving, faults, ideal>>

(* A server dies with its calls, sessions and recorders; what it had not
   saved is lost. *)
Crash(s) ==
    /\ call' = [c \in Call |-> IF call[c] # None /\ call[c].s = s
                               THEN None ELSE call[c]]
    /\ loginCache' = [loginCache EXCEPT ![s] = {}]
    /\ rec' = [rec EXCEPT ![s] = [u \in Uid |-> None]]
    /\ leaving' = {t \in leaving : t[1] # s}
    /\ ideal' = [u \in Uid |-> IF ideal[u] # None /\ rec[s][u] # None
                               THEN store[u] ELSE ideal[u]]
    /\ UNCHANGED <<store, home, moving, faults>>

Next ==
    \/ \E c \in Call, s \in Server, u \in Uid, a \in Addr :
        Upload(c, s, u, a) \/ Search(c, s, u, a) \/ Login(c, s, u, a)
    \/ \E c \in Call : Record(c) \/ UpdateTokenCache(c)
    \/ \E s \in Server, u \in Uid :
        Tick(s, u) \/ Evict(s, u) \/ \E a \in Addr : Logout(s, u, a)
    \/ \E u \in Uid :
        \/ \E to \in Server : Move(u, to)
        \/ EndSessions(u) \/ StopRecorder(u) \/ UidLogoutFails(u)
        \/ updateEpInfo(u)
    \/ \E s \in Server, u \in Uid, list \in Commands :
        LateTick(s, u, list) \/ Finish(s, u, list)
    \/ \E s \in Server : Crash(s)

Spec == Init /\ [][Next]_vars

-----------------------------------------------------------------------------

(***************************************************************************)
(* UidLogout ends the sessions before it stops the recorder, so that the   *)
(* uploads of a stale proxy are refused: a uid without disturbance is      *)
(* logged in only at the server the dash has on record.                    *)
(***************************************************************************)
SessionsAtHome ==
    \A s \in Server : \A x \in loginCache[s] :
        ideal[x[1]] # None => ~GivenUp(s, x[1])

(***************************************************************************)
(* No two servers save histories of the same uid over each other, unless   *)
(* an unchecked Search or a Login reached a server that had given it up, a *)
(* call outran its UidLogout, or UidLogout failed.                         *)
(***************************************************************************)
OneServerRecords ==
    \A u \in Uid : \A s, t \in Server :
        ideal[u] # None /\ rec[s][u] # None /\ rec[t][u] # None => s = t

(***************************************************************************)
(* A user's history survives moves, evictions and late saves: a recorder   *)
(* in service holds exactly what was acknowledged, and when there is none  *)
(* etcd does.                                                              *)
(***************************************************************************)
HistoryFollowsUid ==
    \A u \in Uid : ideal[u] # None =>
        IF \A s \in Server : rec[s][u] = None
        THEN store[u] = ideal[u]
        ELSE \A s \in Server : rec[s][u] \in {None, ideal[u]}

=============================================================================
