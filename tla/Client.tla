------------------------------ MODULE Client ------------------------------
(***************************************************************************)
(* One user's shell client (src/cmd/mysh/mysh.go, src/util/client/         *)
(* client.go): the HTTP handlers that upload the commands the agent posts, *)
(* the C-R mode, and the login that both fall back on.                     *)
(*                                                                         *)
(* Bash posts its last command before every prompt and waits, but ^C kills *)
(* the waiting agent and not its handler, and a nested bash posts on its   *)
(* own, so handlers overlap.  They share lastCommand, clientToken and the  *)
(* loginer's cache without a lock.  The login a server holds is for the    *)
(* address of the client's connection, and a token is right for one        *)
(* address.  There is one account; its proxy and server are environment:   *)
(* the proxy forwards a call whatever becomes of the client (its context   *)
(* is Background, and it sleeps before it tries again), so that a call     *)
(* which has failed for the client may still be executed, at any time.     *)
(***************************************************************************)
EXTENDS History, SearchMode

CONSTANTS
    Handler,            \* goroutines that serve the unix socket
    Shell,              \* main's login, then the goroutine that reads keys
    ClientRetryTimes,
    MaxTyped,           \* bound: length of the text typed in C-R mode
    MaxFaults           \* bound: failed calls, and logins that end

ASSUME ClientRetryAssumption == ClientRetryTimes \in Nat \ {0}
ASSUME ClientBoundsAssumption == MaxTyped \in Nat /\ MaxFaults \in Nat
ASSUME NothingAssumption == Nothing \notin Cmd \cup Commands
ASSUME ShellAssumption == Shell \notin Handler

VARIABLES
    pc,             \* where a goroutine is
    body,           \* the command a handler was posted
    attempts,       \* calls its Retry may still make
    newToken,       \* the token a login has got is right for the address
    serving,        \* main's login has returned and the socket is served
    lastCommand,
    clientToken,    \* the token in clientToken is right for the address
    kvCache,        \* loginer.kvCache: nothing, or a right or wrong password
    search,         \* C-R mode: a state of module SearchMode
    session,        \* server: the address is logged in
    history,        \* server: the recorder of the account
    late,           \* failed calls that the proxy may still make for the
                    \* address: how many uploads of a command with the right
                    \* token, and (under Nothing) how many right Logins
    stray,          \* such uploads for the addresses of earlier connections
    faults,
    gaveUp,         \* history: the last to set lastCommand had failed
    accepted        \* history: the commands handled, or Nothing once one of
                    \* the disturbances named below has happened

mine == <<pc, body, attempts, newToken>>
shared == <<lastCommand, clientToken, kvCache>>
server == <<session, history, late, stray>>
ghost == <<gaveUp, accepted>>
vars == <<mine, serving, shared, search, server, faults, ghost>>

Thread == Handler \cup {Shell}
Place == {"idle", "check", "login", "prompt", "token", "upload", "done",
          "failed", "keys", "offline"}

TypeOK ==
    /\ pc \in [Thread -> Place]
    /\ body \in [Handler -> Cmd \cup {Nothing}]
    /\ attempts \in [Handler -> 0..ClientRetryTimes]
    /\ newToken \in [Thread -> BOOLEAN]
    /\ serving \in BOOLEAN
    /\ lastCommand \in Cmd \cup {Nothing}
    /\ clientToken \in BOOLEAN
    /\ kvCache \in {"none", "right", "wrong"}
    /\ search \in [candidates : Commands \cup {<<Nothing>>},
                   index : 0..Capacity, searchIndex : 0..MaxTyped,
                   lastView : Cmd \cup {Nothing}]
    /\ session \in BOOLEAN
    /\ history \in Commands
    /\ late \in [Cmd \cup {Nothing} -> Nat]
    /\ stray \in [Cmd -> Nat]
    /\ faults \in 0..MaxFaults
    /\ gaveUp \in BOOLEAN
    /\ accepted \in Commands \cup {Nothing}

At(t, place) == pc[t] = place
Goto(t, place) == pc' = [pc EXCEPT ![t] = place]
Call(ok) ==
    /\ ok \/ faults < MaxFaults
    /\ faults' = IF ok THEN faults ELSE faults + 1

(* CheckLoginState for the token and the address a call comes with. *)
LoggedIn == session /\ clientToken

(* One call of a kind more, or one less. *)
OneMore(calls, q) ==
    [c \in DOMAIN calls |-> IF c = q THEN calls[c] + 1 ELSE calls[c]]
OneLess(calls, q) ==
    [c \in DOMAIN calls |-> IF c = q THEN calls[c] - 1 ELSE calls[c]]

(* What is claimed to be handled becomes list, or nothing if disturbed. *)
Claim(list, disturbance) ==
    accepted' = IF accepted = Nothing \/ disturbance THEN Nothing ELSE list

-----------------------------------------------------------------------------

(* A process before main's login.  Its connection has an address of its own. *)
Places0 == [t \in Thread |-> IF t = Shell THEN "login" ELSE "idle"]
Body0 == [h \in Handler |-> Nothing]
Attempts0 == [h \in Handler |-> ClientRetryTimes]
Tokens0 == [t \in Thread |-> FALSE]
Late0 == [q \in Cmd \cup {Nothing} |-> 0]

Init ==
    /\ pc = Places0 /\ body = Body0 /\ attempts = Attempts0 /\ newToken = Tokens0
    /\ serving = FALSE
    /\ lastCommand = Nothing /\ clientToken = FALSE /\ kvCache = "none"
    /\ search = Opened
    /\ session = FALSE /\ history = <<>>
    /\ late = Late0 /\ stray = [c \in Cmd |-> 0]
    /\ faults = 0
    /\ gaveUp = FALSE /\ accepted = <<>>

-----------------------------------------------------------------------------
(* login(): UidCache, clientToken = loginer.Login() *)

(* The place where a goroutine goes on.  A handler that was refused by its
   last Upload has no attempt left. *)
AfterLogin(t) ==
    CASE t \in Handler /\ attempts[t] > 0 -> "upload"
      [] t \in Handler /\ attempts[t] = 0 -> "failed"
      [] t = Shell /\ serving -> "keys"
      [] t = Shell /\ ~serving -> "idle"

(* The Login of a right password logs the address in, now or, if it fails
   for the client, perhaps later; the goroutine gets the token, or the
   prompt. *)
LoginCall(t, password) ==
    \/ /\ Call(TRUE)
       /\ \/ /\ password = "right"
             /\ session' = TRUE
             /\ newToken' = [newToken EXCEPT ![t] = TRUE]
             /\ Goto(t, "token")
          \/ /\ password = "wrong"
             /\ Goto(t, "prompt")
             /\ UNCHANGED <<session, newToken>>
       /\ UNCHANGED late
    \/ /\ Call(FALSE)
       /\ Goto(t, "prompt")
       /\ late' = IF password = "right" THEN OneMore(late, Nothing) ELSE late
       /\ UNCHANGED <<session, newToken>>

(* Login with what the cache holds. *)
Login(t) ==
    /\ At(t, "login")
    /\ \/ kvCache = "none" /\ Goto(t, "prompt")
          /\ UNCHANGED <<newToken, session, late, faults>>
       \/ kvCache # "none" /\ LoginCall(t, kvCache)
    /\ UNCHANGED <<body, attempts, serving, shared, search, history, stray,
                   ghost>>

(* The user answers the prompt.  The cache is set before the call, so after
   a failed login it holds the password that failed. *)
Enter(t, password) ==
    /\ At(t, "prompt")
    /\ kvCache' = password
    /\ LoginCall(t, password)
    /\ UNCHANGED <<body, attempts, serving, lastCommand, clientToken, search,
                   history, stray, ghost>>

(* The assignment, in no order with other logins; main then serves. *)
SetToken(t) ==
    /\ At(t, "token")
    /\ clientToken' = newToken[t]
    /\ newToken' = [newToken EXCEPT ![t] = FALSE]
    /\ serving' = (serving \/ t = Shell)
    /\ Goto(t, AfterLogin(t))
    /\ UNCHANGED <<body, attempts, lastCommand, kvCache, search, server, faults,
                   ghost>>

-----------------------------------------------------------------------------
(* uploadProxyHandler *)

Busy == {h \in Handler : ~At(h, "idle")}

(* The agent posts c.  The command that was handled last is not sent again.
   Handlers that overlap are a disturbance. *)
Post(h, c) ==
    /\ serving
    /\ At(h, "idle")
    /\ \/ /\ c = lastCommand
          /\ Claim(Serve(accepted, c), FALSE)
          /\ UNCHANGED <<pc, body>>
       \/ /\ c # lastCommand
          /\ body' = [body EXCEPT ![h] = c]
          /\ Goto(h, "check")
          /\ Claim(accepted, Busy # {})
    /\ UNCHANGED <<attempts, newToken, serving, shared, search, server, faults,
                   gaveUp>>

CheckLogin_SetsLast(h) ==           \* mutant: lastCommand is set when offline
    /\ At(h, "check")
    /\ \/ Call(FALSE) /\ Goto(h, "done")
       \/ Call(TRUE) /\ Goto(h, IF LoggedIn THEN "upload" ELSE "login")
    /\ UNCHANGED <<body, attempts, newToken, serving, shared, search, server,
                   ghost>>

(* Search for "".  An error means offline: the handler returns, and the
   command will be posted again at the next prompt. *)
CheckLogin(h) ==
    /\ At(h, "check")
    /\ \/ /\ Call(FALSE)
          /\ Goto(h, "idle")
          /\ body' = [body EXCEPT ![h] = Nothing]
       \/ /\ Call(TRUE)
          /\ Goto(h, IF LoggedIn THEN "upload" ELSE "login")
          /\ UNCHANGED body
    /\ UNCHANGED <<attempts, newToken, serving, shared, search, server, ghost>>

(* Retry: an attempt has failed. *)
Retry(h, place) ==
    /\ attempts' = [attempts EXCEPT ![h] = @ - 1]
    /\ Goto(h, IF place = "upload" /\ attempts[h] = 1 THEN "failed" ELSE place)

Upload_CodeIgnored(h) ==            \* mutant: only err is looked at
    /\ At(h, "upload")
    /\ Call(TRUE)
    /\ history' = IF LoggedIn THEN Serve(history, body[h]) ELSE history
    /\ Goto(h, "done")
    /\ UNCHANGED <<body, attempts, newToken, serving, shared, search, session,
                   late, stray, ghost>>

(* One attempt: it succeeds, or is refused and the client logs in, or fails,
   and then the command may be recorded at any time (see LateCall). *)
Upload(h) ==
    /\ At(h, "upload")
    /\ \/ /\ LoggedIn
          /\ Call(TRUE)
          /\ history' = Serve(history, body[h])
          /\ Goto(h, "done")
          /\ UNCHANGED <<attempts, late>>
       \/ /\ ~LoggedIn
          /\ Call(TRUE)
          /\ Retry(h, "login")
          /\ UNCHANGED <<history, late>>
       \/ /\ Call(FALSE)
          /\ Retry(h, "upload")
          /\ late' = IF clientToken THEN OneMore(late, body[h]) ELSE late
          /\ UNCHANGED history
    /\ UNCHANGED <<body, newToken, serving, shared, search, session, stray, ghost>>

(* lastCommand is set whether Retry succeeded or not.  All attempts failing
   is a disturbance. *)
SetLast(h) ==
    /\ pc[h] \in {"done", "failed"}
    /\ lastCommand' = body[h]
    /\ gaveUp' = At(h, "failed")
    /\ Claim(Serve(accepted, body[h]), At(h, "failed"))
    /\ Goto(h, "idle")
    /\ body' = [body EXCEPT ![h] = Nothing]
    /\ attempts' = [attempts EXCEPT ![h] = ClientRetryTimes]
    /\ UNCHANGED <<newToken, serving, clientToken, kvCache, search, server,
                   faults>>

-----------------------------------------------------------------------------
(* doSearch *)

(* C-R at bash's prompt: Search for "".  An error means offline: the keys go
   to bash up to a newline.  No candidate yet is on the screen. *)
StartSearch ==
    /\ serving
    /\ At(Shell, "idle")
    /\ \/ Call(FALSE) /\ Goto(Shell, "offline")
       \/ Call(TRUE) /\ Goto(Shell, IF LoggedIn THEN "keys" ELSE "login")
    /\ UNCHANGED <<body, attempts, newToken, serving, shared, search, server,
                   ghost>>

Newline ==
    /\ At(Shell, "offline")
    /\ Goto(Shell, "idle")
    /\ UNCHANGED <<body, attempts, newToken, serving, shared, search, server,
                   faults, ghost>>

(* The commands a text may find, in the recorder's order. *)
Findable ==
    {f \in Commands :
        /\ Elements(f) \subseteq Elements(history)
        /\ \A i, j \in 1..Len(f) :
            i < j => PosOf(history, f[i]) < PosOf(history, f[j])}

(* A key that changes the text.  Search is not refused for a text that is
   not empty, and when its attempts fail the candidates stay. *)
Edit(s) ==
    \/ /\ s.searchIndex > 0
       /\ \/ Call(TRUE) /\ \E f \in Findable : search' = Display(Found(s, f))
          \/ Call(FALSE) /\ search' = Display(s)
    \/ /\ s.searchIndex = 0
       /\ search' = Display(s)
       /\ UNCHANGED faults

Key ==
    /\ At(Shell, "keys")
    /\ \/ /\ search' \in {Display(SelectPrevious(search)),
                         Display(SelectNext(search))}
          /\ UNCHANGED faults
       \/ search.searchIndex < MaxTyped /\ Edit(Type(search))
       \/ Edit(Backspace(search))
    /\ UNCHANGED <<mine, serving, shared, server, ghost>>

(* Return, left, right or ^C: the command on the screen goes to bash, or
   nothing, and C-R mode ends. *)
EndSearch ==
    /\ At(Shell, "keys")
    /\ Goto(Shell, "idle")
    /\ search' = Opened
    /\ UNCHANGED <<body, attempts, newToken, serving, shared, server, faults,
                   ghost>>

-----------------------------------------------------------------------------
(* Environment *)

(* The server forgets the login: it restarts, or the dash moves the account. *)
SessionEnds ==
    /\ session
    /\ session' = FALSE
    /\ Call(FALSE)
    /\ UNCHANGED <<mine, serving, shared, search, history, late, stray, ghost>>

(* c is the command a handler is uploading, or has uploaded and not yet set
   as lastCommand. *)
InTurn(c) == \E h \in Busy : body[h] = c /\ ~At(h, "check")

(* An upload is executed whose client has been told that it failed.  If that
   changes the history out of turn, it is a disturbance. *)
LateUpload(q) ==
    /\ history' = Serve(history, q)
    /\ Claim(accepted, history' # history /\ ~InTurn(q))

(* The proxy makes a call that has failed: a Login (Nothing), or an upload
   that the server accepts. *)
LateCall(q) ==
    /\ late[q] > 0
    /\ q = Nothing \/ session
    /\ late' = OneLess(late, q)
    /\ session' = TRUE
    /\ LateUpload(q)
    /\ UNCHANGED <<mine, serving, shared, search, stray, faults, gaveUp>>

(* The same for an earlier address.  Nothing takes it out of loginCache when
   the connection is lost, so each of them may be accepted. *)
StrayUpload(c) ==
    /\ stray[c] > 0
    /\ stray' = OneLess(stray, c)
    /\ LateUpload(c)
    /\ UNCHANGED <<mine, serving, shared, search, session, late, faults, gaveUp>>

(* What the address leaves behind when another takes its place. *)
LeaveAddress ==
    /\ session' = FALSE
    /\ late' = Late0
    /\ stray' = [c \in Cmd |-> stray[c] + late[c]]

(* The connection is made again, from another address: it is not logged in,
   and no token got before is right for it. *)
Reconnect ==
    /\ session \/ clientToken \/ late # Late0
    /\ LeaveAddress
    /\ clientToken' = FALSE
    /\ newToken' = [t \in Thread |-> FALSE]
    /\ Call(FALSE)
    /\ UNCHANGED <<pc, body, attempts, serving, lastCommand, kvCache, search,
                   history, ghost>>

(* Bash has ended and main logs out, or doSearch panics on half an escape
   sequence; then the user starts a new process.  An upload on its way is
   one that has failed before. *)
Exit ==
    /\ serving
    /\ pc' = Places0 /\ body' = Body0 /\ attempts' = Attempts0
    /\ newToken' = Tokens0
    /\ serving' = FALSE
    /\ lastCommand' = Nothing /\ clientToken' = FALSE /\ kvCache' = "none"
    /\ search' = Opened
    /\ LeaveAddress
    /\ gaveUp' = FALSE
    /\ accepted' = history
    /\ UNCHANGED <<history, faults>>

HandlerStep(h) ==
    \/ \E c \in Cmd : Post(h, c)
    \/ CheckLogin(h)
    \/ Upload(h)
    \/ SetLast(h)

LoginStep(t) ==
    \/ Login(t)
    \/ \E password \in {"right", "wrong"} : Enter(t, password)
    \/ SetToken(t)

SearchStep == StartSearch \/ Newline \/ Key \/ EndSearch

Next ==
    \/ \E h \in Handler : HandlerStep(h)
    \/ \E t \in Thread : LoginStep(t)
    \/ SearchStep
    \/ \E q \in Cmd \cup {Nothing} : LateCall(q)
    \/ \E c \in Cmd : StrayUpload(c)
    \/ SessionEnds
    \/ Reconnect
    \/ Exit

Spec == Init /\ [][Next]_vars

-----------------------------------------------------------------------------

(* A command that would be skipped as already sent (lastCommand) is in the
   history, or was until a full one let it go, however handlers overlap,
   answers are lost and failed calls are executed late, unless every attempt
   to upload it failed. *)
LastIsRecorded ==
    lastCommand \in Cmd /\ ~gaveUp =>
        lastCommand \in Elements(history) \/ Len(history) = Capacity

(* Uploads that are refused, fail, are repeated after a lost answer or are
   skipped as already sent leave exactly the history of the commands handled,
   in their order, as long as no handlers overlap, none gives up, and no
   upload that had failed for the client is executed after another command. *)
HistoryAsPosted ==
    Busy = {} /\ accepted # Nothing => history = accepted

(* The command that return would run is the one selected, through wrapping
   at both ends, failed searches and answers with fewer commands. *)
ShownIsSelected ==
    At(Shell, "keys") /\ search.candidates # <<>> =>
        /\ search.index \in DOMAIN search.candidates
        /\ search.lastView = search.candidates[search.index]

=============================================================================
