---------------------------- MODULE ClientProofs ----------------------------
(***************************************************************************)
(* The shell client for any number of handlers, commands, attempts and     *)
(* failures: commands are recorded once and in their order, none is        *)
(* skipped that was not recorded, and the command shown is the selected    *)
(* one.                                                                    *)
(***************************************************************************)
EXTENDS Client, RecencyListProofs

(* Retry starts with all attempts and calls while one is left. *)
AttemptsLeft ==
    \A h \in Handler :
        /\ pc[h] \in {"idle", "check"} => attempts[h] = ClientRetryTimes
        /\ pc[h] = "upload" => attempts[h] > 0

(* C-R mode starts with nothing found. *)
ClosedSearch == pc[Shell] # "keys" => search = Opened

(* A command that was uploaded is recorded, until a full list lets it go. *)
Recorded(c) == c \in Cmd => c \in Elements(history) \/ Len(history) = Capacity
DoneIsRecorded == \A h \in Handler : pc[h] = "done" => Recorded(body[h])

(* Without a disturbance there is at most one handler; what it was posted is
   recorded or not when an answer was lost, not before it has called, and in
   any case when it is done. *)
Alone == accepted # Nothing => \A g, h \in Busy : g = h
InStep ==
    accepted # Nothing =>
        \A h \in Busy :
            /\ history \in {accepted, Serve(accepted, body[h])}
            /\ pc[h] = "check" => history = accepted
            /\ pc[h] = "done" => history = Serve(accepted, body[h])

(* What was handled last is in front, so that skipping it changes nothing. *)
LastInFront == accepted # Nothing => Serve(accepted, lastCommand) = accepted

Uploading ==
    /\ DoneIsRecorded /\ LastIsRecorded
    /\ Alone /\ InStep /\ LastInFront /\ HistoryAsPosted

(* The inductive invariant. *)
IInv ==
    /\ TypeOK /\ AttemptsLeft
    /\ ClosedSearch /\ ShownIsSelected
    /\ Uploading

-----------------------------------------------------------------------------
(* The history: what a recorder's list is, and what adding a command does. *)

LEMMA CommandsAre ==
    \A s : s \in Commands
             <=> s \in Seq(Cmd) /\ Len(s) <= Capacity /\ Distinct(s)
BY RecencyListsAre, CapacityAssumption DEF Commands, RecencyLists

LEMMA EmptyCommands == <<>> \in Commands
BY RecencyListsClosed, CapacityAssumption DEF Commands, RecencyLists

(* recorder.Add keeps the list within its capacity, without repetitions. *)
LEMMA ServeCommands ==
    ASSUME NEW s \in Commands, NEW q
    PROVE  Serve(s, q) \in Commands
<1>1. Commands = RecencyLists(Cmd, Capacity)
  BY DEF Commands, RecencyLists
<1> QED  BY <1>1, RecencyListsClosed, CapacityAssumption DEF Serve

(* The command that was added is recorded, and so stays what was. *)
LEMMA ServeRecords ==
    ASSUME NEW s \in Commands, NEW c \in Cmd
    PROVE  /\ c \in Elements(Serve(s, c))
           /\ Len(s) = Capacity => Len(Serve(s, c)) = Capacity
           /\ Len(s) # Capacity => Elements(s) \subseteq Elements(Serve(s, c))
<1>1. s \in Seq(Cmd) /\ Len(s) <= Capacity /\ Distinct(s) /\ Len(s) \in Nat
  BY CommandsAre, LenProperties
<1>2. c \in Elements(Touch(s, c, Capacity))
  BY <1>1, CapacityAssumption, TouchBounded
<1>3. /\ Len(s) < Capacity => Elements(s) \subseteq Elements(Touch(s, c, Capacity))
      /\ Len(s) = Capacity => Len(Touch(s, c, Capacity)) = Capacity
  BY <1>1, CapacityAssumption, TouchKeeps
<1>4. Len(s) # Capacity => Len(s) < Capacity
  BY <1>1, CapacityAssumption
<1> QED  BY <1>2, <1>3, <1>4 DEF Serve

(* An upload that is repeated leaves the list as one upload does. *)
LEMMA ServeTwice ==
    ASSUME NEW s \in Commands, NEW q
    PROVE  Serve(Serve(s, q), q) = Serve(s, q)
<1>1. CASE q \in Cmd
  <2>1. s \in Seq(Cmd) /\ Len(s) <= Capacity /\ Distinct(s)
    BY CommandsAre
  <2> QED  BY <1>1, <2>1, CapacityAssumption, TouchTwice DEF Serve
<1>2. CASE q \notin Cmd
  BY <1>2 DEF Serve
<1> QED  BY <1>1, <1>2

(* The history only ever gains, until it is full. *)
LEMMA RecordedStays ==
    ASSUME history \in Commands, NEW q,
           history' = history \/ history' = Serve(history, q)
    PROVE  /\ \A c : Recorded(c) => Recorded(c)'
           /\ history' = Serve(history, q) => Recorded(q)'
<1>1. CASE q \in Cmd
  BY <1>1, ServeRecords DEF Recorded
<1>2. CASE q \notin Cmd
  BY <1>2 DEF Recorded, Serve
<1> QED  BY <1>1, <1>2

-----------------------------------------------------------------------------
(* C-R mode: the operators of SearchMode. *)

SearchState == [candidates : Commands \cup {<<Nothing>>}, index : 0..Capacity,
                searchIndex : 0..MaxTyped, lastView : Cmd \cup {Nothing}]

InRange(s) == s.candidates # <<>> => s.index \in DOMAIN s.candidates
Selected(s) ==
    s.candidates # <<>> => /\ s.index \in DOMAIN s.candidates
                           /\ s.lastView = s.candidates[s.index]

(* Every list of candidates has places 1 to at most Capacity. *)
LEMMA CandidatesAre ==
    ASSUME NEW f \in Commands \cup {<<Nothing>>}
    PROVE  /\ Len(f) \in 0..Capacity /\ DOMAIN f = 1..Len(f)
           /\ \A i \in 1..Len(f) : f[i] \in Cmd \cup {Nothing}
           /\ f # <<>> => Len(f) > 0
<1>1. CASE f \in Commands
  <2>1. f \in Seq(Cmd) /\ Len(f) <= Capacity
    BY <1>1, CommandsAre
  <2>2. Len(f) \in Nat /\ DOMAIN f = 1..Len(f)
    BY <2>1, LenProperties
  <2>3. f # <<>> => Len(f) > 0
    BY <2>1, <2>2, EmptySeq
  <2>4. \A i \in 1..Len(f) : f[i] \in Cmd
    BY <2>1, ElementOfSeq
  <2> QED  BY <2>1, <2>2, <2>3, <2>4, CapacityAssumption
<1>2. CASE f = <<Nothing>>
  BY <1>2, CapacityAssumption
<1> QED  BY <1>1, <1>2

(* What is drawn is the command at the selected place. *)
LEMMA DisplaySelects ==
    ASSUME NEW s \in SearchState, InRange(s)
    PROVE  Display(s) \in SearchState /\ Selected(Display(s))
<1>1. s.candidates \in Commands \cup {<<Nothing>>}
  BY DEF SearchState
<1>2. /\ DOMAIN s.candidates = 1..Len(s.candidates)
      /\ \A i \in 1..Len(s.candidates) : s.candidates[i] \in Cmd \cup {Nothing}
  BY <1>1, CandidatesAre
<1>3. CASE s.index \in DOMAIN s.candidates
  <2> DEFINE v == s.candidates[s.index]
  <2>1. v \in Cmd \cup {Nothing}
    BY <1>2, <1>3
  <2>2. Display(s) = [s EXCEPT !.lastView = v]
    BY <1>3 DEF Display
  <2> HIDE DEF v
  <2>3. /\ [s EXCEPT !.lastView = v] \in SearchState
        /\ [s EXCEPT !.lastView = v].candidates = s.candidates
        /\ [s EXCEPT !.lastView = v].index = s.index
        /\ [s EXCEPT !.lastView = v].lastView = v
    BY <2>1 DEF SearchState
  <2> QED  BY <1>3, <2>2, <2>3 DEF Selected, v
<1>4. CASE s.index \notin DOMAIN s.candidates
  BY <1>4 DEF Display, InRange, Selected
<1> QED  BY <1>3, <1>4

(* The selection wraps at both ends. *)
LEMMA SelectKeeps ==
    ASSUME NEW s \in SearchState, InRange(s)
    PROVE  /\ SelectPrevious(s) \in SearchState /\ InRange(SelectPrevious(s))
           /\ SelectNext(s) \in SearchState /\ InRange(SelectNext(s))
<1> DEFINE f == s.candidates
           p == IF s.index - 1 < 1 THEN Len(f) ELSE s.index - 1
           n == IF s.index + 1 > Len(f) THEN 1 ELSE s.index + 1
<1>1. f \in Commands \cup {<<Nothing>>} /\ s.index \in 0..Capacity
  BY DEF SearchState
<1>2. /\ Len(f) \in 0..Capacity /\ DOMAIN f = 1..Len(f)
      /\ f # <<>> => Len(f) > 0
  BY <1>1, CandidatesAre
<1>3. f # <<>> => s.index \in 1..Len(f)
  BY <1>2 DEF InRange
<1> HIDE DEF f
<1>4. p \in 0..Capacity /\ n \in 0..Capacity
  BY <1>1, <1>2, CapacityAssumption
<1>5. f # <<>> => p \in 1..Len(f) /\ n \in 1..Len(f)
  BY <1>1, <1>2, <1>3
<1>6. /\ SelectPrevious(s) = [s EXCEPT !.index = p]
      /\ SelectNext(s) = [s EXCEPT !.index = n]
  BY DEF SelectPrevious, SelectNext, f
<1> HIDE DEF p, n
<1>7. ASSUME NEW i \in 0..Capacity, f # <<>> => i \in 1..Len(f)
      PROVE  /\ [s EXCEPT !.index = i] \in SearchState
             /\ InRange([s EXCEPT !.index = i])
  <2>1. /\ [s EXCEPT !.index = i] \in SearchState
        /\ [s EXCEPT !.index = i].candidates = f
        /\ [s EXCEPT !.index = i].index = i
    BY DEF SearchState, f
  <2> QED  BY <1>2, <1>7, <2>1 DEF InRange
<1> QED  BY <1>4, <1>5, <1>6, <1>7

(* After a change of the text the first candidate is selected. *)
LEMMA FirstInRange ==
    ASSUME NEW s \in SearchState, s.index = 1
    PROVE  InRange(s)
<1>1. s.candidates \in Commands \cup {<<Nothing>>}
  BY DEF SearchState
<1> QED  BY <1>1, CandidatesAre DEF InRange

LEMMA EditKeeps ==
    ASSUME NEW s \in SearchState
    PROVE  /\ s.searchIndex < MaxTyped =>
                Type(s) \in SearchState /\ Type(s).index = 1
           /\ Backspace(s) \in SearchState /\ Backspace(s).index = 1
           /\ s.index = 1 => \A f \in Commands :
                Found(s, f) \in SearchState /\ Found(s, f).index = 1
<1>1. 1 \in 0..Capacity /\ s.searchIndex \in 0..MaxTyped /\ MaxTyped \in Nat
  BY CapacityAssumption, ClientBoundsAssumption DEF SearchState
<1>2. s.searchIndex < MaxTyped => Type(s) \in SearchState /\ Type(s).index = 1
  <2> SUFFICES ASSUME s.searchIndex < MaxTyped
               PROVE  Type(s) \in SearchState /\ Type(s).index = 1
    OBVIOUS
  <2> DEFINE n == s.searchIndex + 1
  <2>1. n \in 0..MaxTyped
    BY <1>1
  <2>2. Type(s) = [s EXCEPT !.index = 1, !.searchIndex = n]
    BY DEF Type
  <2> HIDE DEF n
  <2> QED  BY <1>1, <2>1, <2>2 DEF SearchState
<1>3. Backspace(s) \in SearchState /\ Backspace(s).index = 1
  <2>1. CASE s.searchIndex - 1 < 1
    <3>1. 0 \in 0..MaxTyped
      BY <1>1
    <3>2. Backspace(s) = [s EXCEPT !.index = 1, !.searchIndex = 0,
                                   !.candidates = <<Nothing>>]
      BY <2>1 DEF Backspace
    <3> QED  BY <1>1, <3>1, <3>2 DEF SearchState
  <2>2. CASE ~(s.searchIndex - 1 < 1)
    <3> DEFINE n == s.searchIndex - 1
    <3>1. n \in 0..MaxTyped
      BY <1>1, <2>2
    <3>2. Backspace(s) = [s EXCEPT !.index = 1, !.searchIndex = n]
      BY <2>2 DEF Backspace
    <3> HIDE DEF n
    <3> QED  BY <1>1, <3>1, <3>2 DEF SearchState
  <2> QED  BY <2>1, <2>2
<1>4. s.index = 1 => \A f \in Commands :
        Found(s, f) \in SearchState /\ Found(s, f).index = 1
  BY DEF Found, SearchState
<1> QED  BY <1>2, <1>3, <1>4

LEMMA OpenedInRange == Opened \in SearchState /\ Opened.candidates = <<>>
BY CapacityAssumption, ClientBoundsAssumption, EmptyCommands
DEF Opened, SearchState

-----------------------------------------------------------------------------
(* What several kinds of steps have in common. *)

LEMMA GotoMoves ==
    ASSUME TypeOK, NEW t \in Thread, NEW place \in Place, Goto(t, place)
    PROVE  /\ pc' \in [Thread -> Place]
           /\ pc'[t] = place
           /\ \A s \in Thread \ {t} : pc'[s] = pc[s]
BY DEF TypeOK, Goto

LEMMA CallTyped ==
    ASSUME TypeOK, NEW ok \in BOOLEAN, Call(ok)
    PROVE  faults' \in 0..MaxFaults
BY ClientBoundsAssumption DEF TypeOK, Call

(* The counts of calls that may still be made. *)
LEMMA CallsTyped ==
    ASSUME NEW S, NEW calls \in [S -> Nat], NEW q
    PROVE  /\ OneMore(calls, q) \in [S -> Nat]
           /\ q \in S /\ calls[q] > 0 => OneLess(calls, q) \in [S -> Nat]
<1>1. ASSUME NEW c \in S
      PROVE  /\ (IF c = q THEN calls[c] + 1 ELSE calls[c]) \in Nat
             /\ calls[q] > 0 =>
                   (IF c = q THEN calls[c] - 1 ELSE calls[c]) \in Nat
  OBVIOUS
<1>2. DOMAIN calls = S
  OBVIOUS
<1> QED  BY <1>1, <1>2 DEF OneMore, OneLess

LEMMA ThreadsAre == Shell \in Thread /\ \A h \in Handler : h \in Thread /\ h # Shell
BY ShellAssumption DEF Thread

(* A step that leaves the commands alone, and every handler idle, before its
   check or done that was and no other. *)
LEMMA QuietKeeps ==
    ASSUME Uploading, UNCHANGED <<body, lastCommand, history, gaveUp, accepted>>,
           \A h \in Handler : /\ pc'[h] = "idle" <=> pc[h] = "idle"
                              /\ pc'[h] = "check" => pc[h] = "check"
                              /\ pc'[h] = "done" => pc[h] = "done"
    PROVE  Uploading'
<1>1. Busy' = Busy
  BY DEF Busy, At
<1>2. DoneIsRecorded' /\ LastIsRecorded'
  BY DEF Uploading, DoneIsRecorded, LastIsRecorded, Recorded
<1>3. Alone' /\ LastInFront' /\ HistoryAsPosted'
  BY <1>1 DEF Uploading, Alone, LastInFront, HistoryAsPosted
<1>4. InStep'
  BY <1>1 DEF Uploading, InStep, Busy
<1> QED  BY <1>2, <1>3, <1>4 DEF Uploading

(* A step that is no key leaves C-R mode as it is, or enters it. *)
LEMMA SearchKept ==
    ASSUME IInv, search' = search, pc'[Shell] # "keys" => pc[Shell] # "keys"
    PROVE  ClosedSearch' /\ ShownIsSelected'
<1>1. ClosedSearch'
  BY DEF IInv, ClosedSearch, Opened
<1>2. CASE pc[Shell] = "keys"
  BY <1>1, <1>2 DEF IInv, ShownIsSelected, At
<1>3. CASE pc[Shell] # "keys"
  <2>1. search'.candidates = <<>>
    BY <1>3, OpenedInRange DEF IInv, ClosedSearch
  <2> QED  BY <1>1, <2>1 DEF ShownIsSelected
<1> QED  BY <1>2, <1>3

-----------------------------------------------------------------------------
(* Logging in. *)

LEMMA LoginCallTyped ==
    ASSUME TypeOK, NEW t \in Thread, NEW password, LoginCall(t, password)
    PROVE  /\ \E place \in {"token", "prompt"} : Goto(t, place)
           /\ faults' \in 0..MaxFaults
           /\ session' \in BOOLEAN
           /\ newToken' \in [Thread -> BOOLEAN]
           /\ late' \in [Cmd \cup {Nothing} -> Nat]
<1>1. late \in [Cmd \cup {Nothing} -> Nat]
  BY DEF TypeOK
<1>2. OneMore(late, Nothing) \in [Cmd \cup {Nothing} -> Nat]
  BY <1>1, CallsTyped
<1>3. faults' \in 0..MaxFaults
  BY CallTyped DEF LoginCall
<1>4. CASE /\ session' = TRUE
           /\ newToken' = [newToken EXCEPT ![t] = TRUE]
           /\ Goto(t, "token")
           /\ late' = late
  <2>1. newToken' \in [Thread -> BOOLEAN]
    BY <1>4 DEF TypeOK
  <2> QED  BY <1>1, <1>3, <1>4, <2>1
<1>5. CASE /\ Goto(t, "prompt")
           /\ UNCHANGED <<session, newToken>>
           /\ late' \in {late, OneMore(late, Nothing)}
  BY <1>1, <1>2, <1>3, <1>5 DEF TypeOK
<1>6. \/ /\ session' = TRUE
         /\ newToken' = [newToken EXCEPT ![t] = TRUE]
         /\ Goto(t, "token")
         /\ late' = late
      \/ /\ Goto(t, "prompt")
         /\ UNCHANGED <<session, newToken>>
         /\ late' \in {late, OneMore(late, Nothing)}
  BY DEF LoginCall
<1> QED  BY <1>4, <1>5, <1>6

(* A login that was called, or goes to the prompt. *)
LEMMA LoginKeeps ==
    ASSUME IInv, NEW t \in Thread,
           Login(t) \/ \E password \in {"right", "wrong"} : Enter(t, password)
    PROVE  IInv'
<1>1. TypeOK
  BY DEF IInv
<1>2. /\ pc[t] \in {"login", "prompt"}
      /\ \E place \in {"token", "prompt"} : Goto(t, place)
      /\ faults' \in 0..MaxFaults
      /\ session' \in BOOLEAN
      /\ newToken' \in [Thread -> BOOLEAN]
      /\ late' \in [Cmd \cup {Nothing} -> Nat]
      /\ kvCache' \in {"none", "right", "wrong"}
  <2>1. CASE Login(t) /\ kvCache = "none"
    BY <1>1, <2>1 DEF Login, At, TypeOK, shared
  <2>2. CASE Login(t) /\ kvCache # "none"
    <3>1. LoginCall(t, kvCache) /\ At(t, "login") /\ kvCache' = kvCache
      BY <2>2 DEF Login, shared
    <3>2. /\ \E place \in {"token", "prompt"} : Goto(t, place)
          /\ faults' \in 0..MaxFaults
          /\ session' \in BOOLEAN
          /\ newToken' \in [Thread -> BOOLEAN]
          /\ late' \in [Cmd \cup {Nothing} -> Nat]
      BY <1>1, <3>1, LoginCallTyped
    <3> QED  BY <1>1, <3>1, <3>2 DEF At, TypeOK
  <2>3. CASE \E password \in {"right", "wrong"} : Enter(t, password)
    <3>1. PICK password \in {"right", "wrong"} : Enter(t, password)
      BY <2>3
    <3>2. LoginCall(t, password) /\ At(t, "prompt") /\ kvCache' = password
      BY <3>1 DEF Enter
    <3>3. /\ \E place \in {"token", "prompt"} : Goto(t, place)
          /\ faults' \in 0..MaxFaults
          /\ session' \in BOOLEAN
          /\ newToken' \in [Thread -> BOOLEAN]
          /\ late' \in [Cmd \cup {Nothing} -> Nat]
      BY <1>1, <3>2, LoginCallTyped
    <3> QED  BY <3>2, <3>3 DEF At
  <2> QED  BY <2>1, <2>2, <2>3
<1>3. /\ UNCHANGED <<body, attempts, serving, search, history, stray, gaveUp,
                    accepted>>
      /\ UNCHANGED <<lastCommand, clientToken>>
  BY DEF Login, Enter, shared, ghost
<1>4. PICK place \in {"token", "prompt"} : Goto(t, place)
  BY <1>2
<1>5. /\ pc' \in [Thread -> Place] /\ pc'[t] = place
      /\ \A s \in Thread \ {t} : pc'[s] = pc[s]
  <2>1. place \in Place
    BY DEF Place
  <2> QED  BY <1>1, <1>4, <2>1, GotoMoves
<1>6. TypeOK'
  BY <1>1, <1>2, <1>3, <1>5 DEF TypeOK
<1>7. AttemptsLeft'
  BY <1>3, <1>5, ThreadsAre DEF IInv, AttemptsLeft
<1>8. ClosedSearch' /\ ShownIsSelected'
  <2>1. \/ pc'[Shell] # "keys" /\ pc[Shell] # "keys"
        \/ pc'[Shell] = pc[Shell]
    BY <1>2, <1>5, ThreadsAre
  <2> QED  BY <1>3, <2>1, SearchKept
<1>9. Uploading'
  BY <1>2, <1>3, <1>5, ThreadsAre, QuietKeeps DEF IInv
<1> QED  BY <1>6, <1>7, <1>8, <1>9 DEF IInv

(* clientToken is assigned.  A handler goes on if it has an attempt left. *)
LEMMA SetTokenKeeps ==
    ASSUME IInv, NEW t \in Thread, SetToken(t)
    PROVE  IInv'
<1>1. TypeOK /\ pc[t] = "token"
  BY DEF IInv, SetToken, At
<1>2. UNCHANGED <<body, attempts, lastCommand, kvCache, search, session, history,
                  late, stray, faults, gaveUp, accepted>>
  BY DEF SetToken, server, ghost
<1>3. /\ t \in Handler /\ attempts[t] > 0 => AfterLogin(t) = "upload"
      /\ t \in Handler /\ ~(attempts[t] > 0) => AfterLogin(t) = "failed"
      /\ t = Shell => AfterLogin(t) \in {"keys", "idle"}
  <2>1. t \in Handler => attempts[t] \in 0..ClientRetryTimes
    BY <1>1 DEF TypeOK
  <2>2. serving \in BOOLEAN
    BY <1>1 DEF TypeOK
  <2>3. t \in Handler => (~(attempts[t] > 0) <=> attempts[t] = 0)
    BY <2>1, ClientRetryAssumption
  <2>4. t \in Handler => t # Shell
    BY ThreadsAre
  <2> QED  BY <2>2, <2>3, <2>4 DEF AfterLogin
<1>4. /\ t = Shell \/ t \in Handler
      /\ AfterLogin(t) \in Place
      /\ t \in Handler => AfterLogin(t) \in {"upload", "failed"}
  BY <1>3 DEF Thread, Place
<1>5. /\ pc' \in [Thread -> Place] /\ pc'[t] = AfterLogin(t)
      /\ \A s \in Thread \ {t} : pc'[s] = pc[s]
  BY <1>1, <1>4, GotoMoves DEF SetToken
<1>6. TypeOK'
  <2>1. clientToken' \in BOOLEAN
    BY <1>1 DEF SetToken, TypeOK
  <2>2. newToken' \in [Thread -> BOOLEAN]
    BY <1>1 DEF SetToken, TypeOK
  <2>3. serving' \in BOOLEAN
    BY Zenon DEF SetToken
  <2> QED  BY <1>1, <1>2, <1>5, <2>1, <2>2, <2>3 DEF TypeOK
<1>7. AttemptsLeft'
  BY <1>2, <1>3, <1>4, <1>5, ThreadsAre DEF IInv, AttemptsLeft
<1>8. ClosedSearch' /\ ShownIsSelected'
  <2>1. pc'[Shell] # "keys" => pc[Shell] # "keys"
    BY <1>1, <1>5, ThreadsAre
  <2> QED  BY <1>2, <2>1, SearchKept
<1>9. Uploading'
  BY <1>1, <1>2, <1>4, <1>5, ThreadsAre, QuietKeeps DEF IInv
<1> QED  BY <1>6, <1>7, <1>8, <1>9 DEF IInv

-----------------------------------------------------------------------------
(* uploadProxyHandler. *)

(* The command handled last is skipped, with nothing to change; any other one
   finds the handlers idle, or disturbs. *)
LEMMA PostKeeps ==
    ASSUME IInv, NEW h \in Handler, NEW c \in Cmd, Post(h, c)
    PROVE  IInv'
<1>1. TypeOK /\ Uploading /\ pc[h] = "idle" /\ h \in Thread
  BY ThreadsAre DEF IInv, Post, At
<1>2. UNCHANGED <<attempts, newToken, serving, lastCommand, clientToken, kvCache,
                  search, session, history, late, stray, faults, gaveUp>>
  BY DEF Post, shared, server
<1>3. CASE c = lastCommand /\ UNCHANGED <<pc, body>>
           /\ Claim(Serve(accepted, c), FALSE)
  <2>1. accepted' = accepted
    BY <1>1, <1>3 DEF Claim, Uploading, LastInFront
  <2>2. TypeOK' /\ AttemptsLeft'
    BY <1>1, <1>2, <1>3, <2>1 DEF IInv, TypeOK, AttemptsLeft
  <2>3. ClosedSearch' /\ ShownIsSelected'
    BY <1>2, <1>3, SearchKept
  <2>4. Uploading'
    BY <1>1, <1>2, <1>3, <2>1, QuietKeeps
  <2> QED  BY <2>2, <2>3, <2>4 DEF IInv
<1>4. CASE /\ c # lastCommand
           /\ body' = [body EXCEPT ![h] = c]
           /\ Goto(h, "check")
           /\ Claim(accepted, Busy # {})
  <2>1. /\ pc' \in [Thread -> Place] /\ pc'[h] = "check"
        /\ \A s \in Thread \ {h} : pc'[s] = pc[s]
    <3>1. "check" \in Place
      BY DEF Place
    <3> QED  BY <1>1, <1>4, <3>1, GotoMoves
  <2>2. /\ body' \in [Handler -> Cmd \cup {Nothing}]
        /\ \A g \in Handler \ {h} : body'[g] = body[g]
    BY <1>1, <1>4 DEF TypeOK
  <2>3. accepted' = accepted \/ accepted' = Nothing
    BY <1>4 DEF Claim
  <2>4. accepted' # Nothing =>
          Busy = {} /\ accepted' = accepted /\ history' = accepted
    BY <1>1, <1>2, <1>4 DEF Claim, Uploading, HistoryAsPosted
  <2>5. TypeOK'
    BY <1>1, <1>2, <2>1, <2>2, <2>3 DEF TypeOK
  <2>6. AttemptsLeft'
    BY <1>1, <1>2, <2>1, ThreadsAre DEF IInv, AttemptsLeft
  <2>7. ClosedSearch' /\ ShownIsSelected'
    <3>1. pc'[Shell] = pc[Shell]
      BY <2>1, ThreadsAre
    <3> QED  BY <1>2, <3>1, SearchKept
  <2>8. Busy' = Busy \cup {h}
    BY <2>1, ThreadsAre DEF Busy, At
  <2>9. DoneIsRecorded' /\ LastIsRecorded'
    BY <1>1, <1>2, <2>1, <2>2, ThreadsAre
    DEF Uploading, DoneIsRecorded, LastIsRecorded, Recorded
  <2>10. Alone' /\ HistoryAsPosted'
    BY <2>4, <2>8 DEF Alone, HistoryAsPosted
  <2>11. InStep'
    BY <2>1, <2>4, <2>8 DEF InStep
  <2>12. LastInFront'
    BY <1>1, <1>2, <2>4 DEF Uploading, LastInFront
  <2> QED  BY <2>5, <2>6, <2>7, <2>9, <2>10, <2>11, <2>12 DEF IInv, Uploading
<1> QED  BY <1>3, <1>4 DEF Post

(* Offline the handler returns, without having called Upload. *)
LEMMA CheckLoginKeeps ==
    ASSUME IInv, NEW h \in Handler, CheckLogin(h)
    PROVE  IInv'
<1>1. TypeOK /\ Uploading /\ pc[h] = "check" /\ h \in Thread
  BY ThreadsAre DEF IInv, CheckLogin, At
<1>2. UNCHANGED <<attempts, newToken, serving, lastCommand, clientToken, kvCache,
                  search, session, history, late, stray, gaveUp, accepted>>
  BY DEF CheckLogin, shared, server, ghost
<1>3. /\ faults' \in 0..MaxFaults
      /\ \/ Goto(h, "idle") /\ body' = [body EXCEPT ![h] = Nothing]
         \/ Goto(h, "upload") /\ body' = body
         \/ Goto(h, "login") /\ body' = body
  BY <1>1, CallTyped DEF CheckLogin
<1>4. PICK place \in {"idle", "upload", "login"} :
        /\ Goto(h, place)
        /\ body' = IF place = "idle" THEN [body EXCEPT ![h] = Nothing] ELSE body
  BY <1>3
<1>5. /\ pc' \in [Thread -> Place] /\ pc'[h] = place
      /\ \A s \in Thread \ {h} : pc'[s] = pc[s]
  <2>1. place \in Place
    BY DEF Place
  <2> QED  BY <1>1, <1>4, <2>1, GotoMoves
<1>6. /\ body' \in [Handler -> Cmd \cup {Nothing}]
      /\ \A g \in Handler \ {h} : body'[g] = body[g]
  BY <1>1, <1>4 DEF TypeOK
<1>7. TypeOK'
  BY <1>1, <1>2, <1>3, <1>5, <1>6 DEF TypeOK
<1>8. AttemptsLeft'
  <2>1. attempts[h] = ClientRetryTimes /\ ClientRetryTimes > 0
    BY <1>1, ClientRetryAssumption DEF IInv, AttemptsLeft
  <2> QED  BY <1>2, <1>5, <2>1, ThreadsAre DEF IInv, AttemptsLeft
<1>9. ClosedSearch' /\ ShownIsSelected'
  <2>1. pc'[Shell] = pc[Shell]
    BY <1>5, ThreadsAre
  <2> QED  BY <1>2, <2>1, SearchKept
<1>10. Uploading'
  <2>1. CASE place # "idle"
    BY <1>1, <1>2, <1>4, <1>5, <2>1, ThreadsAre, QuietKeeps
  <2>2. CASE place = "idle"
    <3>1. h \in Busy /\ Busy' = Busy \ {h}
      BY <1>1, <1>5, <2>2, ThreadsAre DEF Busy, At
    <3>2. DoneIsRecorded' /\ LastIsRecorded'
      BY <1>1, <1>2, <1>5, <1>6, <2>2, ThreadsAre
      DEF Uploading, DoneIsRecorded, LastIsRecorded, Recorded
    <3>3. accepted # Nothing => Busy' = {} /\ history = accepted
      BY <1>1, <3>1 DEF Uploading, Alone, InStep
    <3>4. Alone' /\ InStep' /\ HistoryAsPosted'
      BY <1>2, <3>3 DEF Alone, InStep, HistoryAsPosted
    <3>5. LastInFront'
      BY <1>1, <1>2 DEF Uploading, LastInFront
    <3> QED  BY <3>2, <3>4, <3>5 DEF Uploading
  <2> QED  BY <2>1, <2>2
<1> QED  BY <1>7, <1>8, <1>9, <1>10 DEF IInv

(* One attempt, whose command is recorded or not. *)
LEMMA UploadKeeps ==
    ASSUME IInv, NEW h \in Handler, Upload(h)
    PROVE  IInv'
<1>1. TypeOK /\ Uploading /\ pc[h] = "upload" /\ h \in Thread
  BY ThreadsAre DEF IInv, Upload, At
<1>2. UNCHANGED <<body, newToken, serving, lastCommand, clientToken, kvCache,
                  search, session, stray, gaveUp, accepted>>
  BY DEF Upload, shared, ghost
<1>3. attempts[h] \in 1..ClientRetryTimes
  BY <1>1, ClientRetryAssumption DEF IInv, TypeOK, AttemptsLeft
<1>4. /\ faults' \in 0..MaxFaults
      /\ history' = history \/ history' = Serve(history, body[h])
      /\ \/ Goto(h, "done") /\ attempts' = attempts
            /\ history' = Serve(history, body[h])
         \/ Retry(h, "login")
         \/ Retry(h, "upload")
  BY <1>1, CallTyped DEF Upload
<1>4a. late' \in [Cmd \cup {Nothing} -> Nat]
  <2>1. late \in [Cmd \cup {Nothing} -> Nat]
    BY <1>1 DEF TypeOK
  <2>2. OneMore(late, body[h]) \in [Cmd \cup {Nothing} -> Nat]
    BY <2>1, CallsTyped
  <2>3. late' \in {late, OneMore(late, body[h])}
    BY DEF Upload
  <2> QED  BY <2>1, <2>2, <2>3
<1>5. PICK place \in {"done", "login", "upload", "failed"} :
        /\ Goto(h, place)
        /\ place = "done" =>
             attempts' = attempts /\ history' = Serve(history, body[h])
        /\ place # "done" => attempts' = [attempts EXCEPT ![h] = @ - 1]
        /\ place = "upload" => attempts[h] # 1
  <2>1. CASE Goto(h, "done") /\ attempts' = attempts
             /\ history' = Serve(history, body[h])
    BY <2>1
  <2>2. CASE Retry(h, "login")
    BY <2>2 DEF Retry
  <2>3. CASE Retry(h, "upload")
    BY <2>3 DEF Retry
  <2> QED  BY <1>4, <2>1, <2>2, <2>3
<1>6. /\ pc' \in [Thread -> Place] /\ pc'[h] = place
      /\ \A s \in Thread \ {h} : pc'[s] = pc[s]
  <2>1. place \in Place
    BY DEF Place
  <2> QED  BY <1>1, <1>5, <2>1, GotoMoves
<1>7. /\ attempts' \in [Handler -> 0..ClientRetryTimes]
      /\ \A g \in Handler \ {h} : attempts'[g] = attempts[g]
      /\ place # "done" => attempts'[h] = attempts[h] - 1
  <2>1. attempts[h] - 1 \in 0..ClientRetryTimes
    BY <1>3, ClientRetryAssumption
  <2>2. attempts \in [Handler -> 0..ClientRetryTimes]
    BY <1>1 DEF TypeOK
  <2> QED  BY <1>5, <2>1, <2>2
<1>8. TypeOK'
  <2>1. history' \in Commands
    BY <1>1, <1>4, ServeCommands DEF TypeOK
  <2> QED  BY <1>1, <1>2, <1>4, <1>4a, <1>6, <1>7, <2>1 DEF TypeOK
<1>9. AttemptsLeft'
  <2>1. place = "upload" => attempts'[h] > 0
    BY <1>3, <1>5, <1>7, ClientRetryAssumption
  <2> QED  BY <1>6, <1>7, <2>1, ThreadsAre DEF IInv, AttemptsLeft
<1>10. ClosedSearch' /\ ShownIsSelected'
  <2>1. pc'[Shell] = pc[Shell]
    BY <1>6, ThreadsAre
  <2> QED  BY <1>2, <2>1, SearchKept
<1>11. DoneIsRecorded' /\ LastIsRecorded'
  <2>1. /\ \A c : Recorded(c) => Recorded(c)'
        /\ place = "done" => Recorded(body[h])'
    <3>1. history \in Commands
      BY <1>1 DEF TypeOK
    <3>2. /\ \A c : Recorded(c) => Recorded(c)'
          /\ history' = Serve(history, body[h]) => Recorded(body[h])'
      BY <1>2, <1>4, <3>1, RecordedStays
    <3> QED  BY <1>5, <3>2
  <2>2. DoneIsRecorded'
    BY <1>1, <1>2, <1>6, <2>1, ThreadsAre DEF Uploading, DoneIsRecorded
  <2>3. LastIsRecorded'
    BY <1>1, <1>2, <2>1 DEF Uploading, LastIsRecorded, Recorded
  <2> QED  BY <2>2, <2>3
<1>12. Busy' = Busy /\ h \in Busy
  BY <1>1, <1>6, ThreadsAre DEF Busy, At
<1>13. InStep'
  <2> SUFFICES ASSUME accepted # Nothing
               PROVE  /\ Busy = {h}
                      /\ history' \in {accepted, Serve(accepted, body[h])}
                      /\ place = "done" => history' = Serve(accepted, body[h])
    BY <1>2, <1>6, <1>12 DEF InStep
  <2>1. Busy = {h} /\ history \in {accepted, Serve(accepted, body[h])}
    BY <1>1, <1>12 DEF Uploading, Alone, InStep
  <2>2. accepted \in Commands
    BY <1>1 DEF TypeOK
  <2>3. Serve(history, body[h]) = Serve(accepted, body[h])
    BY <2>1, <2>2, ServeTwice
  <2> QED  BY <1>4, <1>5, <2>1, <2>3
<1>14. Alone' /\ LastInFront' /\ HistoryAsPosted'
  BY <1>1, <1>2, <1>12 DEF Uploading, Alone, LastInFront, HistoryAsPosted
<1> QED  BY <1>8, <1>9, <1>10, <1>11, <1>13, <1>14 DEF IInv, Uploading

(* lastCommand is set to what was recorded, or the handler had given up. *)
LEMMA SetLastKeeps ==
    ASSUME IInv, NEW h \in Handler, SetLast(h)
    PROVE  IInv'
<1>1. TypeOK /\ Uploading /\ pc[h] \in {"done", "failed"} /\ h \in Thread
  BY ThreadsAre DEF IInv, SetLast
<1>2. UNCHANGED <<newToken, serving, clientToken, kvCache, search, session,
                  history, late, stray, faults>>
  BY DEF SetLast, server
<1>3. /\ lastCommand' = body[h]
      /\ gaveUp' = (pc[h] = "failed")
      /\ accepted' = IF accepted = Nothing \/ pc[h] = "failed" THEN Nothing
                     ELSE Serve(accepted, body[h])
      /\ body' = [body EXCEPT ![h] = Nothing]
      /\ attempts' = [attempts EXCEPT ![h] = ClientRetryTimes]
  BY DEF SetLast, Claim, At
<1>4. /\ pc' \in [Thread -> Place] /\ pc'[h] = "idle"
      /\ \A s \in Thread \ {h} : pc'[s] = pc[s]
  <2>1. "idle" \in Place
    BY DEF Place
  <2> QED  BY <1>1, <2>1, GotoMoves DEF SetLast
<1>5. /\ body' \in [Handler -> Cmd \cup {Nothing}]
      /\ \A g \in Handler \ {h} : body'[g] = body[g]
      /\ body[h] \in Cmd \cup {Nothing}
  BY <1>1, <1>3 DEF TypeOK
<1>6. /\ attempts' \in [Handler -> 0..ClientRetryTimes]
      /\ attempts'[h] = ClientRetryTimes
      /\ \A g \in Handler \ {h} : attempts'[g] = attempts[g]
  <2>1. ClientRetryTimes \in 0..ClientRetryTimes
    BY ClientRetryAssumption
  <2> QED  BY <1>1, <1>3, <2>1 DEF TypeOK
<1>7. TypeOK'
  <2>1. gaveUp' \in BOOLEAN
    BY <1>3, Zenon
  <2>2. accepted' \in Commands \cup {Nothing}
    BY <1>1, <1>3, ServeCommands DEF TypeOK
  <2> QED  BY <1>1, <1>2, <1>3, <1>4, <1>5, <1>6, <2>1, <2>2 DEF TypeOK
<1>8. AttemptsLeft'
  BY <1>4, <1>6, ThreadsAre DEF IInv, AttemptsLeft
<1>9. ClosedSearch' /\ ShownIsSelected'
  <2>1. pc'[Shell] = pc[Shell]
    BY <1>4, ThreadsAre
  <2> QED  BY <1>2, <2>1, SearchKept
<1>10. DoneIsRecorded' /\ LastIsRecorded'
  <2>1. pc[h] # "failed" => Recorded(body[h])
    BY <1>1 DEF Uploading, DoneIsRecorded
  <2>2. LastIsRecorded'
    BY <1>2, <1>3, <2>1 DEF LastIsRecorded, Recorded
  <2>3. DoneIsRecorded'
    BY <1>1, <1>2, <1>4, <1>5, ThreadsAre DEF Uploading, DoneIsRecorded, Recorded
  <2> QED  BY <2>2, <2>3
<1>11. ASSUME accepted' # Nothing
       PROVE  /\ Busy' = {} /\ history' = accepted'
              /\ Serve(accepted', lastCommand') = accepted'
  <2>1. /\ accepted # Nothing /\ pc[h] = "done"
        /\ accepted' = Serve(accepted, body[h])
    BY <1>1, <1>3, <1>11
  <2>2. h \in Busy /\ Busy' = Busy \ {h}
    BY <1>1, <1>4, ThreadsAre DEF Busy, At
  <2>3. Busy' = {} /\ history = Serve(accepted, body[h])
    BY <1>1, <2>1, <2>2 DEF Uploading, Alone, InStep
  <2>4. accepted \in Commands
    BY <1>1, <2>1 DEF TypeOK
  <2> QED  BY <1>2, <1>3, <2>1, <2>3, <2>4, ServeTwice
<1>12. Alone' /\ InStep' /\ LastInFront' /\ HistoryAsPosted'
  BY <1>11 DEF Alone, InStep, LastInFront, HistoryAsPosted
<1> QED  BY <1>7, <1>8, <1>9, <1>10, <1>12 DEF IInv, Uploading

-----------------------------------------------------------------------------
(* doSearch. *)

(* C-R and its end, and the newline that ends offline mode. *)
LEMMA OpenCloseKeeps ==
    ASSUME IInv, StartSearch \/ Newline \/ EndSearch
    PROVE  IInv'
<1>1. TypeOK
  BY DEF IInv
<1>2. UNCHANGED <<body, attempts, newToken, serving, lastCommand, clientToken,
                  kvCache, session, history, late, stray, gaveUp, accepted>>
  BY DEF StartSearch, Newline, EndSearch, shared, server, ghost
<1>3. faults' \in 0..MaxFaults
  BY <1>1, CallTyped DEF StartSearch, Newline, EndSearch, TypeOK
<1>4. PICK place \in {"idle", "offline", "keys", "login"} :
        /\ Goto(Shell, place)
        /\ \/ search' = search /\ pc[Shell] # "keys"
           \/ search' = Opened /\ place = "idle"
  <2>1. CASE StartSearch
    BY <2>1 DEF StartSearch, At
  <2>2. CASE Newline
    BY <2>2 DEF Newline, At
  <2>3. CASE EndSearch
    BY <2>3 DEF EndSearch
  <2> QED  BY <2>1, <2>2, <2>3
<1>5. /\ pc' \in [Thread -> Place] /\ pc'[Shell] = place
      /\ \A s \in Thread \ {Shell} : pc'[s] = pc[s]
  <2>1. place \in Place
    BY DEF Place
  <2> QED  BY <1>1, <1>4, <2>1, ThreadsAre, GotoMoves
<1>6. search' = Opened
  BY <1>4 DEF IInv, ClosedSearch
<1>7. TypeOK'
  <2>1. search' \in SearchState
    BY <1>6, OpenedInRange
  <2> QED  BY <1>1, <1>2, <1>3, <1>5, <2>1 DEF TypeOK, SearchState
<1>8. AttemptsLeft'
  BY <1>2, <1>5, ThreadsAre DEF IInv, AttemptsLeft
<1>9. ClosedSearch' /\ ShownIsSelected'
  <2>1. search'.candidates = <<>>
    BY <1>6, OpenedInRange
  <2>2. ClosedSearch'
    BY <1>6 DEF ClosedSearch, Opened
  <2> QED  BY <2>1, <2>2 DEF ShownIsSelected
<1>10. Uploading'
  BY <1>2, <1>5, ThreadsAre, QuietKeeps DEF IInv
<1> QED  BY <1>7, <1>8, <1>9, <1>10 DEF IInv

(* Whatever the text finds, or when the search fails. *)
LEMMA EditSelects ==
    ASSUME TypeOK, NEW s \in SearchState, s.index = 1, Edit(s)
    PROVE  /\ search' \in SearchState /\ Selected(search')
           /\ faults' \in 0..MaxFaults
<1>1. Display(s) \in SearchState /\ Selected(Display(s))
  BY FirstInRange, DisplaySelects
<1>2. ASSUME NEW f \in Findable
      PROVE  Display(Found(s, f)) \in SearchState /\ Selected(Display(Found(s, f)))
  <2>1. f \in Commands
    BY DEF Findable
  <2>2. Found(s, f) \in SearchState /\ Found(s, f).index = 1
    BY <2>1, EditKeeps
  <2> QED  BY <2>2, FirstInRange, DisplaySelects
<1>3. search' = Display(s) \/ \E f \in Findable : search' = Display(Found(s, f))
  BY DEF Edit
<1>4. faults' \in 0..MaxFaults
  BY CallTyped DEF Edit, TypeOK
<1> QED  BY <1>1, <1>2, <1>3, <1>4

LEMMA KeyKeeps ==
    ASSUME IInv, Key
    PROVE  IInv'
<1>1. TypeOK /\ pc[Shell] = "keys" /\ search \in SearchState
  BY DEF IInv, TypeOK, SearchState, Key, At
<1>2. UNCHANGED <<pc, body, attempts, newToken, serving, lastCommand, clientToken,
                  kvCache, session, history, late, stray, gaveUp, accepted>>
  BY DEF Key, mine, shared, server, ghost
<1>3. InRange(search)
  BY <1>1 DEF IInv, ShownIsSelected, InRange, At
<1>4. /\ search' \in SearchState /\ Selected(search')
      /\ faults' \in 0..MaxFaults
  <2>1. CASE /\ search' \in {Display(SelectPrevious(search)),
                             Display(SelectNext(search))}
             /\ UNCHANGED faults
    <3>1. /\ SelectPrevious(search) \in SearchState
          /\ InRange(SelectPrevious(search))
          /\ SelectNext(search) \in SearchState /\ InRange(SelectNext(search))
      BY <1>1, <1>3, SelectKeeps
    <3>2. search' \in SearchState /\ Selected(search')
      BY <2>1, <3>1, DisplaySelects
    <3> QED  BY <1>1, <2>1, <3>2 DEF TypeOK
  <2>2. CASE search.searchIndex < MaxTyped /\ Edit(Type(search))
    <3>1. Type(search) \in SearchState /\ Type(search).index = 1
      BY <1>1, <2>2, EditKeeps
    <3> QED  BY <1>1, <2>2, <3>1, EditSelects
  <2>3. CASE Edit(Backspace(search))
    <3>1. Backspace(search) \in SearchState /\ Backspace(search).index = 1
      BY <1>1, EditKeeps
    <3> QED  BY <1>1, <2>3, <3>1, EditSelects
  <2> QED  BY <2>1, <2>2, <2>3 DEF Key
<1>5. TypeOK'
  BY <1>1, <1>2, <1>4 DEF TypeOK, SearchState
<1>6. AttemptsLeft'
  BY <1>2 DEF IInv, AttemptsLeft
<1>7. ClosedSearch' /\ ShownIsSelected'
  BY <1>1, <1>2, <1>4 DEF ClosedSearch, ShownIsSelected, Selected
<1>8. Uploading'
  BY <1>2, QuietKeeps DEF IInv
<1> QED  BY <1>5, <1>6, <1>7, <1>8 DEF IInv

-----------------------------------------------------------------------------
(* The environment. *)

(* An address is left with the calls that failed on it. *)
LEMMA LeaveTyped ==
    ASSUME TypeOK, LeaveAddress
    PROVE  /\ session' = FALSE /\ late' = Late0
           /\ late' \in [Cmd \cup {Nothing} -> Nat]
           /\ stray' \in [Cmd -> Nat]
<1>1. late \in [Cmd \cup {Nothing} -> Nat] /\ stray \in [Cmd -> Nat]
  BY DEF TypeOK
<1>2. \A c \in Cmd : stray[c] + late[c] \in Nat
  BY <1>1
<1> QED  BY <1>2 DEF LeaveAddress, Late0

LEMMA SessionKeeps ==
    ASSUME IInv, SessionEnds \/ Reconnect
    PROVE  IInv'
<1>1. TypeOK
  BY DEF IInv
<1>2. UNCHANGED <<pc, body, attempts, serving, lastCommand, kvCache, search,
                  history, gaveUp, accepted>>
  BY DEF SessionEnds, Reconnect, mine, shared, ghost
<1>3. /\ faults' \in 0..MaxFaults
      /\ session' = FALSE
      /\ clientToken' \in BOOLEAN
      /\ newToken' \in [Thread -> BOOLEAN]
      /\ late' \in [Cmd \cup {Nothing} -> Nat]
      /\ stray' \in [Cmd -> Nat]
  <2>1. CASE SessionEnds
    BY <1>1, <2>1, CallTyped DEF SessionEnds, mine, shared, TypeOK
  <2>2. CASE Reconnect
    BY <1>1, <2>2, CallTyped, LeaveTyped DEF Reconnect
  <2> QED  BY <2>1, <2>2
<1>4. TypeOK'
  BY <1>1, <1>2, <1>3 DEF TypeOK
<1>5. AttemptsLeft'
  BY <1>2 DEF IInv, AttemptsLeft
<1>6. ClosedSearch' /\ ShownIsSelected'
  BY <1>2, SearchKept
<1>7. Uploading'
  BY <1>2, QuietKeeps DEF IInv
<1> QED  BY <1>4, <1>5, <1>6, <1>7 DEF IInv

(* A failed upload is executed: in turn it is what the handler's next attempt
   would do, out of turn it disturbs or changes nothing. *)
LEMMA LateUploadKeeps ==
    ASSUME TypeOK, Uploading, NEW q, LateUpload(q),
           UNCHANGED <<pc, body, lastCommand, gaveUp>>
    PROVE  /\ history' \in Commands
           /\ accepted' \in Commands \cup {Nothing}
           /\ Uploading'
<1>1. /\ history' = Serve(history, q)
      /\ accepted' = accepted \/ accepted' = Nothing
      /\ accepted' # Nothing =>
           accepted' = accepted /\ (history' = history \/ InTurn(q))
  BY DEF LateUpload, Claim
<1>2. history' \in Commands /\ accepted' \in Commands \cup {Nothing}
  BY <1>1, ServeCommands DEF TypeOK
<1>3. Busy' = Busy
  BY DEF Busy, At
<1>4. \A c : Recorded(c) => Recorded(c)'
  <2>1. history \in Commands
    BY DEF TypeOK
  <2> QED  BY <1>1, <2>1, RecordedStays
<1>5. DoneIsRecorded'
  BY <1>4 DEF Uploading, DoneIsRecorded
<1>6. LastIsRecorded'
  BY <1>4 DEF Uploading, LastIsRecorded, Recorded
<1>7. Alone' /\ LastInFront'
  BY <1>1, <1>3 DEF Uploading, Alone, LastInFront
<1>8. ASSUME accepted' # Nothing
      PROVE  /\ Busy = {} => history' = accepted
             /\ \A h \in Busy :
                  /\ history' \in {accepted, Serve(accepted, body[h])}
                  /\ pc[h] = "check" => history' = accepted
                  /\ pc[h] = "done" => history' = Serve(accepted, body[h])
  <2>1. accepted # Nothing /\ accepted \in Commands
    BY <1>1, <1>8 DEF TypeOK
  <2>2. CASE history' = history
    BY <2>1, <2>2 DEF Uploading, InStep, HistoryAsPosted
  <2>3. CASE InTurn(q)
    <3>1. PICK g \in Busy : body[g] = q /\ pc[g] # "check"
      BY <2>3 DEF InTurn, At
    <3>2. Busy = {g} /\ history \in {accepted, Serve(accepted, q)}
      BY <2>1, <3>1 DEF Uploading, Alone, InStep
    <3>3. history' = Serve(accepted, q)
      BY <1>1, <2>1, <3>2, ServeTwice
    <3> QED  BY <3>1, <3>2, <3>3
  <2> QED  BY <1>1, <1>8, <2>2, <2>3
<1>9. InStep' /\ HistoryAsPosted'
  BY <1>1, <1>3, <1>8 DEF InStep, HistoryAsPosted
<1> QED  BY <1>2, <1>5, <1>6, <1>7, <1>9 DEF Uploading

LEMMA LateKeeps ==
    ASSUME IInv,
           \/ \E q \in Cmd \cup {Nothing} : LateCall(q)
           \/ \E c \in Cmd : StrayUpload(c)
    PROVE  IInv'
<1>1. TypeOK /\ Uploading
  BY DEF IInv
<1>2. late \in [Cmd \cup {Nothing} -> Nat] /\ stray \in [Cmd -> Nat]
  BY <1>1 DEF TypeOK
<1>3. /\ UNCHANGED <<pc, body, attempts, newToken, serving, lastCommand,
                     clientToken, kvCache, search, faults, gaveUp>>
      /\ \E q : LateUpload(q)
  BY DEF LateCall, StrayUpload, mine, shared
<1>4. /\ late' \in [Cmd \cup {Nothing} -> Nat]
      /\ stray' \in [Cmd -> Nat]
      /\ session' \in BOOLEAN
  <2>1. ASSUME NEW q \in Cmd \cup {Nothing}, LateCall(q)
        PROVE  late' \in [Cmd \cup {Nothing} -> Nat] /\ stray' = stray /\ session' = TRUE
    BY <1>2, <2>1, CallsTyped DEF LateCall
  <2>2. ASSUME NEW c \in Cmd, StrayUpload(c)
        PROVE  stray' \in [Cmd -> Nat] /\ late' = late /\ session' = session
    BY <1>2, <2>2, CallsTyped DEF StrayUpload
  <2> QED  BY <1>1, <1>2, <2>1, <2>2 DEF TypeOK
<1>5. /\ history' \in Commands
      /\ accepted' \in Commands \cup {Nothing}
      /\ Uploading'
  BY <1>1, <1>3, LateUploadKeeps
<1>6. TypeOK'
  BY <1>1, <1>3, <1>4, <1>5 DEF TypeOK
<1>7. AttemptsLeft'
  BY <1>3 DEF IInv, AttemptsLeft
<1>8. ClosedSearch' /\ ShownIsSelected'
  BY <1>3, SearchKept
<1> QED  BY <1>5, <1>6, <1>7, <1>8 DEF IInv

(* A new process, with whatever history the last one left. *)
FreshProcess ==
    /\ pc = Places0 /\ body = Body0 /\ attempts = Attempts0 /\ newToken = Tokens0
    /\ serving = FALSE
    /\ lastCommand = Nothing /\ clientToken = FALSE /\ kvCache = "none"
    /\ search = Opened
    /\ session = FALSE /\ history \in Commands
    /\ late = Late0 /\ stray \in [Cmd -> Nat]
    /\ faults \in 0..MaxFaults
    /\ gaveUp = FALSE /\ accepted = history

LEMMA FreshIsRight == FreshProcess => IInv
<1> SUFFICES ASSUME FreshProcess PROVE IInv
  OBVIOUS
<1> USE DEF FreshProcess
<1>1. TypeOK
  <2>1. pc \in [Thread -> Place]
    BY DEF Places0, Place
  <2>2. attempts \in [Handler -> 0..ClientRetryTimes]
    <3>1. ClientRetryTimes \in 0..ClientRetryTimes
      BY ClientRetryAssumption
    <3> QED  BY <3>1 DEF Attempts0
  <2>3. search \in SearchState
    BY OpenedInRange
  <2>4. /\ body \in [Handler -> Cmd \cup {Nothing}]
        /\ newToken \in [Thread -> BOOLEAN]
    BY DEF Body0, Tokens0
  <2>5. late \in [Cmd \cup {Nothing} -> Nat]
    BY DEF Late0
  <2> QED  BY <2>1, <2>2, <2>3, <2>4, <2>5 DEF TypeOK, SearchState
<1>2. \A h \in Handler : pc[h] = "idle" /\ attempts[h] = ClientRetryTimes
  BY ThreadsAre DEF Places0, Attempts0
<1>3. AttemptsLeft
  BY <1>2 DEF AttemptsLeft
<1>4. ClosedSearch /\ ShownIsSelected
  BY OpenedInRange DEF ClosedSearch, ShownIsSelected
<1>5. Busy = {}
  BY <1>2 DEF Busy, At
<1>6. Nothing \notin Cmd
  BY NothingAssumption
<1>7. DoneIsRecorded /\ LastIsRecorded
  BY <1>2, <1>6 DEF DoneIsRecorded, LastIsRecorded
<1>8. Alone /\ InStep /\ HistoryAsPosted
  BY <1>5 DEF Alone, InStep, HistoryAsPosted
<1>9. LastInFront
  BY <1>6 DEF LastInFront, Serve
<1> QED  BY <1>1, <1>3, <1>4, <1>7, <1>8, <1>9 DEF IInv, Uploading

LEMMA ExitKeeps ==
    ASSUME IInv, Exit
    PROVE  IInv'
<1>1. TypeOK
  BY DEF IInv
<1>2. /\ history' \in Commands /\ accepted' = history'
      /\ faults' \in 0..MaxFaults
  BY <1>1 DEF Exit, TypeOK
<1>3. FreshProcess'
  <2>1. session' = FALSE /\ late' = Late0 /\ stray' \in [Cmd -> Nat]
    BY <1>1, LeaveTyped DEF Exit
  <2> QED  BY <1>2, <2>1 DEF Exit, FreshProcess, Places0, Body0, Attempts0,
                             Tokens0, Late0, Opened
<1>4. FreshProcess' => IInv'
  BY FreshIsRight, PTL
<1> QED  BY <1>3, <1>4

-----------------------------------------------------------------------------

LEMMA InitInv == Init => IInv
<1>1. Init => FreshProcess
  BY EmptyCommands, ClientBoundsAssumption DEF Init, FreshProcess
<1> QED  BY <1>1, FreshIsRight

LEMMA StepInv == IInv /\ [Next]_vars => IInv'
<1> SUFFICES ASSUME IInv, [Next]_vars PROVE IInv'
  OBVIOUS
<1>1. ASSUME NEW h \in Handler, HandlerStep(h)  PROVE IInv'
  BY <1>1, PostKeeps, CheckLoginKeeps, UploadKeeps, SetLastKeeps
  DEF HandlerStep
<1>2. ASSUME NEW t \in Thread, LoginStep(t)  PROVE IInv'
  BY <1>2, LoginKeeps, SetTokenKeeps DEF LoginStep
<1>3. CASE SearchStep
  BY <1>3, OpenCloseKeeps, KeyKeeps DEF SearchStep
<1>4. CASE SessionEnds \/ Reconnect
  BY <1>4, SessionKeeps
<1>5. CASE Exit
  BY <1>5, ExitKeeps
<1>6. CASE \/ \E q \in Cmd \cup {Nothing} : LateCall(q)
           \/ \E c \in Cmd : StrayUpload(c)
  BY <1>6, LateKeeps
<1>7. CASE UNCHANGED vars
  <2>1. UNCHANGED <<pc, body, attempts, newToken, serving, lastCommand,
                    clientToken, kvCache, search, session, history, late,
                    stray, faults, gaveUp, accepted>>
    BY <1>7 DEF vars, mine, shared, server, ghost
  <2>2. TypeOK' /\ AttemptsLeft'
    BY <2>1 DEF IInv, TypeOK, AttemptsLeft
  <2>3. ClosedSearch' /\ ShownIsSelected'
    BY <2>1, SearchKept
  <2>4. Uploading'
    BY <2>1, QuietKeeps DEF IInv
  <2> QED  BY <2>2, <2>3, <2>4 DEF IInv
<1> QED  BY <1>1, <1>2, <1>3, <1>4, <1>5, <1>6, <1>7 DEF Next

(***************************************************************************)
(* The client's four properties together, from the inductive invariant.    *)
(***************************************************************************)
THEOREM ClientSafe ==
    Spec => [](TypeOK /\ LastIsRecorded /\ HistoryAsPosted /\ ShownIsSelected)
<1>1. IInv => TypeOK /\ LastIsRecorded /\ HistoryAsPosted /\ ShownIsSelected
  BY DEF IInv, Uploading
<1> QED  BY <1>1, InitInv, StepInv, PTL DEF Spec

(* The types: attempts never run below zero, and neither candidates nor
   selection outgrow what a recorder holds. *)
THEOREM ClientTyped == Spec => []TypeOK
BY ClientSafe, PTL

(* What uploadProxyHandler skips as already sent was recorded, however many
   handlers overlap. *)
THEOREM SkippedIsRecorded == Spec => []LastIsRecorded
BY ClientSafe, PTL

(* Retries, refusals, lost answers, skipped commands and failed uploads that
   are executed late but before another command leave the history of the
   commands handled, in their order. *)
THEOREM RecordedAsPosted == Spec => []HistoryAsPosted
BY ClientSafe, PTL

(* The command on the screen of C-R mode is the one that is selected. *)
THEOREM SelectedIsShown == Spec => []ShownIsSelected
BY ClientSafe, PTL

=============================================================================
