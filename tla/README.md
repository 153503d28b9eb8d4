# Verification of mysh

mysh wraps a shell and records its history in the cloud. Clients talk to a
*proxy*; the proxy asks a *dash* which *search server* is responsible for a
user (a uid) and forwards the call there; the search server keeps the user's
commands in memory and saves them to etcd. This directory holds TLA+ modules
translated from the source, the TLC configurations that check them, and
theorems that TLAPS checks.

## 1. Inventory

| Component | State | Operations | Hard behaviour | What makes it correct |
|---|---|---|---|---|
| LRU cache, `lru/lru.go` | list of nodes, map of keys | Add (with eviction callbacks), Get, Contains, Peek, Remove, RemoveOldest, GetOldest, Purge, Filter | two structures updated by hand | map and list agree, capacity holds, evicts the least recently used |
| Recorder, `recorder/recorder.go` | LRU of recorders by uid; in each an LRU of commands, a goroutine, a stop channel; etcd keys | manager Add, Find, Stop; Run, sync, Stop, initOrLoad of a recorder | goroutines that outlive their registration, evictions under two mutexes, failed loads and saves, crashes | one writer per uid, nothing acknowledged is lost, nobody hangs |
| Lock, `lib/etcd/etcd.go` | etcd key under a lease, `lockRecord` of the process | Lock, tryLock, UnLock, AtomicMultiKVOp | lease expiry, lost answers, crashes, goroutines that share `lockRecord` | exclusion, no wedge |
| Election, `lib/etcd/etcd.go` | leader key under a lease | Elect, IsLeader, GetElectorID | expiry, failed transactions, a leader that restarts under its old name | a leader is found again, and keeps the lead as long as its lease |
| Registry, `lib/etcd/etcd.go` | keys of live servers and proxies | Register | expiry | the ring follows it |
| Proxy, `server/server.go` | cache of endpoints with deadlines, request counter, read-write lock | doProxy, uidEndpoint, CleanUidCache | recursion on errors, a cleaner that waits while holding the lock | exact counter, no stale answers after a cleaning, every call ends |
| Dash, `server/server.go` | two indexes in etcd, pause map, hash ring | UidEndpoint | overlapping moves of one uid, change of leader, early returns | indexes agree, nobody waits for ever |
| Dash controller and hash ring (vendored, same author) | event queues, slots | add and delete events, AddNode, DelNode, GetNode | events applied out of order, reads without the lock | the ring is what the registry says |
| Search server, `server/server.go`, and `auth/auth.go` | login cache | Search, Upload, Login, Logout, UidLogout, Check | logout racing other calls | no answer without login |
| Client, `cmd/mysh`, `util/` | last command, token, cached password; in C-R mode the candidates and the selection | upload handler, login, Retry, keys | handlers that overlap, lost answers, sessions that end, two logins at once | commands are recorded once and in order; the selected command is the one shown |
| Agent, `cmd/mysh-agent` | none | posts the last command | killed by ^C while its handler goes on | see the client |
| Database, certificate server, protocol | none of their own | I/O | none | not modelled |

Interactions: proxy -> dash (`UidEndpoint`), proxy -> search server (the
forwarded call), dash -> old search server (`UidLogout`) and new one (`Check`),
dash -> proxy (`CleanUidCache`, see 5), everybody -> etcd. Shared state inside
a process is guarded by the mutexes named in the modules.

The hazards this gives rise to are listed, with the line where each bites and
the properties about it, in PROJECT.json.

## 2. Modules

* **RecencyList** - sequences in order of use; what `container/list` does for
  package lru, and the combined effect of `recorder.Add` (`Touch`).
* **LRU** - `l` is the list, `m` the keys of the map, `ret` the result of the
  last call and the value handed to its callbacks. One action per method; Add
  is three (present, full, room). **AbstractLRU** states the promise without a
  list: a value per key and a relation "used more recently than". What
  Contains does to the order is left open there, since the code and its
  comments disagree (`ContainsKeepsOrder`, section 3). `LRU` implements it under the mapping in `Promise`: `Store` reads the value of a
  key from its node, `Newer` the order of two keys from their places.
* **History** - the list of commands a recorder holds: adding one, and the
  replay of a saved list.
* **Recorder** - the recorder manager of one search server. `set` is
  `recorderSet`; an object is in `running` from the start of its goroutine to its end and in `stopCh` while
  its channel holds "Done". A request for a user without a recorder is two
  steps (`Run`, `Register`), since the new goroutine runs before the set is
  changed; the manager's mutex is held over both (`busy`). All else is one
  step under one mutex. A request is a command, the empty command (refused),
  or a look-up. Load and save failures are `Etcd(FALSE)`.
* **EtcdLock** - the lock from goroutines of several processes. `at` places a
  goroutine in `AtomicMultiKVOp`; `live` and `key` are etcd's. A transaction
  or revocation whose answer is lost may have been applied or not.
* **Proxy** - requests and cleaners as goroutines, one step between any two
  points where another can interfere. The recursion of doProxy is `depth`, and
  `resp` says whether there is an answer to send: a nil one reaches the client
  as an error, because grpc cannot encode it.
* **Dash** - calls of UidEndpoint in several dash processes. Ring and leader
  key change freely, so what is shown holds for any ring and any election.
* **SearchServers** - composes what the modules above promise: several search
  servers with their login caches (auth) and recorders, the stored histories,
  the dash's moves step by step, and calls that reach any server, as stale
  proxies send them. A recorder is the list it holds; `leaving` are stopped
  recorders that may save once more. A refused call changes nothing and is no
  step. One move of a uid at a time; overlapping moves are module Dash's.
* **Election** - Elect in every dash process, over etcd's leases. `elect` is
  where a process is, `leader` the leader key with its lease. A dash is known
  by the address it listens on, so two dashes have two names (`cons.DashAddr`
  is one port on one host).
* **HashRing** - AddNode and DelNode as operators on the ring's three
  structures; the hash of a virtual node's successive names is a constant
  sequence of slots.
* **Controller** - composes Election and HashRing with the registry of search
  servers and the event controller of a dash: `eventCh` is what the watch has
  seen, `addChan` and `delChan` the bounded channels, each with the event that
  the goroutine behind it has received and not yet applied, so that there is
  room for one more than the channel holds. The update channel is
  emptied into a Printf and is left out. `crossed` (history) holds the nodes
  of which an add and a delete were in the two channels (or in hand) at once.
* **SearchMode** - what the keys of C-R mode do to candidates, selection and
  screen, as operators. **Client** composes it with the upload handlers and
  the login. A token is TRUE if it is right for the address the connection has
  now, since genToken depends on uid and address. A call that fails for the
  client is not over: the proxy forwards with `context.Background()` and tries
  again after a second, so the call may be executed at any later time. `late`
  counts such calls of the present address (uploads by command, and Logins),
  `stray` the uploads of earlier addresses, which nothing removes from
  `loginCache`; `LateCall` and `StrayUpload` execute them, in any order.
  `accepted` and `gaveUp` are history variables: `accepted` becomes Nothing,
  until the next process, when handlers overlap, when one gives up, and when a
  late upload changes the history although its command is no longer being
  handled.
* **MC\*** - instances for TLC. **\*Proofs** - theorems, one module for each
  component (DashProofs extends Dash and EtcdLock, and has the theorems of both)
  and **RecencyListProofs** for the lemmas about sequences they
  share.

`disturbed`, `overlapped`, `ideal` (and `unread`, `executed`, `cleaned`,
`crossed`, `accepted`, `gaveUp`)
are history variables: no action's guard reads them. They say what has gone
wrong, so that a property can claim the rest. `disturbed` in Recorder: a Load
failed; the last save failed; a stopped recorder's late tick saved something
else than what was acknowledged. In EtcdLock: a Lock returned an error, or a
lease expired under its holder. In SearchServers `ideal` becomes None, and
nothing is claimed for the uid any more, when: a Load or a last save fails; an
unchecked Search or a Login reaches a server that has given the uid up; a call
that passed its check acts after the recorder was stopped; UidLogout fails; a
late save lands when no recorder is left to repair it.

## 3. Runs

| Run | Checks | Instance |
|---|---|---|
| lru | TypeOK, MapListAgree, KeepsPromise | 3 keys, room for 2, 2 values |
| lru_contains | ContainsKeepsOrder *violated* | as lru |
| recorder | TypeOK, OneWriterPerId, NoOrphanWriter, StopNeverBlocks, KeepsHistory | 2 users, room for 1 recorder, 3 objects, 2 commands, room for 2, 1 failure |
| recorder_live | EventuallySaved, StoppedFinishes | 2 users, 2 objects, 1 command |
| recorder_load | ServesOnlyLoaded *violated* | as recorder |
| etcd_lock | LockTypeOK, ExclusiveUnlessDisturbed, KeyHasLiveLease, SomeoneEnters | 2 processes, 3 goroutines, 3 leases, 2 failures |
| etcd_lock_mutex | MutualExclusion *violated* | the same without failures |
| proxy | TypeOK, CountExact, FreshAfterClean, AtMostOnce, AnswerIsReal, RequestsEnd, CleaningEnds | 2 requests, 1 cleaner, 1 uid, 2 endpoints, 2 failures |
| dash | TypeOK, IndexCovers, IndexExactUnlessOverlapped, PausedHasMover, CallsEnd | 2 processes, 2 calls of one of them, 1 uid, 3 endpoints |
| search_servers | TypeOK, SessionsAtHome, OneServerRecords, HistoryFollowsUid | 2 servers, 1 uid, 2 calls, 1 command, 1 failure |
| controller | TypeOK, RingConsistent, RingFollowsRegistry, LeadsUntilLeaseEnds, LeaderFound, DeadNodeLeaves | 2 dashes (the ring of 1), 3 leases, 2 servers with 2 virtual nodes on 5 slots, channels without a buffer, 3 changes, 2 failures |
| client | TypeOK, LastIsRecorded, HistoryAsPosted, ShownIsSelected | 2 handlers, 3 commands, room for 2, 2 attempts, text of 1, 2 failures |

**Bounds.** LRU: with more keys than room every path of Add is taken, and two
kept keys are enough to tell orders apart. Recorder: room for one recorder
makes each change of user an eviction; three objects allow a stopped recorder,
its stopped successor and a third in service at once; `Obj` bounds the objects
alive together, not how many are made, so histories are unbounded. EtcdLock:
two goroutines share a `lockRecord` and one has its own; a lease returns to the
pool when nothing refers to it. Proxy: uids meet only through the lock and the
counter, which requests about one uid share as well; two failures give a
recursion of depth two. Dash: calls about different uids share
nothing, so one uid is enough; two calls of one process share its pause map as
well as etcd, and may still both pass waitUid before either suspends; three
endpoints let one call hold an old and a new endpoint while the uid moves to a
third; the second process has the lead for a while (calls in several processes
are left to the proofs). SearchServers: users
share nothing but server crashes; one command tells a stale list (without it)
from a current one, and two calls let one outrun a logout while another logs
in. Controller: two dashes are enough for a leader and a rival, a third lease
lets one start again while its old lease lives, and rings of different dashes
share nothing; 4 virtual nodes collide on 5 slots; a channel that holds only
what its goroutine has in hand is full at once, so that events wait (longer
channels are left to the proofs); and three changes are a birth, a death and a rebirth, or two births and a
death. Client: two handlers overlap, three commands fill the list and make it
let one go, two failures make both attempts of a handler fail, or one fail and
the connection be lost while the failed one is on its way
(`cons.ClientRetryTimes` is 3, and any number in the proofs); logins and exits
are not bounded. `MaxFaults` bounds failures everywhere. Symmetry is used in
`recorder`, `search_servers` and `client` only, which check no liveness.

**Fairness.** Weak fairness of a goroutine's own steps: it is scheduled and
its calls return (Recorder, EtcdLock, Proxy, Dash). Recorder: the ticker fires
again and again, and Go's select, which chooses at random, takes a ready stop
channel sooner or later. EtcdLock: etcd expires leases nobody renews. Proxy:
strong fairness of taking `uidEndpointsCacheMtx`, since sync.RWMutex lets
nobody starve. Dash: strong fairness of waitUid, which polls every 10 ms: a
uid suspended again and again exactly when it is looked at is not considered.
Election and Controller: Elect's loop and the controller's goroutines go on,
and etcd ends leases nobody renews, which is what makes the key of a dead
leader go (LeaderFound); a dash need not start or watch. No
fairness is assumed of clients, faults, crashes, registrations or a ring's
changes in Dash.

**What the violated properties show.**
*ContainsKeepsOrder*: the interface (lru.go:19) and the method (lru.go:173) say
that Contains checks for a key "without updating the recent-ness". It calls
Get, which moves the key to the front, so the next eviction takes another key.
The recorder relies on the move: recorder.go:87 calls Contains to give a
repeated command more weight.
*ServesOnlyLoaded*: `initOrLoad` marks the recorder inited before it loads and
`Run` drops its error, so a Get that fails puts an empty recorder in service,
and its first tick overwrites the stored history.
*MutualExclusion*: no request fails in this run; a lease that ends during the
work, or during the wait (the error of Lock is dropped), is enough for two
goroutines to work at once. The dash's transactions survive this because each
writes all its keys at once: `Dash` does not rely on the lock at all.

## 4. Proofs

Everything in this section holds for every value of the constants: any number
of users, processes, calls, commands, servers, slots and failures. All
invariants are of the form `Spec => []Inv`, proved from an inductive invariant
(`IInv`) that is spelled out at the head of the module.

**LRU** (`LRUProofs`). `CacheConsistent`: types, MapListAgree and
WithinCapacity (`CacheTyped` names the first alone). MapListAgree speaks of
nodes, so the inductive invariant states it of the sequence of keys, which the
list operations of RecencyList commute with (`KeySeqDropAt`,
`KeySeqPushFront`). `ImplementsPromise`: `Spec =>
KeepsPromise`, the refinement of AbstractLRU. `StoreIndexed` and
`NewerIndexed` say what the mapping makes of a list place by place;
`DropPromised` and `PushPromised` what taking a node out or putting one in
front does to the two views; Add, Remove and the reads then follow one after
the other, and the step of each is a step of the abstract cache. That the last
node is the one Add and RemoveOldest may drop is `OldestPromised`; that the
cache is full exactly when the abstract one is, is a bijection between places
and keys (`HeldCount`).

**Recorder** (`RecorderProofs`). `WriterDiscipline` (with `WritersReachable`
and `StopReturns`): OneWriterPerId, NoOrphanWriter, StopNeverBlocks. None of
the three is inductive: a recorder about to be stopped must be known to have
an empty channel, and one about to be made to have no rival. The invariant is
`Known = running \ stopCh` with distinct entries in the set: told to stop and
taken out of the set are the same event. `HistoryKept` (with `RecorderTyped`):
`[](TypeOK /\ KeepsHistory)`, from `HInv`, which joins that invariant with the
history; under it KeepsHistory is about the running recorders alone
(`HeldAsAcknowledged`), and so each action touches one of them. A load gives
back what was saved because `Replay`, a recursive function, restores every
list without repetitions that fits (`ReplayRestores`).

**Lock** (`DashProofs`, second part, about `LockSpec` alone).
`LockExclusive` (with `LockTyped` and
`KeyEndsWithLease`): types, KeyHasLiveLease, ExclusiveUnlessDisturbed. Needs
`HasLease`: whoever tries has a lease, so that a key bound to a holder's lease
is never taken for a free one.

**Proxy** (`ProxyProofs`). `ProxySafe` (with one theorem for each part):
types, CountExact, FreshAfterClean, AtMostOnce, AnswerIsReal. The invariant
adds: the lock is held exactly at the places "ask", "wait" and "clean" (so
nobody cleans between a question to the dash and the Put of its answer); a
retry is paid for by a failure and only a retry is undone (the type of
`depth`); a request runs only on its way out, which makes the second run
impossible. The counter is the cardinality of a set that each step leaves, or
changes by one request (`CountKept`, `CountRaised`, `CountLowered`).

**Dash** (`DashProofs`). `DashSafe` (with `DashTyped`, `IndexMissesNone`,
`IndexExact` and `SuspensionHasMover`): types, IndexCovers,
IndexExactUnlessOverlapped, PausedHasMover. IndexCovers is inductive given
that a call that will write has the endpoints it writes (`Holds`): each
transaction writes both indexes. Exactness needs more: a uid that is not
overlapped has one call (`AloneUnlessOverlapped`), so what that call read of
etcd is still there when it writes (`ReadIsFresh`), and the entry it deletes
is the one that became wrong.

**Search servers** (`SearchServersProofs`). `HistoryFollows` (with
`ServersTyped`, `SessionsEndBeforeMove` and `RecordedOnce`): types,
HistoryFollowsUid, SessionsAtHome, OneServerRecords. The order of a move is
the argument: for an undisturbed uid sessions end first, then nobody is let in
(`SessionsAtHome`), then the recorder and the calls on their way to it are gone
before the home changes (`RecordsAtHome`, `CallsAtHome`), so only etcd holds
the history when the next server loads it. OneServerRecords follows from
RecordsAtHome and is not inductive without it.

**Controller** (`ControllerProofs`). `LeadershipStable`: an action property
that each step has by itself. `RingsSafe` (with `ControllerTyped`,
`TablesAgree`, `ToldRingIsRight`): types, RingConsistent,
RingFollowsRegistry. For the ring: a free slot is found while there is one
(`FreeSlotIsFree`), a placed virtual node disturbs no other (`PlaceKeeps`), and
AddNode, which is a recursive function over the virtual nodes, is followed by
induction (`PlacedExists`, `AddNodeKeeps`). For the registry: RingFollowsRegistry
is about a dash that has heard everything, so the invariant must say where a
dash that has not is heading. For each node that has not crossed there is a set
of places in the event queue after which the node exists (`Tells`); its first
place agrees with what the dash has heard (the channels, and the ring
below them: `Heard`), its last with the registry. Each change of the registry
appends a place, Deal takes one off, and the loops of the channels leave Heard
as it is.

**Client** (`ClientProofs`). `ClientSafe` (with `ClientTyped`,
`SkippedIsRecorded`, `RecordedAsPosted` and `SelectedIsShown`): types,
LastIsRecorded, HistoryAsPosted, ShownIsSelected. An answer may be lost after
the server has recorded the command, so while a handler is busy the history is
either the accepted one or that with the command added (`InStep`), not yet
before the first call and certainly when the handler is done. A failed upload
that the proxy executes late does the same as a retry if its handler is still
at work, and nothing if its command is in front already; otherwise it is a
disturbance (`LateUploadKeeps`). A retry then
does no harm because recording a command twice is recording it once
(`ServeTwice`), and skipping the last command does none because it is in front
(`LastInFront`). That holds while handlers do not overlap (`Alone`). With
overlaps a weaker fact remains, which LastIsRecorded rests on: a command that
was uploaded stays in the history until a full list lets it go
(`DoneIsRecorded`, `RecordedStays`). The attempt to prove LastIsRecorded
without the exception for a full list failed for that reason: with three
commands and room for two, a slow handler sets `lastCommand` to a command that
two other uploads have pushed out, which two commands could not show. For
C-R mode the invariant is ShownIsSelected itself and that the mode is opened
with nothing found (`ClosedSearch`); one lemma for each operator of SearchMode
says that it keeps the selection inside the candidates, the empty list
included.

**RecencyListProofs**. What DropAt, PushFront, ToFront and Touch do to the
elements of a sequence and to its being free of repetitions, that Touch puts
its element in front, changes nothing when repeated and forgets nothing while
there is room (`TouchFront`, `TouchTwice`, `TouchKeeps`), that the lists a
recorder can hold are closed under it (`RecencyListsClosed`), and that a list
is rebuilt from its copy (`RebuildRestores`). Induction over numbers is done
on sets: `SetInduction` says that a set which has 0, and with each natural
number the next, has them all; it rests on the least element of a set
(`LeastNatural`), hence on `NatLessThanWellFounded` of the library, and needs
no induction scheme with an operator in it. That is how `Replay` and
`AddNode` are reasoned about.

The inductive invariants of Dash, SearchServers, Controller and Client were
model-checked on the instances of section 3 before they were proved.

**Assumptions** are those of the modules, evaluated by TLC on every run:
capacities, slots and virtual nodes of at least 1 (`NewLRU` panics below; the
others are constants of the code), finitely many requests of a proxy at a
time, a process for each goroutine and call, `None` and its like differ from
everything they stand beside, and in HashRing the successive names of a
virtual node hash to every slot sooner or later (without that AddNode may not
end).

**Only model-checked.** What holds under fairness: EventuallySaved,
StoppedFinishes, SomeoneEnters, RequestsEnd, CleaningEnds, CallsEnd,
LeaderFound, DeadNodeLeaves. The prover has no rules for ENABLED, and so for
fairness. The three violated properties are false, and TLC's counterexamples are
all there is to say about them.

## 5. Not modelled

* File storage of recorders: no caller, since `NewTypedPersistentRecorder`
  makes an etcd recorder in both cases. (A file recorder has a nil `stopCh`,
  on which Stop would block for ever.)
* `lru.Keys`: no caller. (It returns twice as many entries as there are keys,
  the first half nil.)
* `cleanUidCache` in the dash: never reached, because the prefix passed to
  `ListKeyByPrefix` is formatted with an argument missing and matches no key.
  CleanUidCache in the proxy is modelled, its caller is free. (Were it reached,
  it would wait for the lock that the proxy holds over this very call.)
* A Put that timed out is applied at once or never; etcd may in principle
  apply it later.
* UnLock's result, an error even after a success; nobody reads it.
* In the client: which goroutine gets a byte of the terminal (the login prompt
  of a handler competes with the goroutine that copies keys), the two unlocked
  `bytes.Buffer`s between the terminal and bash, and accounts other than one.
  What is on its way when the client ends has failed for it first. An upload
  of an earlier address may be executed whether or not that address is still
  in `loginCache`, and such an address may not log in any more (its late
  Logins would change no list): more late uploads than the code allows, never
  fewer. Search for a text that is not empty is never refused by
  SearchServer.Search, so the 403 branch of the key loop is left out.
* The clients' connection maps (`ensureCliExists`): caches of connections,
  read without their lock, which is a data race inside a Go map.
* doSearch panics when the last byte of an escape sequence is not there yet;
  that is one of the ways `Exit` of module Client stands for.
* A full ring: 4096 slots hold 128 search servers, and AddNode for the next
  loops for ever under the ring's lock; in module Controller AddLoop waits.
* `event-controller` Stop and the etcd package's own Controller: no caller.
* Database, certificate server and download, generated protocol code: I/O
  without state of their own.
* Wording, logging, JSON, hashing, TLS, the terminal's drawing.

## 6. State of the plan

Every component with state of its own is modelled, and every invariant and
action property that a passing run checks is also a theorem, the refinement of
AbstractLRU included. The liveness properties stay with TLC (section 4). The
hazards no property covers are noted in PROJECT.json. Two need the terminal or
the watching goroutine in more detail than section 5 leaves in. The others are
cases where the code does go wrong without any document of it saying that it
does not (a last save that fails, a call that passed its login check before a
move, a UidLogout that fails, an unchecked Search, an empty ring): the
properties exclude them by name and show that nothing else does the harm.
