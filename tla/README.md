# A TLA+ model of mcache

mcache is an in-memory cache in Go: a sharded map with pluggable eviction and
pluggable, incremental resizing, that can be used as a library, behind a TCP
server, in several client-side cluster modes, and with its writes replicated by
Raft. This directory models it, checks the models with TLC and proves part of
what they promise with TLAPS. Paths below are relative to the repository's root
(`src/` in `PROJECT.json`).

## The parts and how they interact

| Part | Code | Module |
|---|---|---|
| Raft core: event loop, elections, log, commit | `raft/raft.go`, `log.go`, `rpc.go` | `Raft` |
| Raft node and in-memory transport | `raft/node.go`, `transport_memory.go` | partly, `Raft` with `InFlight`, `Server` |
| Eviction policies | `lru.go`, `lfu.go`, `policy.go` | `Eviction` |
| Shard: sub-shards, entries, expiry | `shard.go`, `entry.go` | `Shard`; typed maps in `Keyspace` |
| Cache: table of shards, Resize, Close; rehashers | `cache.go`, `rehash/` | `Cache` |
| Set, hash, list and key operations | `cache_ext.go`, `shard.go`, `ds/` | `DataTypes`, `Keyspace` |
| Wire protocol, dispatch, client methods | `net/protocol*.go`, `server*.go`, `client*.go` | `Codec`, `Remote` |
| Client connections and pipelines | `net/client.go`, `pipeline.go` | `Rpc` |
| Server: connections, Raft requests, Close | `net/server.go`, `raft_cmd.go` | `Server` |
| Raft over TCP: connections, Shutdown | `net/raft_transport.go` | partly, `Server` |
| Cluster modes | `cluster/` | `Cluster` |
| MBR scheduler | `mbr/` | `Mbr` |
| Monitor, infrastructure, CLI, SDK, options | `monitor/`, `infra/`, `cli/`, `sdk/` | not modelled, but for the monitor's reading in `Mbr` |

A call of the library goes from `Cache` to one `shard` of the current table and
there to one sub-shard, which has a lock, four maps and an eviction policy.
`Resize` installs a new table and leaves the old one to the rehasher. From then
on each Set, Get and Del also consults the old table and makes one `Step`, which
moves entries. The server decodes a request and calls the cache, or, with Raft,
proposes a command and waits until Raft has applied it. A client shares its
connections between goroutines and matches answers to calls by stream. A cluster
manager chooses one of several clients. The MBR scheduler calls `Resize`.

## Modules

**`Raft`** is `raft/raft.go` for a set of nodes. One action is one turn of a
node's event loop: `HandleElectionTimeout`, `HandleHeartbeatTimeout`,
`HandleRequestVote`, `HandleAppendEntries`, their two responses, `HandlePropose`;
`Propose` runs on the caller's goroutine. The variables are the fields of the
struct, whether each timer is armed, and the calls in flight. The code makes each
call on a goroutine of its own, so calls and answers are unordered. A call that
is never answered is one no action ever takes, so losses need no action.
`InFlight` counts equal calls. `elected`, `ballots`, `counted` and `applied` are
history.

**`Eviction`** has the methods of the noop, LRU and LFU policies as functions on
a policy's state (the list; or frequencies, buckets and `minFreq`). **`Shard`**
is one shard with its string entries. A method that holds one lock throughout is
one action. `get`, which re-locks to delete an expired entry, and the walks
`cleanup`, `swapPolicy` and `ExtractN` have one action per lock. Values are left
out: an entry is its expiry time.

**`Cache`** is the cache while it is resized. A call is a sequence of actions,
one per atomic load or store or locked section: validate and load the table,
apply, ask whether a migration is under way, find the old shard, apply there,
load the table again, and the locked beginning, the extraction, the moves and the
locked end of a `Step`. `Resize` has two actions (the rehasher's `Start`, and
storing the table), `SetRehasher` two (`Stop`, and replacing it) and `Close` two.
The cache is unlimited and entries do not expire here, and a shard is one lock:
those belong to `Shard`. **`KVMap`** is the abstract map that callers expect:
calls are made, take effect once and return.

**`DataTypes`**, **`Keyspace`**, **`Codec`** and **`Remote`** follow one command
from end to end, one `EXTENDS` above the other. `DataTypes` has every method of
the three containers of `ds/` as an operator; the decimal texts `HIncrBy` reads
and writes are real, and its integers wrap. `Keyspace` has the methods of `shard`
and of `Cache`, with validation, errors and expiry, on a record of four maps and a
clock, of which a millisecond has `Milli` ticks. `Codec` has each format of the
protocol as a sequence of fields with widths, in one table for the encoders and
another for the decoders, as they are separate functions in the code; `Base` and
`Half` are the only abstraction of bytes. `Remote` composes them in one action,
`Call`: client encoding, server decoding, dispatch (alone, as Raft leader, as
follower), execution and response. On a leader `raftPropose` may fail
(`Executed`): the proposal is refused, or the time-out comes first, and then the
entry is in `late`, to be applied later (`AppliedLate`) or never. `wire` keeps the
response with the call and what was before it, so that the properties compare what
the client makes of it (`Answer`) with `Local`, the same method called on the
cache.

**`Rpc`** is one client: callers that take a response channel and a buffer from
their pools, register a stream, write a frame, wait for the answer or the timer
and put things back; pipelines that do this for a batch; the `readLoop` of each
connection, which looks a stream up and later sends on the channel it found; and
the sweep that fails all pending calls. Connections are dropped, closed by the
user, or left with half a frame by a write deadline (`tcp = "torn"`).

**`Server`** is the accept loop, one handler per connection, the apply goroutine
and `Close`. A replicated write is registered under a fresh ID, proposed, and
waits for the answer or 10 seconds. Raft is what these goroutines see of it: it
accepts or refuses, commits in any order or never, and delivers entries of other
servers, whose IDs count from 1 as well. Of the TCP transport it has the accept
loop, the connections made and accepted, and the counter that `Shutdown` waits
for, but no message. A panic, of which this part has two, ends the process: the
actions of every goroutine ask that it is `Alive`.

**`Cluster`** has the three modes. In `sentinel` and `master_slave` one goroutine
probes each node in turn and fails over in two steps (swap the master, then
change the list); in `shard` the nodes' flags change by concurrent probes. One
caller is followed flag by flag through `pickSlave` and the tests that `Get` and
`node` make of its choice, the two passes of `pickNode`, and `Len`. A lost link
stays lost, as the client never dials again.

**`Mbr`** is the decision loop (sample, ring buffer, score, event) and the
migration executor (Resize, watch, pause under load, force), which meet in a
bounded channel, in the flag `migrationActive` and in the cache. The loop of
`Execute` tests whether the rehash runs (`Watch`), and then waits for a tick or the
end of the context (`Tick`, `Abandon`), before which the rehash may have ended.
`origin` remembers whose rehash is under way. The scorecard is there in full, in
integer units.

`RaftProofs`, `CacheProofs`, `CacheMigration`, `CacheAlone`, `RpcProofs`,
`ServerProofs`, `ClusterProofs` and `MbrProofs` hold proofs. The `MC` modules
give the constants of each run. Definitions named `Mut_...` are plausible bugs,
one for each property of a passing run, which TLC finds when they replace the
definition they are named after.

## Runs that pass

| Run | Instance | Distinct states | Shows |
|---|---|---|---|
| `raft_election` | 3 nodes, 3 candidacies, 2 heartbeat calls | 706,528 | one leader per term, and why (`ElectionInv`); each node has the timer of its role |
| `raft_log` | 3 nodes, 2 candidacies, 2 entries, 4 append calls | 451,635 | Log Matching; entries are applied once and in order; `nextIndex` stays above 0 (`TypeOK`) |
| `shard_evict` | 4 keys, room for 2, 3 policies with hot swaps | 104,236 | policy and entries agree; the capacity is restored; LFU evicts a least frequent key |
| `shard_walks` | 2 goroutines, 2 sub-shards, expiry | 439,164 | no walk or lazy deletion collects a live entry |
| `cache_alone` | 1 goroutine, 3 keys, 2 Resizes | 124,320 | refinement of `KVMap`, and every migration ends |
| `cache_readers` | 2 readers, 3 keys, Resize, swap, Close | 358,890 | racing `Step`s lose no entry and report the end once; nothing panics before Close |
| `remote` | 5 families of calls, 2 keys and the empty one, 3 roles of the server | 256,992 | a remote call does and answers what the local one does; a failed call changes nothing, and only "raft apply timeout" leaves anything to be applied later; a follower refuses writes; EXISTS, TYPE and KEYS agree on every key, GET and TTL on the string keys; HINCRBY is undone across overflow; LTRIM keeps what LRANGE shows |
| `rpc` | 2 callers (one with pipelines), 1 connection, 3 channels, 3 buffers, 3 faults | 112,674 | each pooled channel has one owner; an answer goes astray only after its caller gave up; every call returns |
| `cluster` | 3 nodes of weights 1, 2, 1, one of them flaky, 3 modes | 912,676 | failovers keep every node and are justified; Close reaches all; routing follows the weights; reads fall back to the master only for a reason; in the end the master has its links, or Close has returned |
| `mbr` | 2 samples, ring of 3, channel of 2, 2 resizes | 763,520 | `GetRecent` is the history; a MIGRATE event was confirmed; progress and flag tell the truth of a migration until it is cancelled; `Execute` returns |
| `server` | 2 connections, limits 1 and 2, 2 requests, 1 foreign entry; or 1 peer | 281,938 | no handler gets the answer of another; `raftPending` leaks nothing; the apply goroutine never blocks; nothing runs after Close; requests and Close end |

*Bounds.* Three nodes are the smallest cluster in which two majorities share one
node only; three candidacies let a node vote, move on and be a candidate again.
Two entries and four calls allow an overtaken call and a change of leader. Four
keys over a capacity of two let a sub-shard be over capacity by two. Three keys,
of which two share a shard in each table, make a shard take several Steps. In
`remote` indices and counts lie on both sides of the ends of a list of two to
four, int64 is -32768 .. 32767, eight cells in base 4, and a millisecond has two
ticks, so that a TTL can be half of one; one entry may be late. In `rpc` a channel
that was given up can reach its next owner while an old answer is on its way. In
`server` two requests on two connections let an ID be refused, time out and be
delivered late. Three cluster nodes leave a replica after a failover, and a
counter of size 4 wraps at a number that three does not divide. The ring of `mbr`
wraps within the history that is compared. Bounds are constants named `Max...` in
guards, and are not in the actions that fairness speaks of. `CHECK_DEADLOCK FALSE`
is set where a run reaches a bound with nothing left to do, or where `Close` or a
panic stops it.

*Restrictions.* `cache_readers` uses `QuietResizeSpec`, in which a Resize begins
when no call is under way, as in the tests. `cache_alone` has one goroutine. Both
are needed: see the counterexamples below. `shard_evict` and `cache_readers` reach
panics of the code too and stop there; so does `server`, which has clients or a
peer and not both: before `Close` has waited for the clients the two share nothing
but the process. `RemoteAsLocal` is about arguments whose lengths fit their fields
and whose bytes survive JSON, and its comment lists what the code excepts.
`KeyViewsAgree` is about the keyspace between two calls. `StrayOnlyAfterGivingUp`
says nothing once a pipeline has put its buffers back twice.

*Fairness.*

- `cache_alone`: weak fairness of `Next`. The one goroutine keeps running and its
  caller keeps calling, the loop that `docs/core-cache.md` recommends after a
  Resize; no background task does it.
- `rpc`: weak fairness of each caller inside a method. The call's own timer makes
  it return, so nothing is asked of the network, the server or `readLoop`. The
  timer is the default; with `readTimeout` 0 the code arms none.
- `cluster`: weak fairness of the health goroutine and of time, and strong
  fairness of `Stop`: a `select` with its ticker and `stopCh` both ready picks
  either at random. `MasterServes` also assumes that a node which answers every
  probe lasts.
- `mbr`: weak fairness of the executor and of the passing of `MaxMigrationTime`.
- `server`: weak fairness of the accept loops, the apply goroutine, Close and each
  handler, whose 10-second timer fires. Raft, the clients and the peers may do
  nothing; `gracefulTimeout` may never end a wait.

`TypeOK` is a property of `raft_log`. In the other state machines it documents the
state and is not among the properties of a run.

## A run that ends in a violation

`raft_consistency`: an overtaken AppendEntries call cuts entries that were already
acknowledged (`raft/raft.go:288`), and two nodes apply different commands at one
index. The comment there says that only conflicting entries are cut; `PROJECT.json`
has the quotes.

## Other counterexamples

More configurations are kept than there are runs. TLC ends each with a trace. The
first four reproduce what restricts the passing runs or their properties:

| Configuration | Module | Property | What happens |
|---|---|---|---|
| `MCCacheLostUpdate.cfg` | `MCCache` | `AckedWritesVisible` | a migrating entry overwrites a Set that has returned (`rehash/incremental.go:54`) |
| `MCCacheWindow.cfg` | `MCCache` | `AckedWritesVisible` | a Set between `Start` and the store of the table deletes what it wrote (`cache.go:190`) |
| `MCShardNilSlot.cfg` | `MCShard` | `NoNilSubShard` | `ExtractN` walks over sub-shards a small shard does not have (`shard.go:217`) |
| `MCServerPeers.cfg` | `MCServer` | `CounterBalanced` | `connectToPeer` calls `handleConn` without `wg.Add` (`net/raft_transport.go:299`): when connections to peers end, the counter gets below zero and the process panics |

The others check what a comment or a document says and the code does not do:

| Configuration | Module | Property | Words | What happens |
|---|---|---|---|---|
| `MCRemoteZeroTTL.cfg` | `MCRemote` | `ZeroIsDefault` | "0 = use default" (`cache.go:229`), "milliseconds, 0 = default" (`net/protocol.go:151`), `docs/core-cache.md:182` | a Set with TTL 0 stores an entry that never expires; only a Set without a TTL uses the default |
| `MCRemoteShortTTL.cfg` | `MCRemote` | `TTLIsUsed` | `docs/core-cache.md:183`, a positive TTL is the one used | `net/client.go:177` divides by a millisecond: a shorter TTL is sent as 0, and the entry never expires |
| `MCRemoteTypedTTL.cfg` | `MCRemote` | `TTLKnowsKeys` | "-2 if key doesn't exist" (`cache_ext.go:410`); `docs/core-cache.md:144-147` shows a TTL of 3598 on a hash | TTL and Expire look into the map of the strings only: a set, hash or list has TTL -2 and cannot expire |
| `MCClusterRing.cfg` | `MCCluster` | `KeysStayPut` | "using consistent hashing" (`cluster/shard_mode.go:10`), `docs/cluster.md:65,81-82` | `pickNode` reduces the hash modulo the weight of the healthy nodes: when one fails, keys of nodes that stay healthy move too |
| `MCMbrDocument.cfg` | `MCMbr` | `MigrateAsDocumented` | `docs/mbr.md:165-179,216`: three windows above 0.7, and a factor of 0.4 under false pressure | the code has 0.55 and 0.6 (`mbr/scorecard.go:27,33`), and migrates on the current window alone, above 0.65, until three exist |
| `MCMbrPaused.cfg` | `MCMbr` | `ForcedWhenOverdue` | `docs/mbr.md:248`: a migration over its maximum duration is finished by `forceComplete` | `waitResume` does not look at `MaxMigrationTime`: under lasting load the migration is paused for ever |
| `MCServerClose.cfg` | `MCServer` | `CloseReturns` | "Close gracefully shuts down the server" (`net/server.go:333`) | `Close` of a replicated server shuts the transport down a second time (line 370), and closing its channel again panics; or it waits in the first `Shutdown` for connections of peers, which nobody closes (`net/raft_transport.go:169`) |

All of these are counterexamples of the models; they were not reproduced by
running the Go code. Seen while modelling, without a run:

- LFU may evict the key that is being set. `bump` looks for the smallest
  frequency while the key is in no bucket, so `minFreq` can be too large
  (`lfu.go:104`); `OnAdd` resets it before an eviction.
- Overlapping `SetEvictionPolicy` calls can leave a policy other than the one
  reported (`cache.go:112`). A batch `Step` that gets to its end late reports
  `justCompleted` again (`rehash/batch.go:62`). A call validated before `Close`
  indexes the empty table after it. A rehash does not move sets, hashes and lists.
- A pipeline's cleanup puts back buffers that were put back already
  (`net/pipeline.go:202`). Counts of 65,536 or more wrap in the formats' uint16.
- Expire, PExpire, ExpireAt, PExpireAt, Persist, BLPop and BRPop are not in
  `isRaftWriteOp`, so a follower executes them locally. SPop draws its member
  when the entry is applied, on each replica. JSON replaces bytes that are not
  UTF-8 and omits empty values.
- A client whose write ends with "raft apply timeout" is told that it failed,
  while the entry stays in the log and may be applied later (`net/raft_cmd.go:88`).
  For the set commands the text of no error is sent, so it cannot be told from
  others (`EncodeSetResponse`).
- An entry that another server proposed wakes a waiter with the same ID: IDs are
  counted per server (`net/raft_cmd.go:99`). `AnswerIsOwn` excepts it. A candidate
  still names the leader it has given up (`raft/raft.go:200`).
- A failover swaps the master before it changes the list, nothing replicates
  between the nodes, and a caller that had loaded the old master still writes to it.
- An `Execute` whose context ends leaves its progress RUNNING or PAUSED
  (`mbr/migrator.go:154`), and one may pause for a rehash that ended while it waited
  for the tick. `nextPowerOfTwo` may round the target above `MaxShards`; Decide and
  `recomputeScore` rate a window under false pressure differently; a ring with fewer
  than three places never confirms.

## Proofs

All theorems hold for every value of the constants that the named `ASSUME` of the
module allows; TLC evaluates each of them in a run.

**Raft** (`RaftProofs`, from `RaftAssumption`): `TypeCorrect` (`[]TypeOK`; in
particular `nextIndex` never gets to 0, where the code's `uint64` would wrap),
`VotingSound` (`[]ElectionInv`) and `OneLeaderPerTerm` (`[]ElectionSafety`), for
any set of nodes. `ElectionSafety` is not inductive, since the code counts votes
with a bare integer. `ElectionInv` adds what makes the counter right: a node
casts one ballot per term and remembers it (`BallotsCastOnce`); a peer is called
once per candidacy and a granting answer stands for a ballot (`OneCallPerVote`);
so the counter is the number of distinct voters (`CounterCountsVoters`), and each
leader had a majority (`ElectedByMajority`). Two majorities share a voter, who
cast one ballot.

`RolesSound` and `RightTimers` (`[]TimersArmed`) rest on `LeadershipInv`: a leader
was elected in its term and is not a candidate in it again, AppendEntries calls
come from leaders and go to others, and a node that campaigns or leads has voted
for itself. `LogsMatch` (`[]LogMatching`) is not inductive, because entries are
also in calls on their way. `LogInv` speaks of *links*: an entry with the term of
the entry before it, in a log or in a call. An index and a term name one link
(`LinksSound`), since the leader of a term is one node and its log reaches over
all entries of that term; two logs that agree at an index then agree below it,
index by index. `AppliesInOrder` (`[]AppliedOnceInOrder`) needs `AppliedInv`: what
is committed has been applied, although `handleAppendEntries` can move a commit
index back. The theorems are about nodes that do not restart: one that forgets
its vote breaks `BallotsCastOnce`.

**Cache** (`CacheProofs`, `CacheMigration`, `CacheAlone`, from `CacheAssumption`),
for any number of goroutines, keys, shards and Resizes. `CacheProofs` has the
invariants and that every step keeps them; `CacheMigration` adds the one about
entries and has the first three theorems, `CacheAlone` the refinement. The few
facts they need on `Cardinality` are carried in the types (`Counted`), and
`CountedFact`, at the end, proves these from the library. `RpcProofs` does the same.

- `ReportsOnce` (`[]CompletedOnce`): `DoneInv` counts the migrations reported as
  ended, and one more while the rehasher runs, against the tables that Resize
  has replaced. It assumes that the batch rehasher is not used, and no more: any
  calls may overlap any Resize. A batch `Step` that gets to its end late does
  report again.
- `IndexesInRange` (`[]PanicsOnlyAfterClose`), under `QuietResizeSpec`: `StepsInv`
  says that nobody else is in a call while Resize stores its table, so that until
  Close the table a `Step` has loaded is the current one.
- `ReadersLoseNothing` (`MigrationKeepsEntries`, an action property), under
  `QuietResizeSpec`, for goroutines that neither Set nor Del, with every rehasher:
  `CarryInv` says that each copy of an entry, in a table or in the hands of a
  `Step`, has the acknowledged value, that the shards a migration has passed are
  empty, and that the old table is not the current one. So a `Step` may end a
  migration only when nothing is left behind. Both restrictions are needed: the
  counterexamples above break one each.
- `AloneRefinesMap` (`ImplementsKVMap`), for one goroutine that calls Get, Set, Del
  and Resize, with a rehasher that migrates. The map is what is seen of the two
  tables and of the entries on their way (`View`), so a step must not change which
  of them comes first. `AloneInv` says why none does: a key is in one of these
  places only, save while a Set replaces it (`Entries`); it is in the shard that
  its hash names in each table (`Placed`), so that a call looks where it is; the
  shards a migration has passed are empty (`Cleared`), so that nothing is lost when
  it ends; and the call goes by the table and the migration in force (`Settled`).
  Each action then is one step of `KVMap`, a Get or a write when it has found its
  place, or none. `noop` is left out because it leaves the entries behind.

**Rpc** (`RpcProofs`, from `RpcAssumption`), for any number of
goroutines, connections, channels, buffers and streams. `ChannelsHaveOneOwner`
(`[]ChannelsOwned`) needs that an entry of a `pendingMap` goes with the call that
stored it, and that a call has as many channels as streams (`Shape`, `OwnInv`).
`StraysExplained` (`[]StrayOnlyAfterGivingUp`) follows an answer from the buffer
to the caller: stream ids are never reused (`IdsInv`); a buffer has one owner
between `getBuf` and `putBuf` and holds that owner's request (`BufsInv`); an answer
is in one place only, on the wire, in the hands of `readLoop` or arrived
(`SentInv`); and what is in a channel, or on its way there, is an error, the
answer of the stream that owns the channel, or one whose caller gave up
(`DeliveryInv`). As in the property, the last three hold until a pipeline has
put its buffers back twice.

**Server** (`ServerProofs`): `AnswersOwn`, `NothingLeaks` and `ApplierNeverStuck`,
for any number of connections and requests. They follow from one inductive
invariant, `RequestInv`: two handlers never hold one ID, and an ID in `pending`
has a handler inside `raftPropose` (`IDs`); the channel of a pending ID, and the
one the applier is about to send on, are empty, and the applier's ID has left
`pending` (`Channels`); an entry under a handler's ID that is on its way to it is
that handler's own, or one of another server, whose ID may be the same
(`Deliveries`, with `Rightful`). `ClosesQuietly` (`[]QuietAfterClose`) needs
`QuietInv`: once `Close` has waited, the accept loop can start one more handler
only, that of the connection it already holds.

**Cluster** (`ClusterProofs`): `NodesKept`, `CloseComplete` and `FailoverSound`,
for any configuration and time-out. `NodesInv` says where each node is at each
place of the goroutine, in particular between the two steps of a failover, and
that a closed manager's goroutine has stopped; `ClockInv` that the code's `since`
never runs ahead of the time without a good answer, which is what makes the test
against `FailoverTimeout` mean what it should. `FallbacksExplained`
(`[]FallbackExplained`) is about `pickSlave`, for any number of replicas and any
size of the counter: `ReadInv` says that a read which alone advanced the counter,
and did not see it wrap unevenly, has tried as many different slots as it took
turns, none of them with a replica that was healthy throughout; after a full round
no such replica is left. `PickedInv` covers the second load of the flag in `Get`:
a replica that was picked and then refused has gone down. `RoutesSound`
(`[]RoutesByWeight`) is about `pickNode`, for any nodes, weights and hashes and
any probes between its reads of the flags: `RouteInv` says that the first pass has
summed the weights of a set of places (`SumInv`), and that the second has added up
no less than those it has passed weigh, unless a node went down (`WalkInv`). While
no flag has changed the set is that of the healthy places, and as long as none
went down it has every node that stayed healthy. The weights are counted as
virtual nodes, a disjoint union of intervals, which needs no recursion.

**Mbr** (`MbrProofs`): `ProgressSound` (`[]ProgressHonest`) from `FlagsInv`, which
adds which progress states go with which place in `Execute`, and which rehash can
be its own there; `RecentCorrect` from `RingInv`,
which says in which slots the last three windows are, before and after the ring
is full, for every capacity; `MigrateSound`, for a capacity above
`consecutiveWindows`, from the same invariant; `PastNeverInflated` and
`BusyNeverMigrates`, which are facts about the scoring formulas for all features.

Only model-checked:

- Liveness, which is out of the prover's reach: `MigrationEnds`, `CallReturns`,
  `MasterServes`, `ExecuteReturns`, `RequestReturns` and `CloseEnds`.
- The properties of `Shard`. Evicting down to the capacity, collecting what has
  expired and rebuilding a policy are folds over sets of keys, and what a fold
  computes for every set takes induction over data, which the installed provers
  cannot do.
- The properties of `Remote`: data types and codecs are defined by recursion over
  data and folds.

## Not modelled

- **Calls of Raft over TCP.** `sendRPC` and the read loop read the same connection without
  a lock, so which of them gets an answer, and whether its type fits, is not
  determined by the code, and no property of Raft could be stated above it. `Raft`
  is modelled above the in-memory transport, which pairs answers with calls. The
  transport's connections and its `Shutdown` are in `Server`, without messages.
- Reads of Raft's role and term by other goroutines, which race with the event
  loop: `Propose` reads the role atomically. Restarts: nothing is persisted, and
  there is no recovery to model.
- Interleaving inside a command on typed keys (four locks), and the locks of sets
  in SINTER and SDIFF: `Keyspace` takes a command as one step. Migration of a table
  with typed keys. A `Stop` of the rehasher in the middle of its `Start`.
- A read deadline in the middle of a frame; statistics; `writeLoop` and the worker
  pool of the server, to which nothing sends.
- Wrappers that route as the modelled methods do and delegate: `cluster_ext.go`,
  the SDK.
- The PID controller of `mbr`, whose output the scorecard does not read, and how the
  collector turns counters into rates; both are floating-point formulas without
  control. Samples are inputs of `Mbr`.
- Reading `/proc` (monitor), logging, metrics, heartbeats and alerts
  (infrastructure), the command line, and the builders and YAML of the options:
  pure input and output, on which no modelled part depends.
- The hazards with a note in `PROJECT.json`.
