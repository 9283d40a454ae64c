# DiceDB in TLA+

Models of the DiceDB server of this repository (the IronHawk engine): the shard
store with its expiry and eviction, the commands on it, the write-ahead log,
the query subscriptions and the server's goroutines from start to exit; of the
data types and evaluators of `internal/eval`; and of the dashboard's cluster
service. TLC checks them on small instances, TLAPS proves every safety property
of them, and the refinement of an abstract cache, for every instance.

Run TLC with `tlc -config X.cfg M`, the proofs with `tlapm M.tla`.
`PROJECT.json` lists runs, mutants, source lines per definition, findings,
hazards and theorems.

## The system

| component | state | operations | interacts with |
|---|---|---|---|
| shard store (`internal/store`) | `store`: key to object, `expires`: object to deadline, `numKeys`, the length counter of the map | put, get, delete, expiry, eviction | called by commands and by the ticker of the shard thread |
| commands (`internal/cmd`) | none | one evaluator per command | IO threads run them on the shard of the key |
| shard thread (`internal/shardthread`) | a ticker | deletes expired keys every second | shares the store with the IO threads, with no lock |
| write-ahead log (`internal/wal`) | segment files, write buffer, current index and size | log, rotate by size or time, sync by ticker, replay | IO threads log after executing; the server replays on start |
| IO thread (`internal/server/ironhawk`) | one connection, its client id and mode | execute, log, answer, subscribe, notify | starts two goroutines per request |
| watch manager (same package) | four maps under one read-write lock | register, subscribe, clean up, notify | called by those goroutines and by the end of a connection |
| server (`server/main.go`, `ironhawk/main.go`, `internal/shardmanager`) | context, signal channels, wait groups | start, replay, accept, shut down | owns the others |
| data types (`internal/eval`, `internal/types`) | deques, count-min sketches, Bloom filters, sorted sets (two kinds), hashes, sets, HyperLogLogs | the evaluators of `store_eval.go`, the ZADD family of `internal/cmd`, DUMP, RESTORE, COPY | objects of the shard store |
| dashboard cluster (`dice-dashboard/services`) | a store, a table of nodes, counters, logs | SET, DELETE, fail, recover, inject latency, clear; a heartbeat ticker | handlers and ticker share one mutex |

Hard behaviours: the expires map is keyed by pointer, so overwriting is
delicate; two counters are kept by hand; every IO thread and the ticker use the
store unlocked; log entries tear at buffer boundaries; restarts reuse segment
0; the goroutines of a request run in any order; execution and logging are
separate steps; a deque's entries live in gaps and spare capacity of several
buffers; commands with many arguments fail midway; shutdown is a chain through
every goroutine. `PROJECT.json` lists the hazards at their lines, with the
properties aimed at each.

What makes the components correct:

* store: clients see a map whose keys vanish at their deadline; no expiry
  outlives its object; both counters are safe to act upon; eviction drops the
  oldest keys and only when the shard is full.
* log: losses are suffixes, replay is in order and complete up to them, what is
  logged reaches the disk.
* subscriptions: a subscriber can always be served, gets every change or a
  newer one, ends with the current value, and stops when it asks to.
* server: what was answered was logged, and a replay gives the same values; the
  log outlives its writers; a signal ends everything.
* data types: every answer agrees with what the object was told, however it is
  represented, as long as numbers stay within what their types hold; the parts
  of a representation stay in step; a command that fails changes nothing it
  does not have to.
* cluster: counters, rows and scores tell the same story; a failed node takes
  no part.

## Modules

| module | models |
|---|---|
| `CmdArgs` | values, arguments and replies of the commands, shared by code and specification |
| `StoreOps` | the store as a record and its methods as operators on it |
| `Keyspace` | one shard: every string, hash and key command, the clock, the ticker |
| `TTLCache` | the abstract specification: a map of live entries |
| `KeyspaceProofs` | inductive invariant of `Keyspace`; `Keyspace` implements `TTLCache`; eviction takes the oldest |
| `WalForge` | the log across crashes, shutdowns and restarts |
| `WalForgeProofs` | inductive invariant of `WalForge` |
| `Watch` | connections, their goroutines, the watch manager |
| `WatchProofs` | inductive invariant of `Watch` |
| `Server` | goroutines, IO threads on a shared store, the log, start to exit |
| `ServerProofs` | inductive invariant of `Server` |
| `TypedStore` | what the evaluators share: keys, types, replies, ghosts |
| `Deque`, `Lists` | the two deques of `deque.go`; the list evaluators |
| `Sketches` | count-min sketches and Bloom filters with their evaluators |
| `SortedSets` | `sortedset.Set` with its evaluators, `types.SortedSet` with the commands of `internal/cmd` |
| `Collections` | hashes, sets and HyperLogLogs with their evaluators |
| `DataTypes` | the five above on one shard, with DUMP, RESTORE, COPY and DEL |
| `DequeProofs` | what the operations of both deques do to the elements they hold |
| `DataTypesProofs` | inductive invariant of `DataTypes` |
| `Cluster` | the dashboard's cluster service |
| `ClusterProofs` | inductive invariant of `Cluster` |
| `Induction` | induction, recursion and enumeration over naturals and finite sets, for the proofs |
| `MCKeyspace`, `MCWalForge`, `MCWatch`, `MCServer`, `MCDataTypes`, `MCCluster` | instances for TLC |

`Keyspace`. `db` is the store; `db.heap` holds the objects, so aliasing and
leaks are visible. An object no map refers to is collected at the end of a
step. A command is one step at one instant, with its lazy deletion and its
eviction inside. `reply` is the reply of the last command; `NilVal` also stands
for the empty string GET sends for a missing key. Floats keep the six decimals
`%f` keeps. Arithmetic wraps at `IntMax`. Ties between equally old victims are
left open. Arguments are taken after parsing, so errors of syntax and arity are
left out.

`TTLCache` says what a client may rely on: an entry is gone the instant its
deadline passes. It allows what the code really does with expired keys that are
still stored (KEYS may list them, DEL may count them) and lets a command that
adds a key drop others. It judges options by rules of its own: which deadlines
an option may stand for, which combinations contradict each other, which
condition NX, XX, GT and LT put on the old deadline. The code's rules are in
`Keyspace` (`ParamsRejected`, `DurationValid`, `ExpireAt`) and `StoreOps`
(`ShouldSetExpiry`). Where the code is known to depart from its help or
comments, the cache allows both, and each such case has a name:
`PermissiveExpiry` (XX beside GT or LT), `PermissiveRefusal` (KEEPTTL beside a
deadline; PX bounded by the number of seconds of a year), `SecondsFrom` (an
EXPIRE beyond int64 may set any deadline). The claims `GTOnlyExtends`,
`KeepTTLKeeps` and `ExpireLeavesTime` show the departures. The wrap of INCR is
what the tests of the repository expect and is the cache's too. The refinement
mapping is `LiveEntries`: keys that are stored and have not expired.

`WalForge`. A file is a sequence of units, an entry is a head and a body, so a
full buffer can leave a torn entry. Entries are numbered in the order
`LogCommand` took them. A flush survives the death of the process. `restored`
is what the last start replayed; a command that depends on the clock may be
refused on replay, which ends the replay as the code does. The comparator of
segment names is modelled by `SegmentKey`, what it does to names of one and two
digits.

`Watch`. `jobs` is the bag of goroutines. A request is two steps: execute and
start `HandleWatch`; register, answer and start `NotifyWatchers`. A
notification is two steps, running the command and sending, between which it
holds the read lock. A key's value is the number of SETs on it. GET stands for
the seven watchable commands. A connection does its HANDSHAKE first and waits
for an answer before its next request; a command the store refuses leaves no
trace here and is left out. `due`, `seen`, `last` and `unwatched` record what
the properties speak of.

`Server`. A command is split where it touches what other threads share: the
look-up, reading and writing an object's value, `numKeys` (read, then written
back), the map, the log. INCR and DEL stand for the commands that write, BAD
for one that is refused. `Key` is the set of keys of one shard; `Restored` are
the keys the replay restored before the first connection. The accept loop looks
at the context and then calls Accept, so a connection can still come in after
the context is cancelled, and a select may take a command instead of the
cancellation. `LogCommand` may fail, which the code only reports. A signal goes
to the channel of `Start` and to that of the shard manager; on a closed channel
it panics. `raced` are the keys two commands were at work on together, or whose
command was not logged. `ReplayMatches` says what survives without a lock, on
keys that are not `raced`. What does not survive is stated too, by three claims
that are refuted (see Findings): an INCR adds one, `numKeys` is the number of
keys, a replay of the log makes the keys the store has.

`TypedStore` and the modules on it. A command that reads is an operator on the
store, a command that writes an action; `reply` says whether it failed. An
evaluator that indexes out of range ends the process (`Crash`), as nothing
recovers it: the store is empty afterwards, and `reply` is `Panicked`. `ghost`
keeps beside an object what its commands were told: for a list a `DequeBasic`,
the flat deque of the same file, which is the reference for the chunked one;
for a sketch the true counts, for a filter the items, for a hash the exact
values and the state of a scan a client is making. `Deque` keeps the code's
encoding: encoding byte, data, reversed back length, node capacities and the
gap left of the head; only the pointers are abstracted. Its operators say what
a deque holds when they return, and `LPushPanics`, `RPushPanics`,
`LInsertPanics`, `LRangePanics` and `GapHead` when they do not. An argument is
a text: the element it spells, and its length when it is a numeral with zeros
or a plus sign in front (`padded`). `GetEncodeDeqEntrySize` sizes the number;
`Encoded` is what is written, a string from 21 characters on, and `Overruns`
says that it is more than was reserved. Hashes of items and seeds are
constants, so that collisions are chosen. Cells and counts of sketches are
reduced modulo `UintMod`, 2^64 in the code.

Scores of `types.SortedSet` are int64 and wrap around (`IntSum`). Those of
`sortedset.Set` are float64: their infinities, and the NaN that INCR can make
of two, are modelled (`FloatSum`); the rounding of sums in between is not. A
NaN compares with nothing, so inserting one may take the place of any other
member's item (`Hits` over-approximates which the tree compares it with). From
then on what the tree does depends on how it is balanced: `nan` is set, its
items are no longer followed (`Unknown`), a pop removes any members, and the
properties of the tree speak of sets without a NaN.

Values of hash fields count halves, to tell integers from floats and to have a
range where a float64 rounds. The ghost adds up exactly and forgets a field
once HINCRBYFLOAT makes a sum beyond what a float64 holds exactly (`MaxExact`).
A float of 10^6 or more is written with an exponent, which HINCRBY then refuses
to read: beyond `MaxPlain` HINCRBY may fail. Sets, HyperLogLogs and skip lists
are modelled by what they hold. Deadlines, eviction and counters of the store
are left to `Keyspace`.

`Cluster`. Node 0 is the master. SET and DELETE are two steps, the write of the
store and the replication, with the mutex held in between, because reads take
only the store's lock. Scores are computed with the code's truncating division.
`cleared` remembers the counters at the last ClearLogs.

## Runs

| run | shows | bounds |
|---|---|---|
| `expiry` | refinement of `TTLCache` with its own rules for options, no orphan expiry, expired keys are reclaimed | one key, every option and each kind of conflict, times 0 to 4 with two ticks per second, so that rounding matters |
| `values` | types, wrap-around, hashes; refinement | two keys, integers at the boundary, floats that round, one field |
| `evict` | counters, aliasing, bound, LRU | four keys on a shard of three |
| `wal_recovery` | losses are suffixes, order within a segment, no duplicate replay, first recovery is a prefix, durability | four entries, three segments, three starts; buffers of 5 and 3 units so entries tear; a segment takes three entries |
| `watch_notify` | maps in step, every change reaches its subscribers | two connections, two SETs, both kinds of disconnection of the watcher |
| `server` | replay gives the stored values of keys without overlaps, answers are logged, the log outlives the threads; shutdown and the end after a failed accept are reached | two clients, two keys of which one was restored, two commands, one signal, one shard thread |
| `types` | chunked deque against flat deque, its layout, sketches, filters, tree against map, ranks, counters, scans, clean errors | see below |
| `cluster` | counters add up, offline nodes are not healthy, failed nodes stay out | two replicas as in the code, one key, two commands, one heartbeat, four calls of fault handlers, latencies 100 and -300, logs of two rows and trends of two points |
| `wal_reopen` | violation: replay out of order after the second restart | |
| `watch_getanswer` | violation: a plain GET may never be answered | |
| `watch_lastsent` | violation: the last value sent may be the older one | |
| `watch_unwatch` | violation: UNWATCH does not unsubscribe | |

Larger bounds add no new cases: one key suffices where keys do not interact;
eviction needs one key more than fit, and a tie; a third start is the first
that can see segments of two earlier runs; two SETs are the fewest that can be
reordered. Two commands are the fewest that overlap; a restored and a missing
key make INCR take both its paths, and the one signal meets the channel empty,
and closed when accepting failed before. The log, watch and server runs do not
check deadlock: a server may stay down or exit, every connection may be closed,
and the bounds stop the rest.

`types`. Lists of up to four elements in nodes of at least 4 bytes, buffers of
at most 12, elements of two and of seven bytes, varints to base 4: nodes
overflow, gaps are too small for an element and wider than a node, a back
length takes two bytes, LINSERT splits every kind of node; numerals of 3
characters are encoded as numbers and those of 21 as strings. Sketches of two
rows and of two widths have cells that items share in one row only; cells wrap
at `UintMod` 4, and true counts may add up to 5, so that wrapped sketches are
reached. Three members, two finite scores and both infinities give ties,
overflowing sums (`MaxScore` 2) and NaN; three fields give a scan in several
calls. `MaxInt` is 4 halves, so that two increments reach the upper end and
four pass the lower; a float64 is exact up to 3 halves and is written plainly
up to 2. Two keys hold objects at once only for the types whose commands take
two keys (CMS.MERGE, PFMERGE, COPY, RESTORE); the keys are symmetric.

`cluster`. An injected latency of 100 moves a node one class down, -300 lifts
an offline node to Healthy; four calls are enough to fail, slow, clear and
recover one node around a heartbeat and two commands; the logs overflow.

Fairness. `Keyspace`: the ticker fires as long as its shard lives (weak
fairness of `DeleteExpiredKeys`). `WalForge`: the same for the sync ticker.
`Watch`: the Go scheduler runs every goroutine (weak fairness of running and
sending); whoever needs the write lock gets it, since `sync.RWMutex` lets no
new reader in while a writer waits (strong fairness of `Respond` and
`HandleWatch`). `Server`: weak fairness of every goroutine: the one that waits
for the signal, `Start`, the shard manager, `Run`, the accept loop (whose
socket does not block, so that Accept returns), each shard thread, each step of
an IO thread that has received a command, and the select of an IO thread once
the context is cancelled. Clients, signals and failures have no fairness.

`watch_notify` lets only the watcher's connection break. If the writer's
connection may break too (`Breakable = {t1}`), `NotifiedEventually` fails:
`IOThread.Start` returns when the answer cannot be sent, before it notifies.

## Proofs

`KeyspaceProofs`. `IndInv` is the conjunction `Consistent(db)` of shape
(`StoreType`, `NoDangling`), injectivity, no orphan expiry, exact and bounded
key count and covering length, with the types of clock and reply. The parts
need each other: deleting a key removes the expiry of its object, which keeps
another key's expiry only if objects are not shared; the bound on keys follows
only if the counter that triggers eviction is exact. One lemma per store method
shows it preserves `Consistent`, one per command applies them, `NextInv`
collects them and the theorems follow. Assumptions: keys are a finite set, the
limit is positive, `Nil` and `NoExpiry` are not objects or numbers.

The refinement of `TTLCache`, in the same module, goes through `View(s, t)`,
the map a client sees of the store `s` at time `t`. `RequestLaw`, `OptionLaw`
and `SecondsLaw` say that the code's rules for options are within the cache's.
One lemma says what each method of the store does to the view (a lazy deletion,
the ticker and a passing deadline do nothing to it that the cache does not do
itself), one per command maps the command to the command of the cache, and
initial states and steps follow. `EvictsOldest` adds that the victims of a full
shard are no younger than what stays. Both rest on `IndInv`.

`WatchProofs`. `IndInv` is `TypeOK` with `SubscriptionReachable`: whoever is
listed under a fingerprint has the fingerprint under its key, a command to run
and a thread. It holds for any assignment of client ids to connections, shared
ones included. The lemmas on bags give the types of the goroutines.

`ServerProofs`. Any number of connections, keys, commands and restored keys.
The invariant has the types with what an IO thread holds at each of its steps;
`ShutdownInv`, the order in which the goroutines end; `ObjectInv`, which object
a thread works on; `AloneInv`, what a thread knows that is alone on its key;
and `ReplayInv` on top of them. `ReplayMatches` needs the value a thread has
read and not yet written or logged, so `ReplayInv` says for each step how far
table and log are apart. A replay is a recursive function over the log:
appending a record to the log applies it to the replayed table.

`WalForgeProofs`. Any sizes of buffer and segment, any number of entries and
runs. The argument is about `Flows`, each segment with the buffer that is going
to be written to it: flushing and rotating leave it as it is, `LogCommand`
appends to it and a crash cuts it back to the files. `WalInv` says that `Flows`
is in order and has no unit twice, that the buffer is newer than anything
written and belongs to the running server, that no entry of the running server
is out of `Flows`, and how the first run laid its segments.

`ClusterProofs`. Any number of replicas and keys, any latencies. `ClusterInv`
has `NodesSafe` (the score is that of the status), `Tally` (a log row is
counted where it is appended, and a client's reversed rows are as many),
`KeysShown` (the number of keys shown while no command is under way) and
`FailureBound` (how often a node can have failed), which keeps the score's
arithmetic in range.

`DataTypesProofs`. `DataInv` says of every key what its type needs: `IsFilter`,
`AnySets`, `IsSketch`, `IsHash` with `ScanState`, `IsList`. Every command is
shown to be an `Outcome`: it ends the process, or it replaces one key's object
and ghost by others that satisfy the invariant, and an error leaves the object
or one of the residues of `Residue`. The commands fold over their arguments, so
`FoldLeftLaw` first shows that `FoldLeft`, a recursion over the sets of
positions, goes step by step; what each step keeps the fold keeps. For a
sketch, an increment adds the same to one cell of each row and to the count; a
merge is the exchange of the order of two sums, over sources and over cells
(`SumOfTotals`), which also covers a sketch merged into itself. This is said of
a sketch that does not wrap (`IsExact`), of which the one in the store is what
is left modulo 2^64 (`Modular`): a sum of rests has the rest of the sum
(`SumWraps`). For a scan the invariant is that what is still owed has a rank at
or after the cursor; a field added meanwhile only raises ranks, and a deletion
in the part passed ends `clean`. `TreeMatchesMap` is kept by `CappedSets`, the
part of `AnySets` without a NaN: tree and map are two images of one function,
whose scores are none above infinity. `RanksAgree` follows because the list
that every answer is read from is an increasing enumeration of that function
(`Listing`), so that an item's position is the number of items before it; the
bound on scores is needed for the ranges and counts up to `MaxScore` and to
infinity.

`DequeProofs`. `ListsAgree` and `DequeLayout` follow from one relation:
`HoldsElems(q, xs)`, the chunked deque `q` holds the elements `xs`, whose
layout `Laid(q, B, g)` says how `xs` is cut into one sequence per node behind a
gap. The round trip comes first: an entry's length can be read off its first
byte and off its back length, whose digits add up to the length again, for any
base of the varints (`Bytes`, `BackLen`). Then one lemma per operation, with a
case for every place an entry can go to or come from: LPush into the gap,
before a whole head or into a new node; RPush into spare capacity or a new
node; LINSERT at an end, inside a node, or by splitting one; pops that empty a
node, RESTORE with other capacities. `B` without empty parts would not be
inductive: a pop from the right can leave a head that is all gap, which
`GapFirst` adds, and RESTORE takes away the spare capacity at its right, so
that RPUSH leaves a `GapHead`: its elements are those of the nodes behind the
head, which pushes and RPOP still handle and reads from the left do not. The
lemmas are about operations that return. `IsBasic(g, xs)` is the same for the
flat deque, so both answer LRANGE from the same `xs`, for every pair of indexes
(`RangesAgree`).

`Induction` states induction over naturals and finite sets with a set in the
place of a predicate, which the provers can instantiate, and from it that
functions defined by recursion exist and are unique, that a finite set in an
order has one increasing enumeration, and that an element's position in it is
the number of elements below.

Assumptions on constants, all named and evaluated by TLC: keys, fields, items
and shards are finite; limits that the code divides by or compares a size with
are positive; a segment or buffer takes at least one entry, and segment names
have at most two digits (as far as `SegmentKey` compares them); markers such as
`Nil` and `NoExpiry` are none of the values they stand beside, and `NaN` is no
integer; scores are integers up to `MaxScore`, members, fields and increments
integers; hashes are naturals, `UintMod` is positive; the first filter size is
not zero, as in the configuration the code creates filters with. An element of
a list is an integer or a string with a length; its encoding is shorter than
five digits of a varint can say (an entry says the length of its string in 32
bits).

One assumption excludes inputs the program accepts: `ElemAssumption` keeps out
elements whose encoding has one of the lengths `VarintRange[n] - 1` for n in 2
to 4 (16383, 2097151 and 268435455 bytes in the code). `GetEncodeUIntSize`
takes one byte more for the back length of those than the encoder writes, so
what `ListsAgree` and `DequeLayout` say is neither checked nor proved of lists
that hold one.

Model-checked only: liveness, since fairness and ENABLED are out of the
provers' reach. Every other property of the passing runs is stated by a
theorem.

## Findings and observations

The four violation runs are findings, quoted in `PROJECT.json`.

Twelve more claims of comments and docs are stated in the modules, although the
code does not keep them. They are not among the runs; each has a configuration
of its own, `MC<module>_<name>.cfg`, under which TLC refutes it within a minute.

| configuration | claim | made at | what the code does |
|---|---|---|---|
| `MCKeyspace_gt` | `GTOnlyExtends` | `store/expire.go:55` | `EXPIRE k 1 XX GT` brings the deadline forward: XX raises the flag and GT leaves it up (`expire.go:100`) |
| `MCKeyspace_keepttl` | `KeepTTLKeeps` | `cmd/cmd_set.go:40` | KEEPTTL beside EX is a syntax error (`cmd_set.go:134`) |
| `MCKeyspace_far` | `ExpireLeavesTime` | `cmd/cmd_expire.go:21` | a large number of seconds wraps into the past (`cmd_expire.go:91`) |
| `MCServer_increment` | `IncrementsByOne` | `cmd/cmd_incr.go:18` | of two INCRs that overlap one is lost: the store has no lock (`cmd_incrby.go:105`) |
| `MCServer_keycount` | `KeyCountIsKeys` | `store/batchevictionlru.go:62` | two commands that make one key at the same time count it twice (`store.go:148`) |
| `MCServer_replayorder` | `ReplayRestoresKeys` | `src/server/main.go:130` | an INCR and a DEL are executed in one order and logged in the other (`iothread.go:125`) |
| `MCDataTypes_rpush` | `RPushAnswers` | `eval/deque.go:743` | a numeral of 21 characters is sized as a number and written as a string: a panic (`deque.go:744`) |
| `MCDataTypes_lpush` | `LPushAnswers` | `eval/store_eval.go:2437` | a push behind a gap wider than a node and narrower than the entry panics (`deque.go:261`) |
| `MCDataTypes_lrange` | `LRangeAnswers` | `docs/src/_skipped_commands/LRANGE.md:40` | a list emptied from the right, restored and pushed to panics (`deque.go:977`) |
| `MCDataTypes_increases` | `IncrByIncreases` | `eval/countminsketch.go:455` | an increment of 2^64-1 lowers the count (`countminsketch.go:155`) |
| `MCDataTypes_keepsothers` | `ZADDKeepsOthers` | `eval/store_eval.go:275` | ZADD INCR of `-inf` on `inf` stores NaN, which takes another member's item (`store_eval.go:383`) |
| `MCDataTypes_zrank` | `RanksFromZero` | `cmd/cmd_zrank.go:69` | the command ZRANK counts from 1, as its help says (`cmd_zrank.go:22`) |

What else was met on the way, some of it kept as hazards:

* Store and commands: PX is bounded by the number of seconds of a year, in
  milliseconds; the length counter drifts up with every overwrite; 128 shards
  or more, which the configuration accepts, make the modulus of
  `GetShardForKey` negative.
* Server: a graceful shutdown loses what is in the log's buffer, as
  `TeardownWAL` closes a channel nobody reads and `Stop` is never called; a
  second signal after `close(sigs)` panics; after a failed accept the server
  waits for its last client.
* Subscriptions: a plain GET on a command connection makes the server push to
  it; a `HandleWatch` that runs after the end of its connection leaves a
  subscription behind.
* Lists: `GetEncodeUIntSize` is one byte too long at three lengths
  (`ElemAssumption`).
* Sorted sets: the evaluator of ZADD INCR on a missing key does not store the
  set, and a bad score midway keeps the pairs before it; the command ZADD
  leaves an empty set when its flags are refused; ranks of the evaluators start
  at 0, of the commands at 1.
* Hashes and others: HSCAN with a negative cursor indexes out of range, and a
  field deleted behind the cursor makes it skip one; HSET with an odd argument
  and PFMERGE with a bad source stop midway; HINCRBYFLOAT rounds beyond 2^53; a
  restored Bloom filter has a bitset eight times too long.
* DUMP, RESTORE, COPY: the checksum is never verified; hashes, HyperLogLogs and
  `types.SortedSet` cannot be dumped; COPY REPLACE of a type that cannot be
  copied deletes the destination and answers 0.
* Cluster: a recovered replica never gets what it missed, while its key count
  shows the master's; a negative latency is accepted and raises the score; the
  replication log is not bounded.

Hazards no property of the runs catches, with the reason in `PROJECT.json`: an
EXPIRE that wraps (`cmd_expire.go:91`), commands that overlap on one key
(`store.go:53`) and are logged in another order (`iothread.go:125`), the NaN of
`store_eval.go:383` (the models do all four, and the claims above are what they
refute); a SET whose answer cannot be sent and is not notified
(`iothread.go:167`), a dead thread that keeps its subscriptions
(`ironhawk/main.go:160`), a client that does not read (`watch_manager.go:134`),
the int8 shard count. Covered in part only: XX beside GT or LT; pushes and
ranges that panic; the three encoded lengths of `GetEncodeUIntSize`; the wait
of `Run` for its last client after a failed accept; a field deleted behind the
cursor of HSCAN, which `ScanComplete` excludes; COPY REPLACE, which is no error
to `ErrorIsClean`. An option that takes a value, given last, indexes past the
arguments (`cmd_set.go:94`): arguments are modelled after parsing, so no model
meets it.

## Not modelled

Power loss and failing disks (a log call that fails is in `Server`); the
rounding of float scores, the B-tree after its first NaN, ZCOUNT with a bound
of nan; the fan-out of commands over shards; deadlines, eviction and the ticker
under overlapping commands; JSON, bit and byte-array commands, GEO, HSTRLEN and
the string and key evaluators of `internal/eval`, which repeat the commands of
`Keyspace`; the command table; parsing of arguments. The legacy watch manager,
`monitoring` and the IO thread manager are created or declared and never used;
sessions are consulted by no command of the server; the IO multiplexer, the
append-only file, configuration, logging, telemetry and profiling have no
protocol state.

## Plan

Models: the ticker and lazy deletion as further threads of `Server`; shard
fan-out; bit and byte-array evaluators against a reference definition.
