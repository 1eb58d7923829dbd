# Gems: a TLA+ verification project

Gems is a small entity database written in Rust without third-party runtime
crates: memory-mapped extent files, a copy-on-write B-tree, in-memory bitmap
indexes, a store on top of them, and a cluster layer with log shipping, Raft
and SWIM gossip. This directory holds TLA+ models of its parts, the TLC
configurations that check them and TLAPS proofs of the results that matter
most. Paths below are relative to `src/crates/`.

## 1. Inventory

| Component | State it keeps | Operations | What is hard, and what makes it correct |
|---|---|---|---|
| Raft core, `gems-cluster/src/raft.rs` | term, vote, log (durable); commit and apply index, role, votes, next/match index (volatile) | `tick`, `propose`, `receive` (four RPCs), `take_newly_committed`, `restore` | interleaved elections, stale and reordered answers. One leader per term; matching logs; committed means on a majority; same entry at the same index everywhere |
| Raft engine, `raft_net.rs`, `raft_state.rs` | the channel into one engine thread, `raft_state.bin`, the node's `Store` | `run_engine` (receive, propose, tick; persist; send; apply), `spawn`, `save`/`load` | order of persist and send, crash between them, panics of the engine thread, a tick that needs silence. A vote is durable before it is seen; a restart forgets nothing it promised |
| Entity store, `gems-engine/src` | three B-trees, extent file, `next_ordinal`, three secondary indexes in memory | `create`, `open`, `insert`, `get`, `delete`, queries | six writes per insert and four per delete with no log around them. Reopens after any crash; reads what was written; indexes agree with entities |
| Extent storage, `gems-storage/src` | extents with class and bitmap | `allocate`, `write`, `read`, `free`, growth | growth and reopening, crash between them; page rounding. A slot is handed out once and reads back |
| Index, `gems-index/src` | pages, free list, root pointer | `get`, `insert`, `delete`, `scan_all`; `publish_root`, `allocate_page`, `free_page` | crash between page writes; page reuse under a reader in another process; a root published while one opens; unsynced pages under a published root. An ordered map with atomic operations |
| SWIM membership, `gossip.rs`, `swim_net.rs` | members with status and incarnation, gossip queue, ping under way, suspicions | `tick`, `receive`, `merge`, `maybe_refute_self` | lost acks and gossip; death is terminal. A status only grows within an incarnation; a live node can refute |
| Log shipping, `log.rs`, `primary.rs`, `server.rs`, `replica.rs` | a log file, replica store and offset | `append`, `read_from`, `insert`, `delete`, `sync` | torn tail, crash between store and log, offset file rewritten in place. A replica is a prefix of the primary |
| Sharding and node, `shard.rs`, `bin/node.rs` | shard map | `shard_of`, `propose` over members | a retry of a proposal that was accepted |
| Subscriptions, `gems-subscribe/src` | watches, cached values, views, tailer offset | `subscribe`, `process`, `poll` | shared cache; offset and hub not saved together |
| Access control, `gems-abac/src` | none (policies are entities) | `evaluate`, `enforce`, tokens | deny overrides; redaction; names resolved to ids by one request and used by another |
| Query, bitmaps, catalog, codecs, JSON, common | none beyond their values | parsing, set algebra, encoding, hashing, the directory lock | pure algorithms |
| Frontends: cli, tui, webui, mcp | a store opened per request | reads; writes proposed to shards; setup | requests of several threads over shards that elect; a bootstrap of several proposals. The same answers everywhere; somebody can administer |

How they meet. The Raft engine owns its core and its store and is the only
thread that touches either: listeners hand it messages through a channel, and
it applies committed records to the store. `PrimaryStore` writes store and
log; `ReplicationServer` serves the log's bytes; `ReplicaClient` and
`LogTailer` read them, one into a store, one into a `NotificationHub`. A store
directory has one writer (`flock`) and any number of read-only openers in
other processes.

`PROJECT.json` lists every component with its status, the hazards of the code
at their lines, and which property covers each.

## 2. Modules

| Module | Models |
|---|---|
| `RaftCore` | `raft.rs`: each method as an operator from a node's state to an outcome (new state, envelopes, whether it panics) |
| `RaftNode` | the group: `run_engine` of every node, disk, network, stores, crashes. One pass of the loop is one action |
| `EntityStore` | `gems-engine`'s `Store`: each write of `insert` and `delete` is one action, a crash may fall between any two |
| `RaftProofs` | theorems about `RaftNode`: terms and votes; logs and what is committed |
| `TreeProofs` | theorems about `CowTree` |
| `StoreProofs`, `SwimProofs`, `LogShippingProofs`, `SubscriptionProofs`, `GatewayProofs` | theorems about the modules of those names (section 4) |
| `DataInduction` | facts about numbers and iterations that several proofs need |
| `Swim` | `gossip.rs` and the engine loop of `swim_net.rs` on every node |
| `LogShipping` | `primary.rs`, `log.rs`, `server.rs`, `replica.rs`; implements the abstract `ReplicaView` |
| `CowTree` | `gems-index`: B-tree and pager, page by page, with a reader in another process; implements the abstract `OrderedMap` |
| `Extents` | `gems-storage`: extents, classes, bitmaps and growth of a mapped file |
| `Subscriptions` | `gems-subscribe`: tailer, watches, views |
| `Access` | `gems-abac`, the policy predicates and `Store`'s enforced reads |
| `Frontends` | the reads of web, MCP and command line, over `Access` |
| `Gateway` | the writes of web, node process and command line, over `shard.rs` and the shards it talks to; extends `Frontends` |
| `Query` | lexer, parser and `Store::query` |
| `RoaringBitmap` | `gems-bitmap` |
| `Codec`, `Gbv`, `Json` | the binary formats of catalog, log, Raft and SWIM; GBV bodies; JSON text |
| `MCRaftNode`, `MCEntityStore`, `MCSwim` | symmetry, view and instances for TLC |
| `MCComponents` | one TLC instance for the components from `Extents` to `Json` above but `Subscriptions` (section 3) |
| `MCServices` | one TLC instance for `Subscriptions` and a pair of `Swim` nodes |

### RaftNode

*State.* `core` is each node's `RaftCore`, `disk` its `raft_state.bin`, `net`
the envelopes in flight, `store` the one entity the commands write, `panicked`
the nodes whose engine thread has died. The history variables `votes`,
`elected`, `applied` and `overclaimed` are read by no action.

*Actions.* `Receive`, `Propose` and `Tick` run the core and then `run_engine`,
whose three outcomes are `Complete` (persist, send, drain and apply),
`CrashAfterPersist` (the process dies after `persist_state`, any part of the
sends and applies done, and is started again) and `Panic` (the thread dies
inside the core, nothing stored). `Restart` is a crash or shutdown between two
passes, or before `persist_state`, followed by `spawn`. A tick that changes
term, role and vote in nothing is not written, as in the code.

*Network.* `send_envelope` opens a connection per envelope and ignores
failures: any subset of what is sent arrives, in any order. A heartbeat sends
the same `AppendEntries` again, so a request or an answer may still be there
after one copy was received. Votes are asked for once per term and have no
copies.

*Abstractions.* The tick counters are left out: a tick below its threshold
changes nothing else, so the model's `tick` is the one that fires, at any time.
An RPC's repeated ids are the envelope's `from`. Commands are model values with
one `Delete`; all of them write the same entity. The sorted vector of
`advance_commit_index` is described by what its element at the majority is.
Applying an entry is one step here; the writes inside it are `EntityStore`'s
subject. `raft_state::save` is atomic (temporary file, fsync, rename, fsync of the
directory), and so is the assignment to `disk`.

### EntityStore

*State.* The three trees as functions, `used` for the bitmaps, `data` for the
slots; `next_ordinal` and `index` in memory; `op`, the operation under way with
its next step. `may` is what each entity may read as by the calls made so far,
and `torn` records crashes that fell in one of two windows (below).

*Actions.* `insert` is `Insert` (allocate), `WriteBlob`, `ordinal_for`,
`ReverseOrdinal`, `ReplaceOld`, `Publish`; `delete` is `Delete`,
`RetireOrdinal`, `Unreverse`, `FreeSlot`; then `Close`, `Crash` and `Open`
(lock, files, `rebuild_in_memory_indexes`). The files are shared mappings, so
what was written before the process died is there afterwards; power loss, where
pages reach the disk in any order, is not modelled. One
B-tree call is one step because it becomes visible by `publish_root`. A header
is its id and the set of keys it is filed under; a body is not looked at.

*Windows.* `"slot"`: a crash after an overwrite freed the old slot and before
`primary.insert`. `"ordinal"`: a crash that leaves an ordinal with an id that
has no entity. Outside them the properties hold; inside them they do not:
`store_freed_slot` shows the first, and of the second section 3 says how it comes.

### Swim

*State.* `core` is each node's `SwimCore` (members with status and
incarnation, gossip queue with remaining sends, ping under way, suspicion
timers), `net` the envelopes, `asked` the `StatusOf` requests in each engine's
channel, `up` the running processes.

*Actions.* `Receive`, `StatusOf` and `Tick` are the three ways through
`run_engine`; the last needs an empty channel, as `recv_timeout` does. `Lose`,
`Crash` and `Restart` are the faults. A tick of a node whose answers are still
under way counts as a fault too, for it means that a message took longer than
a whole period.

### LogShipping

An append is two steps (length prefix, rest), the offset file is written in
two (truncate, write), and the primary's mutation and its append are separate.
A crash, a failed append, a broken connection may fall between any two.
`unlogged` and `rewound` record the two windows the code leaves open: a
mutation whose record never became readable, and a replica that came back
without its offset. `ReplicaView` is the promise: records are published in one
order, and the view applies the next one or starts again at the first.
`ShipsInOrder` is the refinement, with the published records, the replica's
position and its store as the mapping.

### CowTree

An operation computes its plan, then writes its pages one by one, publishes
the root and gives the old pages back one by one. The recursions of `btree.rs`
are functions over the steps of the walk: `Descent` has the pages on the way
down to the leaf for a key, `Climb` what the calls on them return on the way up,
and `Leaves` the rows that `scan_rec` goes through, level by level. No walk is
longer than the file has pages, which is a lemma of the proofs and not assumed.
A page that is neither leaf nor internal, or is not mapped, ends a walk of the
reader as a failure.
The mapping of `OrderedMap`'s variable is what `get` returns for every key from
the root in the file, at every step of every operation. The reader takes the
length of the file and maps it (`OpenReader`), decodes the header (`ReadHeader`)
and follows the root one page per step (`ReadPage`); the writer may take any
number of steps between two of these. `mapped_len` is the last page within the
mapping, the file's length rounded up to whole OS pages of `PerOsPage` pages
each. `rd.stale` marks a reader one of whose pages has been given back. A root
may fail its reader in two ways, and `ReaderExactUnlessReclaimed` names both:
its pages were given back, or the file grew between the reading of its length
and of its header and the tree reaches beyond the mapping.

### Extents

Allocation is `AllocateExisting`, or `Grow`, `InitExtent` and `ClaimNew`, with
deaths in between; `Reopen` rebuilds the class list from the headers on disk.
Offsets, page rounding and `extent_index` are computed as in the code, which is
what finding 4 is about.

### Access, Frontends, Gateway

`Access` is the decision (deny overrides, redaction) and the reads that apply
it. `Frontends` gives each route, tool and command its answer as a function of
a store and a caller. `Gateway` has the writes: a thread authorises, looks at a
store, and proposes record by record; a member appends, answers, does not
answer in time, or is no leader; members elect, apply and stop. A proposal is
answered when it is appended, so a request's check and its effect may lie far
apart. `EnforcedReads` compares all three front ends with the policies as an
administrator worded them: about everybody, about the subject they name, or
about whoever has the role they name, and about entities of any type or of one.
`save_policy` and `cmd_policy_create` make policies of all these kinds, a subject
and a role together among them, and entities are saved with and without a type,
so that typed policies meet entities of their type, of none, and of others'.
The subjects and types that requests name are those of some store and, for
subjects, of a token (`Subjects`, `Types`); the routes do not look whether they
exist.

What the model shows beside its properties. `setup` refuses to run when it
finds a role named admin, so a bootstrap that stopped half way leaves a role
nobody can use (`torn`); the comment at `write_api.rs:449` calls a second run
harmless, yet `role_id_by_name` takes the first of two roles of a name, and
tokens issued by the other run do not pass. `query_enforced` cuts at `LIMIT`
before it enforces, so a page may come out shorter than the limit. `shard.rs`
says "Errors only if every member was tried and none accepted it": a member
may have accepted and its answer been lost. The number of shards is the length
of the configured array in `gems-webui` and of the map in `bin/node.rs`, which
differ when a shard is listed twice; the model takes each shard once.

### Subscriptions, Query, RoaringBitmap, Codec, Gbv, Json

Each has its state beside a reference: the log fed so far beside watches and
views; the meaning the author of a query gives to its text, with precedence and
parentheses, beside what `parse` and `query` make of it; a plain set beside
each bitmap; the value written beside what is read from all of the buffer, a
part of it, or one with a changed cell. Query texts are put together from
words and characters, because the lexer is among the things checked; other
names and payloads stay model values. In the formats a cell is one scalar of
any width; the counts of lists and the lengths of blobs and texts wrap at
`CountMod`, where the code truncates to `u16`. Samples reach that length in
every such field, at every depth: a value is read back exactly when nothing in
it wrapped (`Fits`), for the code neither refuses such a value when it writes it
nor notices it when it reads.

## 3. Runs

Sizes are distinct states. Deadlock is checked for the store; elsewhere the
bounds on terms, operations or faults bring every behaviour to an end.

| Run | Instance | Checks | Result |
|---|---|---|---|
| `raft_replication` | 3 nodes, terms to 2, 1 entry, 2 in flight, no restart | `TypeOK`; `MajorityUnlessOverclaimed`, `StateMachineSafety...`, `LeaderCompleteness...`, `NoPanic...` | holds, 433 k |
| `raft_logs` | 3 nodes, terms to 2, 2 entries, 1 in flight, 1 restart | `ElectionSafety`, `VotesAreDurable`, `VoteLedger`, `VoteIsFinal`; `LogMatching`, `StateMachineSafetyUnlessOverclaimed` | holds, 704 k |
| `raft_majority` | as `raft_replication` | `CommittedOnMajority` | violated: finding 1 |
| `raft_reapply` | 2 nodes, insert and delete, 1 restart | `StoreNeverRegresses` | violated: finding 2 |
| `store_ops` | 3 ids, 2 key sets, 4 slots, 3 ordinals, 1 crash, any number of clean reopens | `TypeOK`, `Reopenable`, `DurableUnlessTorn`, `QueryExactUnlessTorn` | holds, 1.0 M |
| `store_freed_slot` | 2 ids, 3 slots, 1 crash | `ReferencedSlotsInUse` | violated: finding 3 |
| `swim_group` | 3 nodes, 1 crash, 1 fault or 1 restart, node 1 polled for its status | `TypeOK`, `SuspicionsAreTimed`, `IncarnationsAreOwned`, `NoFalseDeath`, `BeliefsOnlyGrow` | holds, 1.1 M |
| `services` | below; 2 SWIM nodes, 1 fault, 1 crash, 1 restart, fair | `ViewsExact`, `SubscribersKnow`, `Detection` | holds, 245 k |
| `log_shipping` | 2 ids, 2 values, 3 records, 2 mishaps, fair | `TypeOK`, `LogTellsAll`, `PrefixUnlessRewound`, `CaughtUpIsEqual`, `ShipsInOrder`, `CatchesUp` | holds, 249 k |
| `tree` | 3 keys, leaves of one entry, nodes of one key, 5 operations, 1 crash; beside the first 3 operations a reader of the middle key, 2 pages to an OS page | `IsAtomicMap` (refinement of `OrderedMap`), `ScanIsExact`, `FreelistIsSound`, `ReaderExactUnlessReclaimed` | holds, 115 k |
| `components` | below | 7 properties, below | holds, 397 k |
| `extent_slip` | extents of 5 units on pages of 4, up to 3 extents | `ReadsBack` | violated: finding 4 |

`components` is one run for components that share no state with each other in
the models: `which` names the component a behaviour is of. Each keeps its own
initial states and actions. `Gateway` has its own variables and stays at its
first start in the behaviours of the others, whose variables share `s1` to
`s7`. `services` does the same for notification and failure detection, and
asks fairness only of the SWIM nodes.

| Component | Instance | Checks |
|---|---|---|
| `Extents` | extents of 5 units on pages of 2, 3 classes, 5 allocations, 1 crash or reopening | `ReadsBack` |
| `Subscriptions` (in `services`) | 2 entities, 2 records, 2 subscriptions, 1 view, 1 fault | `ViewsExact`, `SubscribersKnow` |
| `Gateway` | 2 shards, one of two members, 2 threads, 2 requests, 1 fault; at its first start, or set up with a type and a datum of it | `EnforcedReads`, `SomeoneAdministers` |
| `RoaringBitmap` | 2 bitmaps of 5 values in 2 chunks, arrays of one | `BitmapsAreSets` |
| `Query` | 3 heads, 7 pieces, 4 tails, depth limit 2, up to 5 pieces | `QueriesMeanWhatTheySay` |
| `Codec` | all 13 formats, counts and lengths that wrap at 3, samples on both sides | `RoundTrips`, `StreamsInOrder` |
| `Gbv`, `Json` | 4 fields of 3 keys; values nested to 3 with the limit at 2 | `RoundTrips` |

Why the bounds are enough for what they are asked. Three nodes are the
smallest group in which a majority is not everybody. Two terms and one entry
each are enough for a second leader to overwrite the first one's entry, for a
late answer to reach a leader, and for the leader's log to be shorter than a
follower's; two entries let a follower hold one matching and one stale entry.
One restart lets a node crash after voting and be asked a second time; that
further restarts change nothing for votes, terms and logs is proved (section
4). Figure 8 of the Raft paper, an entry of an older term that is on
a majority and is then overwritten, needs three or more terms and is not
reached by TLC; the current-term guard it is about is in the model, and that
such an entry is not lost once it counts as committed is what `StoresAgree` and
`LeadersComplete` prove for any number of terms. `raft_logs` has one message in
flight: there an answer may be lost or come late, after any number of other
steps, but two messages do not overtake each other. They do in
`raft_replication`, with two in flight, and in the theorems, which bound
nothing. In the store, four
slots are one more than three entities need, so that an overwrite of one always
has room and an orphan slot can exist; one crash is followed by any further
operations.

In SWIM three nodes let a suspicion reach its subject through a third, and one
fault is what the protocol's timers are made to survive: with two faults, or
with facts gossiped twice instead of four times, `NoFalseDeath` fails, as it
may. Three records are an insert, an overwrite and a delete of one id, or a
torn record with one on each side; two mishaps are a crash in an append and
one in the offset file. In the tree the third insert splits a leaf and the
inner node above it and two operations more work on the result. A reader begins
and ends within three operations (`MaxOpsRead`), enough for the pages of its tree
to be given back and written again while it walks; with two
pages to an OS page its root may lie inside its mapping or beyond it; the real
capacities are much larger, so nodes without a key occur only here, and the
code makes no difference between them. Chunks, thresholds, counts and depth
limits are small so that every boundary is crossed. In `components` the file
has at most three extents, fewer than it takes for the roundings to add up to
one.

Every passing property is paired in `PROJECT.json` with a small
change of the model (a dropped guard, a wrong order, an off-by-one) under which
the same run fails.

### Findings

1. *An acknowledgement covers too much* (`raft.rs:535`). A follower answers a
   successful `AppendEntries` with the length of its whole log. Entries of a
   dead term behind the checked prefix are counted as replicated, and the
   leader commits an entry that no majority holds. Arriving before the leader
   has appended as much, the same answer makes `next_index` exceed the leader's
   log, and the slice at `raft.rs:342` panics at the next heartbeat.
   The passing Raft runs therefore carry `overclaimed`, set the first time a
   follower answers so, and claim their properties until then.
2. *Applying the log again is not harmless* (`raft.rs:182`). A restarted node
   applies its log from entry 1 and its store shows earlier states on the way,
   a deleted entity for instance, which the comment calls safe.
3. *A slot is freed too early* (`gems-engine/src/lib.rs:242`).
4. *Extents slip* (`gems-storage/src/file.rs:81`). The file is mapped to whole
   pages and the rounded length is taken for the next extent's offset. With
   4 KiB pages the roundings add up to a whole extent after some 4100 extents
   (64 GiB), with 16 KiB pages after some 1400. Then the header is written one
   extent further than the class list says, and slots in use overlap.
Three more windows are carried by the passing runs as exceptions: a reader maps
less than its root needs when a writer grows the file and publishes a root on
the new pages between the `fstat` and the header decode of `Pager::open`
(`pager.rs:151`), and its first `get` answers `CorruptPage` with nothing wrong
in the file, where `ARCHITECTURE.md:212` says that a root taken once stays valid
for its reader (the second clause of `ReaderExactUnlessReclaimed`); an ordinal that
a crash left without an entity is given out again by the next open
(`gems-engine/src/lib.rs:189`, `"ordinal"` in `torn`), and of two watches on
one attribute the first that fires updates the cached value both compare with
(`gems-subscribe/src/watch.rs:173`, `shared`). In SWIM the comment "higher
incarnation wins" (`gossip.rs:18`) does not cover a member declared dead, which
no incarnation brings back (`gossip.rs:235`).

`PROJECT.json` quotes the lines they disagree with.

### Fairness

`Swim.FairSpec` asks weak fairness of `Receive`, `StatusOf` and `Tick` of every
node: its engine is one thread in a loop, and each pass takes what is in the
channel or, after a silent period, ticks. No fairness is asked of faults,
crashes or restarts. The tick is weakly fair only while silence lasts, which is
the code's own limit: when both nodes of the pair are polled for their
status without end, `Detection` fails, because a polled engine never ticks
(`swim_net.rs:144`). The run polls nobody.

`LogShipping.FairSpec` asks weak fairness of the primary's finishing a call,
the server thread's serving what can be read, and the replica's next step;
its caller runs `sync` again when it returns. Mutations and mishaps are not
fair. `CatchesUp` excuses `Garbled`, a torn record with others behind it, which
stops every reader for good.

The Raft and store specifications state no fairness and claim only safety. The
tick counters and drawn timeouts of Raft are abstracted away, and nothing in
the code makes an election end.

## 4. Proofs

TLC checks the instances of section 3; the theorems hold for every value of the
constants, under the named assumptions beside them, which TLC evaluates on the
instances.

### RaftProofs

For any finite set of nodes, any commands and any bounds (`ServerAssumption`,
`BoundsAssumption`, `CommandAssumption`), of `RaftNode`:

- `TypeCorrect`: `Spec => []TypeOK`;
- `VotesAccounted`: `Spec => []VoteLedger`;
- `OneLeaderPerTerm`: `Spec => []ElectionSafety`;
- `VotesDurable`: `Spec => []VotesAreDurable`;
- `VotesFinal`: `Spec => VoteIsFinal`.

The inductive invariant is `TypeOK /\ Drained /\ AllFit /\ VoteLedger`.
`ElectionSafety` alone is not inductive: it needs to know that every vote a
leader counted was stored, that a node stored at most one per term, and that
memory and disk agree, so that a restart brings the same vote back. `Drained`
and `AllFit` (nothing committed waits to be applied; no index runs past the log
it points into) are what makes the applied entries well typed. The argument
goes through one notion, a *sound* call of the core: one that never lowers the
term, never changes a vote within it, answers with the vote it stored and leads
only with a majority of received votes. One lemma per handler shows it sound;
`LedgerStep` shows that a sound call, persisted and sent, keeps the ledger.
Two majorities of one finite set intersect by a counting lemma.

The second half of the module is about logs. Under the same assumptions:

- `LogsMatch`: `Spec => []LogMatching`, without exception;
- `MajorityHolds`, `StoresAgree`, `LeadersComplete`, `EnginesSurvive`: the four
  properties `...UnlessOverclaimed`, that is, until a follower acknowledges
  entries its leader lacks (finding 1);
- `OnTheRecord`: the inductive invariant under all of them.

What has to be known is about the past: the log that each term's leader had
(`L`), and the highest index each node acknowledged in each term (`A`). No
variable keeps either, and adding one to the model only for the proof is not
needed: the invariant says that *some* `L` and `A` fit the present state, and
each step is shown to take fitting records to fitting records, extending `L`
where a leader appends or is elected and `A` where a follower matches.

`LogInv(L)` is what log matching needs: up to each entry, every log, in memory
or in an envelope, is the log on record of that entry's term. The rest is
dropped when `overclaimed` is set. `AckInv(L, A)` is about *points*, entries of
a term's own leader: what a node has acknowledged is still in its log, in the
log of every later leader and of every candidate it votes for, or the point is
`Blocked`, because a majority has moved to a later term without acknowledging
it. A point a majority has acknowledged, a `Chosen` one, is never blocked, so
later leaders have it; with that, `CommitInv(L, A)` says that everything
committed or applied lies below a chosen point (`Settled`). The election step
uses the comparison of logs in `handle_request_vote`; the commit step uses the
current-term guard of `advance_commit_index`, which TLC's bounds cannot reach
(section 3).

The property about leaders was first stated for entries by the term they carry.
The proof showed where that is too strong: an entry of an old term may be
committed by a later leader, and a leader of a term between the two need not
have it. `LeaderCompletenessUnlessOverclaimed` now goes by the term in which
the entry was applied, which `applied` records.

### StoreProofs

For any ids, keys, slots and bounds (`StoreAssumption`, `HeaderAssumption`), of
`EntityStore`:

- `StoreTypeCorrect`: `Spec => []TypeOK`, `next_ordinal` after a reopen included;
- `AlwaysReopenable`: `Spec => []Reopenable`;
- `ReadsAsExpected`: `Spec => []DurableUnlessTorn`;
- `QueriesAreExact`: `Spec => []QueryExactUnlessTorn`.

The invariant adds to the types the fields an operation has set, that named
slots were written, that every stored entity has an ordinal (`OrdinalsHeld`),
and, as long as `"slot"` is not in `torn`, that slots have one owner and that
each entity reads as one of the versions in `may`. Ownership is what makes
reads inductive: a write goes to a slot no entity owns. For queries, as long as
nothing is torn, it also says that the two ordinal trees are inverse to each
other but for the one an operation is changing, that an ordinal names one
entity, and that the index in memory files each entity under the keys of the
header on disk (`QInv`), which a reopening rebuilds.

### TreeProofs

For any set of numbers as keys, any capacities from one up, any number of
pages to an OS page and any bounds (`CowTreeAssumption`), of `CowTree`:

- `AtomicMap`: `Spec => IsAtomicMap`, the refinement of `OrderedMap`: the one
  step that changes what `get` answers for any key is `publish_root`, and it
  makes one insert or delete visible;
- `ScanExact`: `Spec => []ScanIsExact`;
- `FreelistSound`: `Spec => []FreelistIsSound`;
- `ReaderExact`: `Spec => []ReaderExactUnlessReclaimed`, with the length, the
  header and every page of the walk read in steps of their own;
- `TreeInvariant`: the inductive invariant under all of them.

A tree is described without recursion. A *forest* is a set of pages each of
which has a level, 0 for a leaf, and a range of keys; the separators of an
internal page at level l divide its range among its children, all at level
l - 1, and a leaf has the entries of the published map in its range, within
capacity (`Forest`, `NodeOK`). The tree is a forest whose root has every key in
its range. On a way down levels fall by one, no page comes twice, so the way is
shorter than the file (`FewLevels`), `get` finds what the map has (`GetIs`), and
`Reach` is a forest of its own (`ReachIs`).

What an operation plans is followed from the leaf up: `insert_leaf` and
`delete_leaf` give one or two leaves that hold the changed map on their ranges,
and each step up puts a page, or a page and its new sibling, over what the step
below returned, at the right level and with the right ranges (`InnerReplace`,
`InnerInsert`, `InnerSplit`, `AboveRises`). All of this happens on pages that
`allocate_page` would hand out in order (`Supply`), none of them in the old tree.

`TreeInv` says that for some forest `t` and some sequence `c` the file is the
tree `t` of `map` and the chain `c` of free pages, which share no page (`Store`);
that an operation under way has still to write, and then to free, what turns
them into the tree of its result (`Planned`, `Working`); and that a reader's
tree, from the header on, is a forest too until one of its pages is free, and
its walk stands on a page of it or has ended beyond the mapping (`Reading`). Every write goes
to a page outside all of these trees, so a crash at any point leaves a whole
tree and, at worst, pages that belong to nobody. For `scan_all`, every row of
`Leaves` has its pages in the order of their ranges and shares all keys out
among them (`Row`), and the concatenation of ordered blocks is ordered
(`FlattenIs`).

### LogShippingProofs

For any ids, values and bounds, of `LogShipping`:

- `OffsetsInLog`: `Spec => []TypeOK`, no offset ever past what is published;
- `LogTellsAllHolds`: `Spec => []LogTellsAll`;
- `PrefixHolds`: `Spec => []PrefixUnlessRewound`;
- `CaughtUpHolds`: `Spec => []CaughtUpIsEqual`;
- `ShipsInOrderHolds`: `Spec => ShipsInOrder`, the refinement of `ReplicaView`:
  every step publishes one record, applies the next one, starts afresh, or
  stutters.

The invariant relates the four places a record passes through: the primary is
one mutation ahead of the log while a call is under way (`Told`), the socket
holds what lies between replica and server (`InFlight`), and the offsets in
memory and on disk are at most one behind what is applied (`Offsets`). A
replica that starts again with an empty offset goes back through states it has
had: `Settled` says that an id reads as the records applied say, or that none
of those is about it and a later one is. That is why a replica at the end of
the log is right however often it lost its place.

### SwimProofs

For any group, ping order and parameters, of `Swim`:

- `FieldsTyped`: `Spec => []TypeOK`;
- `SuspicionsTimed`: `Spec => []SuspicionsAreTimed`;
- `IncarnationsOwned`: `Spec => []IncarnationsAreOwned`;
- `BeliefsGrow`: `Spec => BeliefsOnlyGrow`.

What is known, queued or sent of a member was copied from somewhere, and in the
end from that member: `Owned` bounds it by `peak`, the highest incarnation the
member ever took, and is inductive only together for cores, queues and
envelopes. A node is the one exception, for it queues its own next incarnation
before anybody knows of it (`maybe_refute_self`).

### SubscriptionProofs

For any entities, records and watches (`SubscriptionsAssumption`: records are
about entities, no value is the mark of a missing one, and a watch is of one of
the four kinds), of `Subscriptions`:

- `ViewsCountExactly`: `Spec => []ViewsExact`;
- `SubscribersAreTold`: `Spec => []SubscribersKnow`.

The inductive invariant is `HubTyped /\ ViewsExact /\ Counted /\ Sighted /\
ViewsTold`: numbers of watches and views are not given twice, so that a watch on
a view that does not exist is on one that will be created with no members; and
the value in the shared cache is the newest one every watch has sighted.

### GatewayProofs

For any shard map, threads, requests and bounds (`GatewayAssumption`: the secret
is not the mark of the insecure mode, policies permit or deny), of `Gateway`
with `Frontends` and `Access` under it:

- `NamesResolved`: `Spec => []GateInv`, the inductive invariant;
- `ReadsEnforced`: `Spec => []EnforcedReads`;
- `Administrable`: `Spec => []SomeoneAdministers`.

Names are resolved by one request and compared, as ids, by another. The
invariant follows both sides: every role in a store, log or request was
proposed under the name it has; a policy about a named role has the id of a
role of that name, whatever subject and type it names besides; a token has one such id for every name it was asked for and
no other. Generated ids are used once, so an id never means two names; while no
name means two ids, ids and names decide alike (`Decides`), and what `enforce`
keeps and trims is what the requests' words say. Subjects and types are named by
id in the requests already. The nine reads of the three
front ends are then reduced to `enforce` over what the store finds.
`AdminAwaited` says that the only bootstrap's token is handed out or still
granted by the thread that serves it.

### How the operators are written

The provers expand neither `SelectSeq` nor `SortSeq` nor the folds of the
community modules. Filters and loops in modules with theorems (`Kept`,
`Retained`, `StateAfter` and the like) are therefore recursive functions over
the positions of a sequence. `DataInduction` has what stands in for induction
there: a set that holds 0 and with each number the next holds all (`UpTo`), and
an iteration over a set exists and stays in it (`Fixpoint`, `StaysIn`). Each
filter has a lemma that says what it keeps.

### Only model-checked

- `Detection` and `CatchesUp`, which are liveness under fairness, and
  everything about `ENABLED`: out of this prover's reach.
- `NoFalseDeath`: it rests on how far the ticks of different nodes can run
  apart within the allowed faults, a bound over several nodes' timers that has
  not been put as an invariant.
- `ReadsBack` of `Extents`: false in general (finding 4); it holds while the
  roundings do not add up to an extent, and a proof would have to assume that.
- `BitmapsAreSets`: the operations of `RoaringBitmap` are folds of `insert`.
- `QueriesMeanWhatTheySay`, `RoundTrips`, `StreamsInOrder`: `Query`, `Codec`,
  `Gbv` and `Json` follow the recursions of their code with recursive operators,
  and what a recursive definition computes for every input is induction over
  data.
- The four violations, each a behaviour TLC exhibits.

## 5. What is left

Worth proving next: the `Extents` allocator under the hypothesis that
`MaxExtents` roundings stay below an extent; `RoaringBitmap` with its folds as
recursive functions; the bound on how far the ticks of SWIM nodes run apart,
under which `NoFalseDeath` would be inductive.

Not modelled, and why:

- power loss under the index (`pager.rs:184`): no page is synced before the
  root that names it, so nothing holds that could be stated;
- the clock of the Raft engine (`raft_net.rs:171`, `337`): ticks that starve and
  elections that never end need counters that would multiply the states of
  `RaftNode`; the same loop is modelled in `Swim`;
- errors of `apply_to_store` (`raft_net.rs:309`): no code reacts to them;
- the terminal interface, HTTP and argument parsing, the MCP transport, logging
  and wording: input and output around operations that are modelled;
- hashes and tags bit by bit: they appear as a symbolic digest;
- `append_entries_for` past `MAX_FRAME_LEN` (`frame.rs:26`): the limit is in
  `Codec` and the retry in `RaftNode`, but their composition has only a
  liveness question, and the group promises none.
