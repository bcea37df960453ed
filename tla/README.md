# Hubble: a TLA+ verification project

Hubble (`src/apps/hubble`) is a Farcaster hub: a server that stores the signed
messages of users ("fids"), and replicates them with every other hub. This
directory holds TLA+ modules translated from its source, the TLC runs that
check them on small instances, and theorems about them that TLAPS checks for
every value of the constants. `PROJECT.json` maps each definition to the lines
it models and lists runs, mutants, findings, hazards and theorems.

Run one check with `tlc -config Replication.cfg MCMessageReplication`, the
proofs of a module with, for example, `tlapm StoreThreadsProofs.tla`.

## 1. The system

| Part | State | Operations | Interacts with |
|---|---|---|---|
| Set stores, Rust (`addon/src/store/store.rs` and one file per kind of message) | RocksDB: messages under `fid/set/tsHash`, an add set and a remove set index per conflict key, secondary indices | `merge`, `merge_add`, `merge_remove`, `revoke`, `prune_messages` | called from the node thread or a thread pool; writes events with ids of the event handler |
| Link store (`link_store.rs`) | the same, plus a compact state per link type and unpadded index keys left by early versions | `merge_compact_state`, its own conflict search | as above |
| Event ids (`store_event_handler.rs`) | last millisecond and sequence | `generate_id`, `commit_transaction` | shared by all stores |
| Storage cache (`storageCache.ts`, `storeEventHandler.ts`, `rustStoreBase.ts`) | per fid and set: count, earliest tsHash, pending scan; per fid: the storage slot | `getMessageCount`, `getEarliestTsHash`, `processEvent`, `isPrunable`, `pruneMessages` | decides merges and prunes; fed by events after the commit |
| On-chain event store (`onChainEventStore.ts`) | events, by-signer index, active signer cache | `mergeOnChainEvent`, `getActiveSigner` | fed by chain watchers; read by validation |
| Revocation (`revokeMessagesBySignerJob.ts`, `validateOrRevokeMessagesJob.ts`, `engine/index.ts`) | persistent job queue, worker status | `enqueueJob`, `processJobs`, `popNextJob`, full scan | engine and stores |
| Merkle trie (`addon/src/trie/*`) | nodes in memory, their rows in RocksDB, the batch of rows not written yet | insert, delete, exists, metadata, values, snapshot, stop, initialize, clear | the sync engine, on Rust threads |
| Sync (`network/sync/*`) | queues of trie updates, the batch in flight | update the trie on events, compare tries, fetch and merge what is missing, revoke ids that name nothing | peers, engine, trie |
| Gossip (`network/p2p/*`, `hubble.ts`) | peers, bundles | publish what merged, merge what arrives | peers, engine |
| L2 provider, fname registry (`eth/*`) | last block seen, blocks waiting for confirmations | watch, retry, replay from the last block | on-chain event store |
| Servers, snapshots, CLI, metrics | configuration | RPC, HTTP, backup | all of the above |

### What is hard about it

* Every hub must end up with the same messages although it sees them in its
  own order, more than once, or not at all until sync runs.
* One merge changes four kinds of keys; a forgotten one misleads later merges.
* Merges hold a lock per fid, revokes and prunes hold none; ids are given out
  under a lock that is released before the batch is written.
* TypeScript code reads state, awaits Rust and uses what it read: the count of
  the storage cache, the signer index, the active signer cache, the job queue.
* Jobs, caches and calls in progress are lost in a crash, the database is not.
* The trie follows the store by handlers that nobody orders, and is written to
  disk rarely; peers compare hashes of it, so two hubs with the same messages
  must arrive at the same nodes by any route.
* Chain events come from four sources (watchers, the history sync, new blocks,
  retries) that fill and empty one cache between awaits.
* Boundaries: equal timestamps, an exhausted id sequence, a full store.

`PROJECT.json` lists these as hazards, each at its line.

### What makes each part correct

* Stores: a store is a function of the set of messages it was offered, follows
  the rules of the doc comments, and its indices agree.
* Links: what a compaction deleted stays away but for the gaps of section 5; hubs
  converge.
* Threads: concurrent merges look sequential; ids are unique; the log rebuilds
  the store.
* Cache: the count is right when nothing is in flight; calls return; messages
  are refused or pruned only when the limit demands it.
* Storage: the slot allows what the rents in force allow.
* Trie: it is a function of the ids in it, in memory, on disk and as peers read
  it; a sync finds what is missing; it ends up with exactly the ids of the store.
* Chain: no event is skipped, across restarts and with several writers.
* Signers: the index shows what the chain says; messages of a removed signer are
  revoked in the end, and none is revoked without a reason.

## 2. The modules

```
MessageOrder --> MessageStore --> MessageReplication *
     |  *             |                  '-- INSTANCE LwwRegisters (abstract)
     |                '--> StoreThreads *
     |                          '-- INSTANCE MessageReplication (Serial)
     '--> LinkStore --> LinkReplication *
TrieNode --> MerkleTrie        SyncTrie * (the trie as a set of ids)
SignerEvents --> SignerRevocation *     StorageCache *     ChainWatcher *
```

A star marks the modules whose theorems are in a module of their own, named after
them with `Proofs` at the end; `MessageOrderProofs` holds the lemmas about
`message_compare` that the proofs about stores, links and threads share.

`MC*` modules give the constants their values. Definitions keep the names of
the functions they model. Operators whose comment begins with "Mutant:" are
wrong variants of the definition that follows them; no specification uses
them, they exist to show that each property notices a plausible bug.

**MessageOrder** is `message_compare`: timestamp, then remove over add, then
hash; for casts remove over add first (`cast_store.rs` overrides it). Hashes and
timestamps are numbers, which is what comparing the big-endian tsHash amounts to.
`CastKeys` are the keys that are casts, so one instance can hold both kinds.

**MessageStore** is one fid's set store as a record `[msgs, adds, removes,
byTarget]` and `merge` as a function on it. One `merge` is one RocksDB write
batch, so it is one step. `merge_check` gives the code's answers "ok",
"conflict" and "duplicate". A message that an index names but that is not
stored is skipped, as in the code.

**MessageReplication** is a set of hubs: `SubmitRpc` (a client's message, which
is gossiped if it merges), `ReceiveGossip` (any published message, any number of
times or never), `Sync` (a message the peer stores and this hub does not).
`offered` is a history variable. **LwwRegisters** is the abstract
specification: per hub and key a register that only moves up the order.

**LinkStore / LinkReplication** add compact states, the two forms of index keys
and what differs for links: `merge_compact_state` deletes the fid's older links
of *every* type, and sync cannot fetch a compact state because a SyncId is a
primary key and no compact state is stored under one. `compacted` is a history
variable: the links that each compaction of a hub has deleted. `Legacy` are the links
that a version which did not pad its keys may have left.

**StoreThreads** splits the operations of one hub where threads can meet: lock,
read of the remove index, read of the add index, id, commit. `js_merge` runs on
the node thread, `js_merge_many` and `js_prune_messages` on the pool. `clock`
and `SequenceLimit` stand for the millisecond and the 12-bit sequence. The system
clock may stand still, go on or be set back (`MaxSetBack` times, counted by
`setBack`). A prune takes any number of the oldest messages, because the number comes
from a count cached elsewhere (StorageCache). `undone` is history: what was revoked or
pruned.
Verifications add an index that all fids share: `byAddress` names the fid of an
address, `ReadByAddress` is the second half of `get_merge_conflicts` in
`verification_store.rs`, which may also conflict with, and delete, a message of
another fid, whose lock the thread does not hold. `AddressOf` says which messages
verify an address. `raced` records the addresses that two operations worked on at
the same time. `Serial` instantiates `MessageReplication` with the part of the
database under each lock as a hub: there a merge is one step.

**StorageCache** is one fid and one set. Each call is a state machine whose
steps are the stretches between two awaits; database reads and commits on the
pool are separate steps. `NodeTurn` is the event loop: continuations of promises
that are already settled run before the node thread takes up anything else.
`count = None` is an uncached count; a hub may be found at a moment when it is
cached or not. The limit is that of the cached storage slot: `MergeRent` and
`addRent` are the commit of a rent event and its event, `Tick` lets rents expire,
and a call that finds the slot expired reads the rents on a Rust thread
(`ReadRents`) and sets the slot (`getCurrentStorageSlotForFid`). A rent event is
what it allows for this set and the last second it counts (the sum over several
rents is the number of their places); `missed` records the
rents that were stored while the rents were read. A compact state of the same set
deletes messages that its event does not list (`merge_compact_state`); `compacted`
counts them. The prune limit of the configuration, when there is one, takes the place of
the units' (`rustLimit`). Promises are settled in the
order Rust is done, hence the guard of `getCurrentStorageSlotForFid`.

**SignerEvents / SignerRevocation** are one fid's signer events, the by-signer
index, the LRU cache of active signers, lookups by `validateMessage`, the job
queue and its worker, the full scan and crashes. `late` and `window` model
`doBefore`: a worker sees the jobs dated up to 500 ms after its start. Any number of
merges run at once (`Mergers`); `overlapped` records the signers that two of them were
about. `Invalidate` lets a name or an address move on, after which validation refuses
the message whatever its signer (`unfit`), and `RevokeName` is what the merge of a name
proof does about it. A job is a signer and the number of its removal; `done`, `redone`
and `removals` are history.

**TrieNode / MerkleTrie** are `trie_node.rs` and `merkle_trie.rs`. A node is a
record of item count, hash, key and children, a child is a node or `Serialized`
(to be loaded from its row), and `insert`, `delete`, `exists`, `split_leaf_node`,
the compaction, `get_all_values` and `get_snapshot` are recursive operators that
return the node with the rows to write. `blake3` is an injective function: hashes
are the terms hashed. `MerkleTrie` has the root, the database, the batch, and one
action for each operation; a commit happens within an update when the batch is
large (`TRIE_UNLOAD_THRESHOLD`). `performSync` and `executeWorkItem` are the diff
walk of `syncEngine.ts` over what `get_trie_node_metadata` reads here and what the
walked peer `P` answers; the ids come from a secondary peer `Q`, and from `P` where `Q`
has none (`getMessagesFromOtherNode`). One `Q` stands for whichever of the secondaries
is next at each item; an error counts as an empty answer, and without secondaries `Q`
is `P`. `Build` is the reference: the trie of a set of keys. `ids`, `saved`
and `gone` are history.

**SyncTrie** is what happens around the trie: the store changes and emits events,
each handler of `syncEngine.ts` queues its first update and, when that is done,
the next (`then`); `doBatchUpdate` of `merkleTrie.ts` applies what is queued,
inserts before deletes; `Commit` writes the trie; a sync that meets a message it
has (`SyncFindsMessage`, `InsertDuplicate`), a block that is read again
(`SyncFindsEvent`, `CheckExists`), a peer that asks for a list of ids (`PeerAsks`) and
the hub's own doubts (`revokeCorruptedSyncIds`) repair it. `findCorruptedSyncIDs` pairs
ids and messages by position though only ids of messages have one, so that
`revokeSyncIds` may revoke the id of something that is stored. `Stop`, `Crash`, `Start`,
`StartRebuild` and `BatchFails` are the faults; a start with `--l2-clear-events` deletes
the on-chain events and leaves their ids in the trie (`clearEvents`, `cleared`).
`tainted` records the ids whose updates overlapped or were lost, or that were revoked by
mistake, `doubled` that a batch held an id twice.
Inserts are queued in a sequence, because it matters that one may be there twice;
deletes in a set, because for them neither order nor repetition does.

**ChainWatcher** is `l2EventsProvider.ts`. `FirstPoll` is the moment a contract's
watcher, which is started and not waited for, begins to see blocks (`watching`), and
`cacheOnChainEvent` a watcher that delivers an event, once the timestamp of its block
is read. `connectAndSyncHistoricalEvents` begins the queries after a start;
`handleNewBlock`, `retryEventsFromBlock` and `retryEventsForFid` (for the kinds of events
it asks for, `ByFid`) are the others. `task` holds the writers, "main" and any number of
`Retriers`, at the await they have reached: a query (`getContractEvents`), the timestamp
of one event after the other that it returned (`cacheQueriedEvent`), an event that is
submitted, the read and the write of the hub state. `NextBlock` is the loop of
`writeCachedBlocks` from one await to the next, with the blocks in the order of their
decimal strings; that order is a constant, `StringRank`. Faults: a crash, a query that
fails, a block that cannot be read, a submission that the hub refuses (the code does not
look at the answer), a watcher that is started again.

## 3. The runs

| Run | Bounds | Shows |
|---|---|---|
| `replication` | 2 hubs; 6 messages on an ordinary key and a cast key with every kind of tie | `StoreIsWinners`, `FollowsDocumentedRules`, `IndicesConsistent`, `NoSyncDeadEnd`, `EventuallyConsistent`, `ImplementsRegisters` |
| `links` | 2 hubs; 4 links of two types, before and at the second of the first of 2 compact states, an optional legacy link per hub | `IndicesConsistent`, `CompactionIsFinal`, `StepsForward`, `EventuallyConsistent` if gossip loses no compact state |
| `links_compact_sync` | 2 links, 2 compact states | violated: a compact state that gossip lost never arrives |
| `threads` | 2 threads, 2 fids, 4 messages of which 2 are rivals and 2 verify one address, 1 id per millisecond, 2 milliseconds, the clock set back once | `MergesAreAtomic` (of every step), `LogDescribesStore`, `EventIdsUnique`, `NoDanglingEntries`, `OneFidPerAddress` |
| `threads_race` | 2 threads, 3 rivals | violated: an unlocked revoke breaks "highest timestamp wins" |
| `cache` | 2 concurrent calls, 3 calls in all, 3 messages of which 2 are stored at first, a compact state, a prune limit of the configuration, cached count or not, a rent that expires and one that arrives, 2 seconds | `CountIsExact`, `NeverOvercounts`, `SlotIsExact`, `CallsReturn` |
| `cache_refusals` | 1 call at a time, 4 in all | violated: a message that no prune would take is refused |
| `revocation` | 1 signer, 1 message whose name may move on, 3 events, 2 merges and 1 lookup at a time, 2 worker runs, 1 crash | `JobsDoneOnce`, `MatchesChain`, `RevokesForAReason`, `RevokedUnlessCached` |
| `revocation_stale` | 2 signers, 2 messages, 4 events, 1 merge at a time, no lookups, no crash | violated: a removed signer's messages may stay for ever |
| `trie` | 4 keys of 4 characters, 2 of them timestamp, 3 keys in one second; batches of 1 and 2 keys; a commit every 6 rows; 8 sets of keys of the walked and of the secondary peer | `TrieIsCanonical`, `SavedIsCanonical`, `MetadataIsCurrent`, `WalkFindsMissing`, `SnapshotsDetectDivergence` |
| `sync` | 2 messages and an on-chain event, 2 changes of the store or mistaken requests, lists of 1 message and of the event and both messages, 1 fault | `FollowsStore`, `SyncReturns`, `Converges` |
| `watcher` | blocks 8 to 14, 2 events of 2 contracts, queries of 2 blocks, 2 confirmations, 1 fault, 1 retry at a time | `NothingSkipped`, `AllStored` |

Each passing run but `trie`, where `TrieIsCanonical` says more, also checks its
module's `TypeOK`, and each property is shown
to fail under a mutant of a mapped definition.

Why the bounds are enough: conflicts concern one key, two messages and one stored
rival at a time, and differences between hubs are pairwise; the messages tie in
timestamp, in type and in neither. Two threads or calls suffice for every race between
two of them, and the second key and fid show that others are not disturbed.
`SequenceLimit = 1` makes the sequence run out within one prune or a merge beside it.
The links lie on both sides of each line the code draws at a compact state's second,
for its own type and another one. In `revocation` the reset between the signer's two
ADDs has not reached the hub, so its events come in an order the index is not made
for, and two of them can be merged at once. The keys of `trie` part at the last
character, right below the timestamp and in it, so leaves are split and compacted on
both sides of the timestamp's end; the commit threshold lets an update find nodes in
memory, in the batch and in the database. In `sync` two changes are enough for an id
to be merged, deleted and merged again while the first update is still queued; a
revoke of an id is not begun while another one of it is under way, nor a repair of an
event's id. In `watcher` the blocks pass from one digit to two, where the order of
strings differs, and the first event is further back than a restart looks; one
contract's event is of a kind that no query by fid asks for. One retry at a time: any
number is left to the proof. In `cache` the new rent can arrive before, during and
after the recomputation that the expiry of the old one causes. The proofs of section 4
remove the bounds for the safety properties of all components but the trie itself.

Deadlock is checked for `replication`, `threads` and `trie`. The other specifications
bound the number of calls, crashes or new messages, or have nothing left to do
once all hubs agree, so they may stop: their cfgs say `CHECK_DEADLOCK FALSE`.

### Fairness

* `replication`: weak fairness of `Sync` for each pair and message: sync is a
  periodic job that works through the differences with its peers. None for
  gossip or clients.
* `links`: the same, and that a compact state which was published arrives
  (`GossipSpec`). The code does not guarantee the latter; `links_compact_sync`
  drops it and shows what then happens.
* `cache`: the event loop and the thread pool take every step that is ready.
* `sync`: the node thread runs handlers and batches; the trie is written in the
  end, since updates of other ids go on filling its batch; syncs with a peer that
  has an id, and requests of a peer for an id, recur (every hub syncs every two
  hours); a hub that stopped is started; cleared events are read from the chain again.
  None for changes, faults, doubts or requests for mixed lists.
* `watcher`: the chain grows, the node thread and the queries go on, a hub that
  stopped is started. Nothing is asked of the watchers. Strong fairness of `Repair`:
  syncs recur, so one also comes at a moment when no other retry is under way.
* `revocation`: the full scan (each fid on one day of the month) comes round
  (`ScanSpec`). `revocation_stale` also assumes that what a merge or the worker has
  begun goes on (`FairSpec`). None for crashes, lookups, evictions or new events.

## 4. What is proved

The theorems hold for every value of the constants that the named assumptions of
the modules allow. TLC evaluates the assumptions in each run. Besides types
(`TypeCorrect` in each module, `Spec => []TypeOK`):

| Module | Theorem | States | For |
|---|---|---|---|
| `MessageReplicationProofs` | `StrongConvergence` | `StoreIsWinners` | any hubs, keys and messages |
| | `RulesFollowed` | `FollowsDocumentedRules` | |
| | `IndicesNeverDisagree` | `IndicesConsistent` | |
| | `SyncNeverStuck` | `NoSyncDeadEnd` | |
| | `Refinement` | `ImplementsRegisters` | |
| | `OrderLeavesNoTrace` | `SameOffersSameStore` (of indices too) | |
| | `AgreementLasts` | `AgreementIsStable` (an action property) | |
| `LinkReplicationProofs` | `IndicesNeverDisagree` | `IndicesConsistent` | any hubs, link types, targets, links, compact states, legacy entries |
| | `NothingComesBack` | `CompactionIsFinal` | |
| | `OnlyForward` | `StepsForward` (an action property) | |
| | `SyncNeverStuck` | `NoSyncDeadEnd`, by link type | |
| `StoreThreadsProofs` | `LookupsNeverFail` | `NoDanglingEntries` | any threads, fids, messages, addresses, ids per millisecond |
| | `IdsNeverReused` | `EventIdsUnique` | the same, until the clock is set back |
| | `LocksMakeMergesAtomic` | `MergesAreAtomic` (an action property) | |
| | `ThreadsConverge` | `MergesConverge` | |
| | `MergesImplementSerial` | `Serial!Spec` (refinement of `MessageReplication`) | the same, with merges only and `MaxSetBack = 0` |
| | `LogRebuildsStore` | `LogDescribesStore` | the same, until the clock is set back |
| | `AddressesAreExclusive` | `OneFidPerAddress` | |
| `StorageCacheProofs` | `CountsMergesExactly` | `CountIsExact` | any finite sets of calls, messages, compact states and rents |
| | `CountNeverTooHigh` | `NeverOvercounts` | |
| | `SlotFollowsRents` | `SlotIsExact` | |
| | `CountAccountsForEvents` | `CountOffByEvents` | |
| `SignerRevocationProofs` | `JobsTakenOnce` | `JobsDoneOnce` | any merges at once, lookups, worker runs, crashes, signers and events |
| | `RevokedForAReason` | `RevokesForAReason` (an action property) | the same |
| | `RemovalsAreFinal` | `RemovalIsFinal` (an action property) | the same |
| | `NoRemovalForgotten` | `EveryRemovalHasJob` | the same |
| | `IndexFollowsChain` | `MatchesChain` | the same, with a registry that adds a key once and removes it at most once, later |
| `SyncTrieProofs` | `TrieFollowsStore` | `FollowsStore` | any finite set of ids, any lists asked for, any changes and faults |
| | `BatchesMoveTowardStore` | `MovesTowardStore` (an action property) | |
| | `TrieNamesStoredEvents` | `EventsAreStored` | |
| `ChainWatcherProofs` | `NoEventSkipped` | `NothingSkipped` | any chain of blocks in any order of strings, any contracts, fids, retries at once, chunk size and faults; at least one confirmation |
| | `NoEventDropped` | `NothingDropped` (an action property) | |

The properties that no run lists (`SameOffersSameStore`, `AgreementIsStable`,
`MergesConverge`, `MovesTowardStore`, `EventsAreStored`, `NothingDropped`,
`RemovalIsFinal`, `EveryRemovalHasJob`, `CountOffByEvents`, and `NoSyncDeadEnd` of
links) need no instance: they are proved for all.

Assumptions. Timestamps, hashes and rents are naturals; messages with equal hashes
are equal; `None` is none of the things it stands in for; sets whose members are
counted or put in a sequence are finite. `IndexFollowsChain` assumes `RegistryOrder` and
`MergesImplementSerial` that the clock is not set back: these are conditions of the
theorems and not of the modules, because nothing in the code enforces them
(`onChainEventStore.ts:196`, `store_event_handler.rs:35`). `numConfirmations` is a
constant of the code, 2. Of `StringRank` only that different blocks have different
ranks is assumed. What the statements exempt instead of assuming is named in them and,
with the code that makes it necessary, in section 5: times after the clock was set back
(`setBack`), addresses and signers that two operations were about at once (`raced`,
`overlapped`), ids that were revoked by mistake (`tainted`), events that a fault kept
away or that were mined before a watcher's first poll (`lost`).

### The arguments

**Order.** `message_compare` is antisymmetric and transitive among messages of one
key, in both of its forms (`CompareAntisymmetric`, `CompareTransitive`).

**Replication.** `StoreIsWinners` is not inductive: what a merge does depends on
the indices, and the indices on what was deleted before. The inductive invariant
says of each hub's store `s` and offered messages `O` that `s` has its type,
`IndexConsistent(s)` (index entries and messages name each other), at most one of
`adds[k]` and `removes[k]` is set, and every message of `O` is stored or beaten by a
stored one, while `s` holds only messages of `O`. A merge that is accepted replaces
the one entry of its key by a message that beats it; one that is refused is beaten
by, or is, that entry. `StoreIsWinners` and the documented rules follow by
transitivity, `NoSyncDeadEnd` because two entries that refuse each other are equal,
and the refinement because the entry is the register. The winners of a set are
determined by it and the indices by the winners, hence `SameOffersSameStore`. When all
hubs agree, what one of them was offered every other one holds or beats
(`AgreementLasts`), so only a client's new message can change a store.

**Links.** The invariant is one of a single store, `StoreInv`: type, agreement of the
indices in both their forms, and no stored link older than the compact state of its
type that does not list it. `HistoryInv` says of each pair of `compacted` that the
link was not newer than the compact state and not listed by it, and that this compact
state or a newer one is still there; a link of the pair that is stored again is then
in one of the three gaps that `CompactionIsFinal` names. Lemmas show that a deletion
of any stored links, a merge of a link and a merge of a compact state keep it;
replication only composes them. Of two stores with the same compact state of a type, a
link of one that the other refuses is beaten there by a link that the first one
refuses in turn, so the two are equal (`SyncNeverStuck`).

**Threads.** `MergesAreAtomic` says of one step what took many, so the invariant says
what each thread knows at each of its steps (`JobsInv`): a merge holds the lock of its
fid from its first read; what it means to delete is beaten by its message, or verifies
its address for another fid. `IdsInv`: until the clock is set back, ids handed out are
below the generator's and distinct. `ExclusionInv`: at an address that is not marked
as raced, one operation is at work at a time. `ReadsInv`: at a key that no revoke,
prune or race touched, what a merge has read is still so when it commits. From this
follow `KeysInv` (one message a key, named by its index), `OfferedInv` (whatever was
offered is stored or beaten) and `LogInv` (the event of an uncommitted merge is later
than all committed ones about the same message; ids alone do not give that, since they
can be committed out of order). With `ReadsInv` the conflicts a merge found at its
reads are the ones `merge_check` and `merge` find in the part of its lock at the
commit (`ConflictsAreCurrent`, `CommitIsMerge`), and a refusal is one `merge_check`
gives at that step (`RefusalIsMerge`); every other step leaves that part and those of
other locks alone. So each step is a merge or none (`LocksMakeMergesAtomic`) and, when
there are merges only, a step of `MessageReplication` with the locks as hubs and the
merged messages of the log as what is gossiped (`MergesImplementSerial`). All that is
proved of stores that merge one message at a time, its own refinement of
`LwwRegisters` included, thereby holds of threads that only merge, for the messages no
other fid can replace. The attempt to prove `LogDescribesStore` as it was first
stated, without the exception for addresses that were raced for, failed at the commit
of a merge that deletes another fid's verification, and TLC then found the
counterexample: the verification is deleted and merged again, under a later id, after
it was read. The property, and the finding about `verification_store.rs:250` below,
say so now.

**Cache.** The count is right only in quiet states, so the invariant speaks of all
others: `Balance` is the number of stored messages and of those that compact states
deleted, less those that calls have
added and not told the cache of, plus those deleted and not told of. The cached
count, and the total of a scan that has read the database, are at most `Balance`,
and equal to it while nothing was deleted (`Accounts`, which is also what
`CountOffByEvents` says of the cached count). It needs `WarmInv`: until
an event has met a cold cache, a scan runs only before there is a count, and no
message is merged before there is one. `SlotInv` says the same of the rents: a slot
that has not expired sums up the rents in force, except the ones whose event is
still to come (`fresh`) and the ones dropped by a recomputation (`missed`).

**Signers.** `JobsInv`: no job is in two of the places where it is being written, stored
or taken, and none has a number above the merged removals of its signer, so that the next
one is new. A pop deletes a job that is still stored, which needs that there is one worker
(`WorkerInv`). `AloneInv`: a signer that is not in `overlapped` has one merge in progress
at most; everything said of such a signer's index rests on it, however many merges of
other signers run beside. `SignersInv`: the signer of every stored message, cache entry and
lookup that found one is active, has been removed or is in `overlapped`, because a merge
takes the index of an active signer to an ADD or to the REMOVE (`PutsInv`). `IndexInv` and
`SkipsInv`: the index points at the REMOVE once it was offered, and a merge that leaves the
index alone has seen it. `FinalInv`: a merge that is to change the index of a removed
signer removes it or resets it. `EveryRemovalHasJob` is inductive for any number of
merges: a pop deletes a job, also one written again since it was read, and counts as
taken.

**Trie updates.** What is under way for an id is a set of inserts (events, queued
inserts, the batch, duplicates found by a sync) and of deletes (events, what
handlers delete afterwards, queued deletes, the batch, ids asked for).
`Follow(k)`, for an id that is not tainted: an insert under way means `k` is in the
store, a delete that it is not, and with neither the trie agrees with the store;
between the two halves of a batch what it inserted is in the trie. So no insert and
delete of one such id ever meet in a batch, though batches do not keep the order of
updates. While the hub is down the saved trie takes the place of the one in memory.
The proof does not use `doubled`: which ids are found is not affected by the wrong
counts. Every step also satisfies `Flows`: an insert comes to be under way only for an id
in the store, ids enter the trie only from the inserts or, at a start, from what was
saved or stored, and leave a running hub's trie only by the deletes. With `Follow` this
gives `MovesTowardStore`. Of on-chain events, which nothing but `clearEvents` takes out of
the store, it gives `EventInv` without a condition on overlaps, losses and mistaken
revokes.

**Chain watcher.** `NoGap`: an event on the chain is stored, on its way, kept away by
a fault, or `Ahead`: the next or current history sync is going to read it, because of
where it starts (`lastSyncedBlock`, from the last block recorded less the
confirmations) and of the run and contracts it has come to (`Unread`). It needs that a
block recorded as the last one had an event on the chain, that a writer has events in
hand just while it caches or submits them (`TaskInv`), and that the history sync
precedes all other writers (`PhaseInv`). The order of blocks matters only in that the
loop of `writeCachedBlocks` ends: any injective `StringRank` will do. `Carries` is
what each step does to events that are accounted for; `NothingDropped` follows.

### Only model-checked

* Liveness (`EventuallyConsistent`, `CallsReturn`, `RevokedUnlessCached`,
  `SyncReturns`, `Converges`, `AllStored`): fairness and ENABLED are out of the
  prover's reach.
* Everything about the trie itself. `TrieNode` and `MerkleTrie` are built of RECURSIVE
  operators, as the code is of recursive functions; the prover can neither reason in
  a module with such operators nor do the induction over keys that
  `TrieIsCanonical` needs.
* The four violations of section 5, which are runs by nature.

## 5. Findings

Four runs show the code doing what a comment, doc or test of the repository
says it does not; `PROJECT.json` has the quotations.

1. `links_compact_sync`. A compact state lost by gossip is not made up for by sync.
2. `threads_race`. `revoke` deletes the index entry of its message's key even when
   a concurrent merge has already put another message there.
3. `cache_refusals`. After a start, the first merged message becomes the cached
   "earliest", though older ones are stored; a full store then refuses messages
   that are newer than those.
4. `revocation_stale`. The signer cache is invalidated before the removal is
   committed; an entry cached in between makes every scan accept the messages.

Further behaviour met while modelling, for which no run is kept; the properties
above are stated so as not to depend on it:

* Two compact states of one second are not ordered: each hub keeps the first
  (`store.rs:760`). The `links` run uses distinct timestamps.
* The scan of `merge_compact_state` does not look at the link type
  (`store.rs:779`): links of other types are deleted and come back by sync. It deletes
  links of the compact state's own second too (it stops at `>`, `:785`), which
  `merge_add` and `merge_remove` then accept again (they refuse `<`, `:850` and `:913`):
  such a link is deleted and comes back from gossip or a peer that merged it afterwards.
  `CompactionIsFinal` exempts both kinds, and targets that a newer compact state lists
  again.
* The event of that merge does not list what was deleted (`store.rs:332`). The sync trie
  keeps the ids until somebody asks for them, and the storage cache keeps counting the
  links: the count of the link set stays too high by all that compact states deleted, and
  the next prune deletes that many links too many, which the limit would have let stay.
  `CountIsExact` and `NeverOvercounts` are stated with that number (`compacted`).
* Event ids start a millisecond's sequence anew whenever the time differs from the last
  one (`store_event_handler.rs:42`). After the system clock was set back, ids that were
  given out are given out again, and an event overwrites the one stored under its id.
  `EventIdsUnique` and `LogDescribesStore` hold until then.
* Event ids can be committed out of order (`store_event_handler.rs:96`), so the
  log does not grow at its end only. `LogDescribesStore` does not need it.
* A revoke that finds no cached count subtracts from a count that no longer
  includes the message (`storageCache.ts:291`), and two such events that share a
  scan overwrite each other's result. Hence the conditions of `CountIsExact` and
  `NeverOvercounts`.
* A prune that starts before the event of an earlier deletion is processed
  deletes by a stale count (`rustStoreBase.ts:170`).
* Two overlapping merges of one signer's events read the index before either commits
  (`onChainEventStore.ts:194`), and the index can stay at the older event; a removal can
  be undone so. A reset merged beside its ADD can leave the index without an active
  signer, whose messages a scan then revokes. `MatchesChain`, `RevokesForAReason` and
  `RemovalIsFinal` exempt the signers to which this happened (`overlapped`).
* A reset that arrives before the signer's ADD stays in the index (`:196`), since an ADD
  of an earlier block does not replace it. The `revocation` run has a reset that has not
  reached the hub; with one in `Events`, `MatchesChain` fails without any overlap, so
  `IndexFollowsChain` has `RegistryOrder` for a condition.
* `validateOrRevokeMessage` revokes a message for whatever reason its validation fails,
  the absence of a custody event, a name or an address that moved on among them, but not
  for a network error (`engine/index.ts:582`). `RevokesForAReason` takes these as one
  reason beside the signer's removal (`unfit`).
* Two revoke jobs for one signer dated in the same millisecond have the same key
  (`revokeMessagesBySignerJob.ts:92`) and are one; nothing is lost by it.

* A renewal that is merged while an expired slot is recomputed is dropped by the
  write that follows (`storageCache.ts:167`), until the slot expires again: the
  limit is too low meanwhile, and messages that are paid for are refused or
  pruned. `SlotIsExact` leaves these rents out; without that TLC finds the case in
  eight steps.
* An id that is twice in one batch of inserts (`trie_node.rs:145`): the counts,
  hashes and rows above its leaf are not updated. Inserting `<<k, k>>` into an
  empty trie leaves a root with no items below which `k` is found. Two events of
  one message can bring it about, because `merkleTrie.ts:281` keys its queue by the
  identity of the byte array. `Converges` exempts a hub once it has happened; a
  rebuild corrects it.
* A message deleted and merged again within one batch: inserts are applied before
  deletes, so the id is missing from the trie, whatever the comment at
  `syncEngine.ts:696` says about order. A sync puts it back (`Converges`).
* `get_node` reads a node from the database although the batch deletes it
  (`merkle_trie.rs:256`), so a sync can take no notice of an id deleted since the
  last commit (`gone`). The compaction in `delete` names the row of the child by a
  doubled prefix and leaves it behind; the row is never read.
* The diff walk asks a secondary peer for the ids below a node, and the walked peer only
  where the secondary has none (`syncEngine.ts:1809`). A key of the walked peer is passed
  over when the secondary holds another key below the leaf it is at; a later sync, with
  other secondaries, may find it. `WalkFindsMissing` names this case.
* `doBatchUpdate` resolves all updates of a batch that failed; `stop` waits for the
  queue only during a sync; the trie is written every ten thousand rows or at a
  stop; a start with a trie that lags behind only warns (`hubble.ts:692`).
* Two fids that verify one address at the same time hold different locks: both may
  keep it, or a deletion by one drops the entry of the other
  (`verification_store.rs:250`). `OneFidPerAddress` is stated for addresses without
  overlapping operations.
* The look-back of two blocks after a restart (`l2EventsProvider.ts:629`) is too
  short when a watcher lags behind the blocks, or two writers overlap; a query that
  fails three times counts as empty; a watcher that failed starts from the latest
  block. Such events are stored only when a sync reads their block again, and not
  before a restart if that read fails too, because the block stays in
  `_retryDedupMap` (`:675`). `NothingSkipped` and `AllStored` exempt exactly these.
* The watchers are started and not waited for (`l2EventsProvider.ts:248`). What is mined
  after the latest block was read and before a watcher's first poll is seen by neither it
  nor the history sync; `NothingSkipped` exempts it (`lost`), and a sync repairs it.
* `writeCachedBlocks` does not look at the answer of `submitOnChainEvent` (`:1047`): a
  refused event is dropped, and its block recorded as written.
* `retryEventsForFid` does nothing before the first new block, and still counts as
  this hour's retry.
* The hub state is read, changed and written as one record by four writers
  (`fnameRegistryEventsProvider.ts:137`, `onChainEventStore.ts:287`,
  `validateOrRevokeMessagesJob.ts:126`, `l2EventsProvider.ts`): one may restore an
  older block of another.
* `findCorruptedSyncIDs` pairs ids and messages by position, though ids of other kinds
  have no message and leave no gap (`syncEngine.ts:1461`, `:1942`). When an audit, say,
  asks for ids of both kinds (`:1389`) and one message is missing, the id revoked may be
  that of a message or an on-chain event that is stored, and the missing one's stays.
  `FollowsStore` and `MovesTowardStore` exempt the ids this happens to (`tainted`) and
  hold for all others; syncs put the id back, and `Converges` does not exempt it.
* `--l2-clear-events` deletes on-chain events and not their ids in the trie
  (`hubble.ts:700`, `onChainEventStore.ts:278`); peers are told of events that cannot be
  served until the chain is read again. `EventsAreStored` names these.
* An error in `doJobs` leaves
  `_running` set (`validateOrRevokeMessagesJob.ts:97`). The condition at
  `engine/index.ts:325` compares with the first of three strings only and so is
  always true: any refused message makes the hub ask for its on-chain events.

## 6. Not modelled

* In the replication modules: what makes a hub refuse a message that its store would take.
  `MergeAt`, `MergeLinkAt` and `MergeCompactAt` leave out validation (signature, signer,
  name), a fid without storage, the rate limit of merges and prunability, all of which
  `engine/index.ts:286` looks at first, and the revokes and prunes that take messages out
  again. Convergence is of hubs that accept the same messages; a hub whose chain state or
  limit differs holds others until it catches up.
* Signatures, validation of single messages, encoding, RPC, HTTP, CLI, metrics,
  snapshots: predicates over bytes, or I/O.
* Errors of the database. With one, `CallsReturn` would fail: the promise of a
  count scan that rejects is never settled (`storageCache.ts:134`).
* Peer scores, connection filters, timers: replaced by fairness.
* The trie in the replication modules: they use what a peer stores in its place;
  `MerkleTrie` and `SyncTrie` show when that is justified.
* In the trie: keys of different length and with different first digits (all
  timestamps until 2052 share it), database errors.
* In sync: the choice of peers, the bound of the work queue, interruption, the scores
  an audit changes, the ids of fnames. In the watcher: reorganisations (the code does
  not handle them beyond the confirmations), the once-an-hour limit of retries by fid
  (its queries, one for each kind of event, are one for each contract),
  `--resync-eth-events`.
* The two kinds of storage units, which differ in what they allow and how long.
* Username proofs and fnames: their index by name is shared by fids in the way of
  `byAddress` and exposed to the same races.
* Id register and signer migration events.
* Generated protobuf code, vendored code, the client packages and shuttle.

## 7. Plan

1. Proofs left: an abstract specification of the storage cache (a counter per store,
   exact between calls) and its refinement; `MergesImplementSerial` with revokes and
   prunes, for which `MessageReplication` would need both.
2. `MatchesChain` with resets, for the orders of ADD and reset that the sources of events
   can produce.
3. Modelling left: username proofs in the manner of `byAddress`, id register events
   and transfers, the schedule of the jobs, shuttle.
