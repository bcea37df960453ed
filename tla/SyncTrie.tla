------------------------------- MODULE SyncTrie -------------------------------
(***************************************************************************)
(* How the sync trie of a hub follows its store.  Commits to the store     *)
(* become events; their handlers in syncEngine.ts queue inserts and        *)
(* deletes of sync ids, and merkleTrie.ts applies what is queued in        *)
(* batches, inserts before deletes (MerkleTrie.tla is the trie itself;     *)
(* here it is a set of ids).  Nothing orders the updates of one id, so the *)
(* trie may lose step with the store; a sync with a peer and a peer that   *)
(* asks for an id correct it, or revoke the wrong id.                      *)
(***************************************************************************)
EXTENDS Integers, FiniteSets, SequencesExt

CONSTANTS
    Messages, Events,   \* ids of messages and of on-chain events
    Initial,            \* what may be in the store, and in the trie, at first
    Asked,              \* lists of ids that a peer may ask for
    MaxChanges,         \* bound: changes of the store, and requests that revoke other ids
    MaxFaults           \* bound: crashes, shutdowns and failed batches

ASSUME SyncTrieAssumption ==
    /\ Messages \cap Events = {}
    /\ IsFiniteSet(Messages \cup Events)
    /\ Initial \subseteq SUBSET Messages
    /\ \A asked \in Asked : asked \in Seq(Messages \cup Events)
    /\ \A m \in Messages : <<m>> \in Asked
    /\ MaxChanges \in Nat /\ MaxFaults \in Nat

VARIABLES
    store,      \* the ids of what is in the store
    events,     \* committed changes whose event is not emitted yet
    inserts,    \* _trieInserts, in insertion order: it may hold an id twice
    deletes,    \* _trieDeletes, a set: twice the same delete is no other than once
    flight,     \* the batch doBatchUpdate waits for
    trie,       \* the ids in the trie, in memory
    saved,      \* the ids as of the last commit of the trie
    gone,       \* the ids deleted since then
    checks,     \* duplicate events whose trie.exists is awaited
    dups,       \* what a sync found to be in the store already, to be inserted
    asks,       \* sets of ids that a request found no message for, to be revoked
    busy,       \* ids the current sync waits for
    up,         \* the hub runs
    counts,     \* changes and faults so far
    cleared,    \* events deleted by --l2-clear-events and not merged again yet
    tainted,    \* history: ids whose updates overlapped, were lost, or revoked by mistake
    doubled     \* history: a batch held an id twice

volatile == <<events, inserts, deletes, flight, checks, dups, asks, busy>>
vars == <<store, volatile, trie, saved, gone, up, counts, cleared, tainted, doubled>>

Ids == Messages \cup Events

NoBatch == [pc |-> "idle", ins |-> <<>>, del |-> {}]

\* An update of id; then: the ids its handler deletes after it; sync: a sync waits for it.
Update(id, then, sync) == [id |-> id, then |-> then, sync |-> sync]

IdsOf(updates) == {u.id : u \in updates} \cup UNION {Range(u.then) : u \in updates}

\* Updates of id are under way.
Pending(id) ==
    \/ \E ev \in Range(events) : id = ev.id \/ id \in Range(ev.then)
    \/ id \in IdsOf(Range(inserts) \cup deletes \cup Range(flight.ins) \cup flight.del)
    \/ id \in checks \cup dups \cup UNION asks

Idle ==
    /\ events = <<>> /\ inserts = <<>> /\ deletes = {} /\ flight = NoBatch
    /\ checks = {} /\ dups = {} /\ asks = {} /\ busy = {}

Init ==
    /\ store \in Initial
    /\ trie = store /\ saved = store /\ gone = {}
    /\ Idle
    /\ up = TRUE
    /\ counts = [changes |-> 0, faults |-> 0]
    /\ cleared = {} /\ tainted = {}
    /\ doubled = FALSE

-----------------------------------------------------------------------------
(* The store.  An event is emitted some time after its commit.             *)

Put(S, ev, missed) ==
    /\ up
    /\ store' = S
    /\ events' = Append(events, ev)
    /\ tainted' = tainted \cup missed \cup {k \in {ev.id} \cup Range(ev.then) : Pending(k)}
    /\ UNCHANGED <<inserts, deletes, flight, trie, saved, gone, checks, dups, asks, busy, up, doubled>>

Counted == counts.changes < MaxChanges /\ counts' = [counts EXCEPT !.changes = @ + 1]

Change(S, ev, missed) == Counted /\ Put(S, ev, missed) /\ UNCHANGED cleared

\* A message is merged and D, which it replaces, is deleted.
MergeMessage(m, D) ==
    Change((store \ D) \cup {m}, [kind |-> "merge", id |-> m, then |-> SetToSeq(D)], {})

\* A compact state is merged: the links it deletes are not in its event.
MergeCompactState(m, D) ==
    Change((store \ D) \cup {m}, [kind |-> "merge", id |-> m, then |-> <<>>], D)

\* pruneMessage and revokeMessage.
RemoveMessage(m) == Change(store \ {m}, [kind |-> "remove", id |-> m, then |-> <<>>], {})

\* Events that were cleared are read from the chain again.
MergeOnChainEvent(e) ==
    /\ IF e \in cleared THEN UNCHANGED counts ELSE Counted
    /\ Put(store \cup {e}, [kind |-> "merge", id |-> e, then |-> <<>>], {})
    /\ cleared' = cleared \ {e}

-----------------------------------------------------------------------------
(* insertBytes and deleteByBytes.  The maps are keyed by the byte array    *)
(* object, a new one for every SyncId, so "remove it from the other queue  *)
(* if it was there" finds nothing.  When no batch is in flight the update  *)
(* is a batch of its own.                                                  *)

Queue(ins, del) ==
    IF flight = NoBatch
    THEN /\ flight' = [pc |-> "insert", ins |-> ins, del |-> del]
         /\ UNCHANGED <<inserts, deletes>>
    ELSE /\ inserts' = inserts \o ins
         /\ deletes' = deletes \cup del
         /\ UNCHANGED flight

\* Mutant: the handler deletes what a merge replaced right away, and not after the insert.
handler_at_once(j) ==
    /\ up
    /\ LET ev == events[j]
       IN IF ev.kind = "merge" THEN Queue(<<Update(ev.id, <<>>, FALSE)>>, {})
          ELSE Queue(<<>>, {Update(ev.id, <<>>, FALSE)})
    /\ events' = RemoveAt(events, j)
    /\ UNCHANGED <<store, trie, saved, gone, checks, dups, asks, busy, up, counts, cleared, tainted, doubled>>

\* An event is emitted, in no particular order, and its handler queues the first update.
Handle(j) ==
    /\ up
    /\ LET ev == events[j]
       IN IF ev.kind = "merge" THEN Queue(<<Update(ev.id, ev.then, FALSE)>>, {})
          ELSE Queue(<<>>, {Update(ev.id, <<>>, FALSE)})
    /\ events' = RemoveAt(events, j)
    /\ UNCHANGED <<store, trie, saved, gone, checks, dups, asks, busy, up, counts, cleared, tainted, doubled>>

\* An id is twice in a batch: the counts and hashes above it are wrong (TrieNode.insert).
Doubled(updates) == \E i, j \in DOMAIN updates : i # j /\ updates[i].id = updates[j].id

\* Mutant: ids that are inserted again are still held to be gone.
inserts_still_gone ==
    /\ flight.pc = "insert"
    /\ flight' = [flight EXCEPT !.pc = "delete"]
    /\ trie' = trie \cup {u.id : u \in Range(flight.ins)}
    /\ doubled' = (doubled \/ Doubled(flight.ins))
    /\ UNCHANGED <<store, events, inserts, deletes, saved, gone, checks, dups, asks, busy, up, counts, cleared, tainted>>

\* js_batch_update on a thread: first the inserts ...
BatchInserts ==
    /\ flight.pc = "insert"
    /\ flight' = [flight EXCEPT !.pc = "delete"]
    /\ trie' = trie \cup {u.id : u \in Range(flight.ins)}
    /\ gone' = gone \ trie'
    /\ doubled' = (doubled \/ Doubled(flight.ins))
    /\ UNCHANGED <<store, events, inserts, deletes, saved, checks, dups, asks, busy, up, counts, cleared, tainted>>

\* Mutant: the promises of the inserts of a sync are dropped with the batch.
Resolve_handlers_only ==
    LET done == Range(flight.ins) \cup flight.del
    IN /\ flight' = [NoBatch EXCEPT !.pc = "sleep"]
       /\ deletes' = deletes \cup {Update(Head(u.then), Tail(u.then), FALSE) : u \in {v \in done : v.then # <<>>}}
       /\ UNCHANGED <<inserts, busy>>

\* The promises of the batch are resolved, and the handlers that waited queue what they
\* delete next.
Resolve ==
    LET done == Range(flight.ins) \cup flight.del
    IN /\ flight' = [NoBatch EXCEPT !.pc = "sleep"]
       /\ deletes' = deletes \cup {Update(Head(u.then), Tail(u.then), FALSE) : u \in {v \in done : v.then # <<>>}}
       /\ busy' = busy \ {u.id : u \in {v \in done : v.sync}}
       /\ UNCHANGED inserts

\* ... then the deletes.
BatchDeletes ==
    /\ flight.pc = "delete"
    /\ Resolve
    /\ trie' = trie \ {u.id : u \in flight.del}
    /\ gone' = (gone \cup trie) \ trie'
    /\ UNCHANGED <<store, events, saved, checks, dups, asks, up, counts, cleared, tainted, doubled>>

\* The inserts, or the deletes after them, fail: everything is resolved all the same.
BatchFails ==
    /\ flight.pc \in {"insert", "delete"} /\ counts.faults < MaxFaults
    /\ counts' = [counts EXCEPT !.faults = @ + 1]
    /\ Resolve
    /\ tainted' = tainted \cup IdsOf(Range(flight.ins) \cup flight.del)
    /\ UNCHANGED <<store, events, trie, saved, gone, checks, dups, asks, up, cleared, doubled>>

\* After a millisecond: the next batch, or none.
NextBatch ==
    /\ flight.pc = "sleep"
    /\ flight' = IF inserts = <<>> /\ deletes = {} THEN NoBatch
                 ELSE [pc |-> "insert", ins |-> inserts, del |-> deletes]
    /\ inserts' = <<>> /\ deletes' = {}
    /\ UNCHANGED <<store, events, trie, saved, gone, checks, dups, asks, busy, up, counts, cleared, tainted, doubled>>

\* With an update of this batch or, between batches, of other ids the trie has enough
\* changes and writes them.
Commit ==
    /\ up /\ flight.pc # "insert"
    /\ saved' = trie /\ gone' = {}
    /\ UNCHANGED <<store, volatile, trie, up, counts, cleared, tainted, doubled>>

-----------------------------------------------------------------------------
(* A sync with a peer that holds id, which is not in our trie.  Of ids     *)
(* deleted since the last commit it may take no notice (MerkleTrie).       *)

\* The message is fetched and submitted, and is a duplicate.
SyncFindsMessage(m) ==
    /\ up /\ m \notin trie \cup gone \cup busy /\ m \in store
    /\ dups' = dups \cup {m} /\ busy' = busy \cup {m}
    /\ tainted' = tainted \cup {k \in {m} : Pending(k)}
    /\ UNCHANGED <<store, events, inserts, deletes, flight, trie, saved, gone, checks, asks, up, counts, cleared, doubled>>

\* mergeMessages: "already been merged into the DB, but for some reason is not in the
\* Trie"; and the handler of duplicateOnChainEvent, which the sync does not wait for.
InsertDuplicate(k) ==
    /\ k \in dups
    /\ dups' = dups \ {k}
    /\ Queue(<<Update(k, <<>>, k \in Messages)>>, {})
    /\ UNCHANGED <<store, events, trie, saved, gone, checks, asks, busy, up, counts, cleared, tainted, doubled>>

\* The block of the event is read again and its merge is a duplicate.
SyncFindsEvent(e) ==
    /\ up /\ e \notin trie \cup gone /\ e \in store
    /\ e \notin checks \cup dups \cup IdsOf(Range(inserts) \cup Range(flight.ins))   \* bound: one repair of an id at a time
    /\ checks' = checks \cup {e}
    /\ tainted' = tainted \cup {k \in {e} : Pending(k)}
    /\ UNCHANGED <<store, events, inserts, deletes, flight, trie, saved, gone, dups, asks, busy, up, counts, cleared, doubled>>

\* The trie answers whether it has the id of the event.
CheckExists(e) ==
    /\ e \in checks
    /\ checks' = checks \ {e}
    /\ dups' = IF e \in trie THEN dups ELSE dups \cup {e}
    /\ UNCHANGED <<store, events, inserts, deletes, flight, trie, saved, gone, asks, busy, up, counts, cleared, tainted, doubled>>

-----------------------------------------------------------------------------
(* getAllMessagesBySyncIds of the RPC server: a peer asks for a list of    *)
(* ids, and where a message is not found an id is deleted.                 *)

\* Messages are read for the ids of messages alone, so the place of one that is missing
\* is its own place in the list only if no other id comes before it.
findCorruptedSyncIDs(asked) ==
    LET messages == {i \in DOMAIN asked : asked[i] \in Messages}
    IN {asked[Cardinality({j \in messages : j <= i})] : i \in {j \in messages : asked[j] \notin store}}

\* The store is read and does not have the messages of the ids in K.
NotFound(K) ==
    /\ up /\ K # {}
    /\ K \cap ((UNION asks) \cup IdsOf(deletes \cup flight.del)) = {}   \* bound: one revoke of an id at a time
    /\ asks' = asks \cup {K}
    /\ tainted' = tainted \cup {k \in K : k \in store \/ Pending(k)}
    /\ UNCHANGED <<store, events, inserts, deletes, flight, trie, saved, gone, checks, dups, busy, up, cleared, doubled>>

\* Ids that the store has are revoked by mistake; those that the trie does not have may
\* be on their way into it.
PeerAsks(asked) ==
    LET K == findCorruptedSyncIDs(asked)
    IN /\ NotFound(K)
       /\ IF K \subseteq trie \ store THEN UNCHANGED counts ELSE Counted

\* Our own diff walk doubts ids of the trie, the messages among them all at once, the
\* events one by one.
revokeCorruptedSyncIds(K) == K \subseteq trie /\ NotFound(K \ store) /\ UNCHANGED counts

\* Mutant: what the store did not have is left in the trie.
keep_sync_ids(K) ==
    /\ K \in asks
    /\ asks' = asks \ {K}
    /\ UNCHANGED <<store, events, inserts, deletes, flight, trie, saved, gone, checks, dups, busy, up, counts, cleared, tainted, doubled>>

revokeSyncIds(K) ==
    /\ K \in asks
    /\ asks' = asks \ {K}
    /\ Queue(<<>>, {Update(k, <<>>, FALSE) : k \in K})
    /\ UNCHANGED <<store, events, trie, saved, gone, checks, dups, busy, up, counts, cleared, tainted, doubled>>

-----------------------------------------------------------------------------
(* Shutdown, crash and restart.                                            *)

Down(S) ==
    /\ up /\ counts.faults < MaxFaults
    /\ counts' = [counts EXCEPT !.faults = @ + 1]
    /\ up' = FALSE
    /\ saved' = S
    /\ trie' = {} /\ gone' = {}
    /\ events' = <<>> /\ inserts' = <<>> /\ deletes' = {} /\ flight' = NoBatch
    /\ checks' = {} /\ dups' = {} /\ asks' = {} /\ busy' = {}
    /\ tainted' = tainted \cup {k \in Ids : Pending(k) \/ ((k \in S) # (k \in trie))}
    /\ UNCHANGED <<store, cleared, doubled>>

\* stop of the sync engine waits for the queue of the trie only while a sync runs, and
\* then not for longer than a timeout; the trie writes what it has.
Stop == Down(trie)

Crash == Down(saved)

\* With --l2-clear-events the events are deleted first; the trie is not told.
clearEvents(S) ==
    /\ ~up /\ S \in {store, store \ Events}
    /\ store' = S
    /\ cleared' = cleared \cup (store \ S)

Start(S) ==
    /\ clearEvents(S)
    /\ up' = TRUE
    /\ trie' = saved
    /\ tainted' = tainted \cup (store \ S)
    /\ UNCHANGED <<volatile, saved, gone, counts, doubled>>

\* --rebuild-sync-trie: an empty trie takes the id of everything in the store.
StartRebuild(S) ==
    /\ clearEvents(S)
    /\ up' = TRUE
    /\ trie' = S /\ saved' = {} /\ tainted' = {} /\ doubled' = FALSE
    /\ UNCHANGED <<volatile, gone, counts>>

StoreChanges ==
    \/ \E m \in Messages \ store : \E D \in SUBSET (store \cap Messages) :
           Cardinality(D) <= 1 /\ (MergeMessage(m, D) \/ MergeCompactState(m, D))
    \/ \E m \in Messages \cap store : RemoveMessage(m)
    \/ \E e \in Events \ store : MergeOnChainEvent(e)

Handlers ==
    \/ \E j \in DOMAIN events : Handle(j)
    \/ \E id \in Ids : InsertDuplicate(id) \/ CheckExists(id)
    \/ \E K \in asks : revokeSyncIds(K)

BatchUpdate == BatchInserts \/ BatchDeletes \/ NextBatch

Syncs == (\E m \in Messages : SyncFindsMessage(m)) \/ (\E e \in Events : SyncFindsEvent(e))

\* A peer that has not got the messages of a diff walk asks for messages alone.
Requests == \E m \in Messages \cap trie : PeerAsks(<<m>>)

Doubts ==
    \/ \E K \in SUBSET (Messages \cap trie) : revokeCorruptedSyncIds(K)
    \/ \E e \in Events : revokeCorruptedSyncIds({e})

Starts == \E S \in {store, store \ Events} : Start(S) \/ StartRebuild(S)

Next ==
    \/ StoreChanges \/ Handlers \/ BatchUpdate \/ Commit \/ Syncs \/ Doubts
    \/ \E asked \in Asked : PeerAsks(asked)
    \/ BatchFails \/ Stop \/ Crash \/ Starts

Spec == Init /\ [][Next]_vars

\* The node thread and the Rust threads go on; other updates fill the batch of the
\* trie; syncs with peers and from peers come around again; the hub is restarted; the
\* watchers of the chain read cleared events again.
FairSpec ==
    /\ Spec
    /\ WF_vars(Handlers) /\ WF_vars(BatchUpdate) /\ WF_vars(Commit)
    /\ WF_vars(Syncs) /\ WF_vars(Requests)
    /\ WF_vars(Starts) /\ WF_vars(\E e \in cleared : MergeOnChainEvent(e))

-----------------------------------------------------------------------------
(* Properties                                                              *)

TypeOK ==
    /\ store \subseteq Ids /\ trie \subseteq Ids /\ saved \subseteq Ids /\ gone \subseteq Ids \ trie
    /\ flight.pc \in {"idle", "insert", "delete", "sleep"}
    /\ IdsOf(Range(inserts) \cup deletes) \subseteq Ids
    /\ checks \subseteq Events /\ dups \subseteq Ids /\ asks \subseteq SUBSET Ids
    /\ cleared \subseteq Events \ store
    /\ ~up => Idle /\ trie = {}

\* An id whose updates never overlapped, none of whose updates was lost with the process
\* or left out of an event, and that was not revoked in place of another, is in the trie
\* exactly when it is in the store, as soon as no update of it is under way, whatever
\* happens to other ids in the same batches, syncs and requests.
FollowsStore ==
    up /\ ~doubled => \A k \in Ids \ tainted : ~Pending(k) => (k \in trie <=> k \in store)

\* No batch moves the trie of a running hub away from its store: an id whose updates never
\* overlapped, and that was not revoked by mistake, enters the trie only while it is in the
\* store and leaves only while it is not, so peers are never told of a change that was
\* undone since.
MovesTowardStore ==
    [][up /\ up' => \A k \in Ids \ tainted' :
          (k \in trie) # (k \in trie') => (k \in trie' <=> k \in store')]_vars

\* Whatever overlaps, fails, is lost or revoked, the id of an on-chain event in the trie,
\* in memory or saved, is that of an event in the store, or of one that was cleared and is
\* still to be read from the chain again.
EventsAreStored == (trie \cup saved) \cap Events \subseteq store \cup cleared

\* A sync ends: mergeMessages awaits the insert of each duplicate, and every one of
\* these promises is resolved, whatever batch its insert is put in.
SyncReturns == \A k \in Messages : []<>(k \notin busy)

\* When the store no longer changes, the trie ends up with exactly its ids, after
\* updates applied in any order, restarts without the last batch, links deleted
\* silently, ids revoked by mistake and events cleared and read again; unless a batch
\* held an id twice: then the counts of the trie are wrong until it is rebuilt.
Converges == <>[](up /\ (doubled \/ trie = store))
===============================================================================
