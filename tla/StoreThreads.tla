----------------------------- MODULE StoreThreads -----------------------------
(***************************************************************************)
(* The threads of one hub that write a set store: merges (js_merge on the  *)
(* node thread, js_merge_many on the thread pool) hold the lock of their   *)
(* fid from the first read to the commit; js_revoke and js_prune_messages  *)
(* take no lock.  Every operation fetches its event id from the shared     *)
(* HubEventIdGenerator before it commits its transaction, and the          *)
(* transaction writes the event under that id.                             *)
(*                                                                         *)
(* A verification also has an entry by address, which all fids share: an   *)
(* add replaces the one of another fid, whose lock it does not hold.       *)
(***************************************************************************)
EXTENDS MessageStore, FiniteSets

CONSTANTS
    Threads,
    Locks,          \* fid_locks
    LockOf,         \* LockOf[k]: the lock of the fid that key k belongs to
    AddressOf,      \* AddressOf[k]: the address key k is about, None in other stores
    Ops,            \* the operations of this instance: "merge", "revoke", "prune"
    SequenceLimit,  \* 2^SEQUENCE_BITS: the ids of one millisecond
    MaxClock,       \* bound: the last millisecond of a behaviour
    MaxSetBack      \* bound: how often the clock is set back

ASSUME ThreadsAssumption ==
    /\ LockOf \in [Keys -> Locks]
    /\ DOMAIN AddressOf = Keys
    /\ Ops \subseteq {"merge", "revoke", "prune"}
    /\ SequenceLimit \in Nat \ {0} /\ MaxClock \in Nat \ {0} /\ MaxSetBack \in Nat
    /\ None \notin Threads \cup Keys

Addresses == {AddressOf[k] : k \in Keys} \ {None}

VARIABLES
    db,         \* the store
    byAddress,  \* byAddress[a]: the fid that verified a, as the key of its message
    events,     \* the event log: a set of [id, op, msg, deleted]
    lock,       \* lock[l]: the thread that holds l
    job,        \* job[t]: what thread t is doing
    clock,      \* milliseconds of the system's clock
    generator,  \* [last_timestamp, last_seq]
    setBack,    \* history: how often the system's clock went back
    offered,    \* history: messages whose merge was committed or refused
    undone,     \* history: messages whose revoke or prune was committed
    raced       \* history: addresses two operations worked on at once

vars == <<db, byAddress, events, lock, job, clock, generator, setBack, offered, undone, raced>>

Idle == [pc |-> "idle", op |-> None, todo |-> {}, deleted |-> {}, evs |-> {}]

Init ==
    /\ db = EmptyStore
    /\ byAddress = [a \in Addresses |-> None]
    /\ events = {}
    /\ lock = [l \in Locks |-> None]
    /\ job = [t \in Threads |-> Idle]
    /\ clock = 1
    /\ generator = [last_timestamp |-> 0, last_seq |-> 0]
    /\ setBack = 0
    /\ offered = {}
    /\ undone = {}
    /\ raced = {}

-----------------------------------------------------------------------------
\* Mutant: the epoch is subtracted once more.
make_event_id_before_epoch(timestamp, seq) == (timestamp - 2) * SequenceLimit + seq

\* The timestamp above SEQUENCE_BITS bits of sequence, the rest of which is cut off.
make_event_id(timestamp, seq) == timestamp * SequenceLimit + (seq % SequenceLimit)

\* HubEventIdGenerator::generate_id: the sequence starts over each millisecond
\* and is advanced even when the id is then refused (all values from
\* SequenceLimit on are refused alike and count as one here).
generate_id ==
    IF clock = generator.last_timestamp
    THEN [generator EXCEPT !.last_seq = IF @ < SequenceLimit THEN @ + 1 ELSE @]
    ELSE [last_timestamp |-> clock, last_seq |-> 0]

\* Mutant: an exhausted sequence goes unnoticed.
sequence_overflows == FALSE

sequence_exhausted == generate_id.last_seq >= SequenceLimit

\* The message an operation without a subject works on; merges have one.
Subject(t) == CHOOSE m \in job[t].todo : TRUE

ReleasedLocks(t) == [l \in Locks |-> IF lock[l] = t THEN None ELSE lock[l]]

\* The operation ends without having written anything.
GiveUp(t) ==
    /\ job' = [job EXCEPT ![t] = Idle]
    /\ lock' = ReleasedLocks(t)
    /\ UNCHANGED <<db, byAddress, events>>

AddressesOf(M) == {AddressOf[m.key] : m \in M} \ {None}

\* The addresses thread t works on.
Working(t) == AddressesOf(job[t].todo \cup {e.msg : e \in job[t].evs})

\* Thread t begins the job j on the messages M.
Begin(t, j, M) ==
    /\ job[t].pc = "idle"
    /\ job' = [job EXCEPT ![t] = j]
    /\ raced' = raced \cup (AddressesOf(M) \cap UNION {Working(u) : u \in Threads})

-----------------------------------------------------------------------------
(* Store::merge                                                            *)

\* Mutant: merges of a fid do not exclude each other.
StartUnlocked(t, m) ==
    /\ "merge" \in Ops
    /\ Begin(t, [Idle EXCEPT !.pc = "removes", !.op = "merge", !.todo = {m}], {m})
    /\ UNCHANGED <<db, byAddress, events, lock, offered, undone, clock, generator, setBack>>

LockFid(t, m) ==
    /\ "merge" \in Ops
    /\ lock[LockOf[m.key]] = None
    /\ lock' = [lock EXCEPT ![LockOf[m.key]] = t]
    /\ Begin(t, [Idle EXCEPT !.pc = "removes", !.op = "merge", !.todo = {m}], {m})
    /\ UNCHANGED <<db, byAddress, events, offered, undone, clock, generator, setBack>>

\* get_default_merge_conflicts, its read of one of the two set indices.
ReadIndex(t, pc, index, next) ==
    LET m == Subject(t)
    IN  /\ job[t].pc = pc
        /\ \/ /\ RefusedBy(index, m)
              /\ offered' = offered \cup {m}
              /\ GiveUp(t)
           \/ /\ ~RefusedBy(index, m)
              /\ job' = [job EXCEPT ![t].deleted = @ \cup ConflictIn(db, index, m),
                                    ![t].pc = next]
              /\ UNCHANGED <<db, byAddress, events, lock, offered>>
        /\ UNCHANGED <<clock, generator, setBack, undone, raced>>

ReadRemoves(t) == ReadIndex(t, "removes", db.removes, "adds")

ReadAdds(t) ==
    LET m == Subject(t)
    IN  ReadIndex(t, "adds", db.adds,
                  IF is_add_type(m) /\ AddressOf[m.key] # None THEN "address" ELSE "id")

\* Mutant: only the verifications of the message's own fid are looked at.
rival_of_own_fid(m) == {}

\* The verification of the same address that another fid holds, by both indices.
rival(m) == {db.adds[k] : k \in {byAddress[AddressOf[m.key]]} \ {None, m.key}} \ {None}

\* get_merge_conflicts of an add: the rival refuses it, or is deleted with its merge.
ReadByAddress(t) ==
    LET m == Subject(t)
    IN  /\ job[t].pc = "address"
        /\ \/ /\ \E n \in rival(m) : message_compare(n, m) >= 0
              /\ offered' = offered \cup {m}
              /\ GiveUp(t)
           \/ /\ \A n \in rival(m) : message_compare(n, m) < 0
              /\ job' = [job EXCEPT ![t].deleted = @ \cup (rival(m) \cap db.msgs), ![t].pc = "id"]
              /\ UNCHANGED <<db, byAddress, events, lock, offered>>
        /\ UNCHANGED <<clock, generator, setBack, undone, raced>>

-----------------------------------------------------------------------------
(* Store::revoke and Store::prune_messages                                 *)

\* The caller read m from the database some time before; nothing is re-read.
StartRevoke(t, m) ==
    /\ "revoke" \in Ops
    /\ m \in db.msgs
    /\ Begin(t, [Idle EXCEPT !.pc = "id", !.op = "revoke", !.todo = {m}, !.deleted = {m}], {m})
    /\ UNCHANGED <<db, byAddress, events, lock, offered, undone, clock, generator, setBack>>

\* ts_hash order, the order of the primary keys.
Older(m, n) == m.ts < n.ts \/ (m.ts = n.ts /\ m.hash < n.hash)

\* The iterator works on the database as it is when the prune starts and goes on, oldest
\* first, until the count it was called with is down to the limit: the count is the cached
\* one of the caller, so any number n of messages may go.
StartPrune(t, l, n) ==
    LET mine   == {m \in db.msgs : LockOf[m.key] = l}
        pruned == {m \in mine : Cardinality({o \in mine : Older(o, m)}) < n}
    IN  /\ "prune" \in Ops
        /\ pruned # {}
        /\ Begin(t, [Idle EXCEPT !.pc = "id", !.op = "prune", !.todo = pruned, !.deleted = pruned], pruned)
        /\ UNCHANGED <<db, byAddress, events, lock, offered, undone, clock, generator, setBack>>

-----------------------------------------------------------------------------
(* All operations                                                          *)

\* Mutant: the merge event does not name what the merge deletes.
merge_event_only(t, m) == {}

\* The messages the event about m reports as gone: the conflicts of a merge
\* (merge_event_args), the message itself of a revoke or a prune
\* (revoke_event_args, prune_event_args).
event_args(t, m) == IF job[t].op = "merge" THEN job[t].deleted ELSE {m}

\* StoreEventHandler::commit_transaction: fetches the next id and adds the event
\* to the transaction (once per message, oldest first); an exhausted sequence
\* fails the operation.
TakeEventId(t, m) ==
    /\ job[t].pc = "id"
    /\ m \in job[t].todo
    /\ \A n \in job[t].todo : ~Older(n, m)
    /\ generator' = generate_id
    /\ \/ /\ sequence_exhausted
          /\ GiveUp(t)
       \/ /\ ~sequence_exhausted
          /\ LET e == [id      |-> make_event_id(generate_id.last_timestamp, generate_id.last_seq),
                       op      |-> job[t].op,
                       msg     |-> m,
                       deleted |-> event_args(t, m)]
             IN  job' = [job EXCEPT ![t].todo = @ \ {m},
                                    ![t].evs  = @ \cup {e},
                                    ![t].pc   = IF job[t].todo = {m} THEN "commit" ELSE "id"]
          /\ UNCHANGED <<db, byAddress, events, lock>>
    /\ UNCHANGED <<offered, undone, clock, setBack, raced>>

\* delete_secondary_indices, whichever fid the entry is of, then build_secondary_indices.
secondary_indices(deleted, merged) ==
    [a \in Addresses |->
        LET new == {m \in merged : is_add_type(m) /\ AddressOf[m.key] = a}
        IN IF new # {} THEN (CHOOSE m \in new : TRUE).key
           ELSE IF \E m \in deleted : is_add_type(m) /\ AddressOf[m.key] = a THEN None
           ELSE byAddress[a]]

\* RocksDB::commit of the operation's write batch; the fid lock is dropped when
\* merge returns.
Commit(t) ==
    LET j == job[t]
        merged == {e.msg : e \in {x \in j.evs : x.op = "merge"}}
        rest == delete_many_transaction(db, j.deleted)
    IN  /\ j.pc = "commit"
        /\ db' = IF merged = {} THEN rest
                 ELSE put_transaction(rest, CHOOSE m \in merged : TRUE)
        /\ byAddress' = secondary_indices(j.deleted, merged)
        /\ events' = {e \in events : \A f \in j.evs : f.id # e.id} \cup j.evs
        /\ offered' = offered \cup merged
        /\ undone' = undone \cup {e.msg : e \in {x \in j.evs : x.op # "merge"}}
        /\ job' = [job EXCEPT ![t] = Idle]
        /\ lock' = ReleasedLocks(t)
        /\ UNCHANGED <<clock, generator, setBack, raced>>

\* generate_id reads SystemTime::now, which is not monotone: a correction of the system's
\* clock may set it back to any earlier millisecond.
Tick ==
    /\ clock' \in 1..MaxClock \ {clock}
    /\ setBack' = IF clock' < clock THEN setBack + 1 ELSE setBack
    /\ setBack' <= MaxSetBack
    /\ UNCHANGED <<db, byAddress, events, lock, job, generator, offered, undone, raced>>

Next ==
    \/ \E t \in Threads :
          \/ \E m \in Messages : LockFid(t, m) \/ StartRevoke(t, m) \/ TakeEventId(t, m)
          \/ \E l \in Locks, n \in 1..Cardinality(Messages) : StartPrune(t, l, n)
          \/ ReadRemoves(t) \/ ReadAdds(t) \/ ReadByAddress(t) \/ Commit(t)
    \/ Tick

Spec == Init /\ [][Next]_vars

-----------------------------------------------------------------------------
Events == [id : Nat, op : {"merge", "revoke", "prune"}, msg : Messages, deleted : SUBSET Messages]

Jobs == [pc : {"idle", "removes", "adds", "address", "id", "commit"},
         op : {"merge", "revoke", "prune", None},
         todo : SUBSET Messages, deleted : SUBSET Messages, evs : SUBSET Events]

TypeOK ==
    /\ db \in Store
    /\ byAddress \in [Addresses -> Keys \cup {None}]
    /\ events \subseteq Events
    /\ lock \in [Locks -> Threads \cup {None}]
    /\ job \in [Threads -> Jobs]
    /\ clock \in 1..MaxClock
    /\ generator \in [last_timestamp : 0..MaxClock, last_seq : 0..SequenceLimit]
    /\ setBack \in 0..MaxSetBack
    /\ offered \subseteq Messages
    /\ undone \subseteq Messages
    /\ raced \subseteq Addresses

OfFid(l) == {m \in Messages : LockOf[m.key] = l}

\* Nothing of the fids of lock l has been revoked or pruned.
OnlyMerged(l) == undone \cap OfFid(l) = {}

\* Those that no other fid can replace.
OwnOnly(l) == {m \in OfFid(l) : AddressOf[m.key] = None}

\* The keys of those messages.
OwnKeys(l) == {k \in Keys : LockOf[k] = l /\ AddressOf[k] = None}

\* What the database holds of the fids of lock l under those keys.
Part(l) ==
    [msgs     |-> db.msgs \cap OwnOnly(l),
     adds     |-> [k \in Keys |-> IF k \in OwnKeys(l) THEN db.adds[k] ELSE None],
     removes  |-> [k \in Keys |-> IF k \in OwnKeys(l) THEN db.removes[k] ELSE None],
     byTarget |-> db.byTarget \cap OwnOnly(l)]

\* The messages of all parts that the log reports as merged: what the hub gossips.
Published == {e.msg : e \in {x \in events : x.op = "merge" /\ AddressOf[x.msg.key] = None}}

\* Lock by lock the hub is a replica of MessageReplication: a store into which one
\* message at a time is merged.
Serial ==
    INSTANCE MessageReplication
        WITH Hubs    <- Locks,
             store   <- [l \in Locks |-> Part(l)],
             gossip  <- Published,
             offered <- [l \in Locks |-> offered \cap OwnOnly(l)]

\* In one step, m is merged into the part of lock l or refused by it, on what that part
\* holds at that very step.
MergedAtOnce(l, m) ==
    /\ offered' \cap OwnOnly(l) = (offered \cap OwnOnly(l)) \cup {m}
    /\ Part(l)' = IF merge_check(Part(l), m) = "ok" THEN merge(Part(l), m) ELSE Part(l)

\* The fid locks make concurrent merges atomic: as long as nothing of a fid was revoked
\* or pruned, every step leaves its messages and all their index entries alone or is the
\* whole merge of one message, as if no other thread had run since its first read.
MergesAreAtomic ==
    [][\/ UNCHANGED <<db, offered>>
       \/ \A l \in Locks : OnlyMerged(l)' =>
             \/ UNCHANGED <<Part(l), offered \cap OwnOnly(l)>>
             \/ \E m \in OwnOnly(l) : MergedAtOnce(l, m)]_vars

\* So its messages are those one thread merging the same messages one by one would hold,
\* and each is found through its index.
MergesConverge ==
    \A l \in Locks : OnlyMerged(l) =>
        /\ db.msgs \cap OwnOnly(l) = Winners(offered \cap OwnOnly(l))
        /\ \A m \in db.msgs \cap OwnOnly(l) :
              m = IF is_add_type(m) THEN db.adds[m.key] ELSE db.removes[m.key]

\* Replaying the event log in id order gives the stored messages, whatever the
\* order in which the merges took their ids and committed: what subscribers of
\* the log rebuild is what the store holds, as long as the clock was not set back (a
\* later event may then have the lower id, or the id of an earlier one).  Not so for an address two operations worked
\* on at once: a merge of another fid may then delete a verification that was deleted
\* and merged again, under a later id, since it was read.
LogDescribesStore ==
    setBack = 0 => \A l \in Locks : OnlyMerged(l) =>
        \A m \in OfFid(l) : AddressOf[m.key] \notin raced =>
            (m \in db.msgs <=> \E e \in events :
                                  /\ e.op = "merge" /\ e.msg = m
                                  /\ \A f \in events : f.id > e.id => m \notin f.deleted)

\* No two events share an id, committed or about to be: a commit never
\* overwrites an event of the log.  The generator remembers one millisecond only, so this
\* takes a clock that was never set back.
EventIdsUnique ==
    LET all == events \cup UNION {job[t].evs : t \in Threads}
    IN  setBack = 0 => \A e, f \in all : e.id = f.id => e = f

\* What an index points at is stored, whatever revokes and prunes, which hold no
\* lock, do during a merge: a lookup by key never fails half way.
NoDanglingEntries ==
    \A k \in Keys : {db.adds[k], db.removes[k]} \subseteq db.msgs \cup {None}

\* An address is verified by at most one fid, and the entry by address names it exactly
\* as long as its message is stored, through replacements by other fids, removes,
\* revokes and prunes; unless two operations on the address overlapped, which no lock
\* prevents: then both fids may keep it, or the one that does is not found.
OneFidPerAddress ==
    \A a \in Addresses \ raced :
        {k \in Keys : AddressOf[k] = a /\ db.adds[k] # None} = {byAddress[a]} \ {None}

\* "1. Highest timestamp wins": the message the add set shows for a key is not
\* beaten by another message about that key that is stored too.
HighestTimestampWins ==
    \A k \in Keys : db.adds[k] # None => \A m \in db.msgs : ~Beats(m, db.adds[k])
=============================================================================
