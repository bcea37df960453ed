----------------------------- MODULE StorageCache -----------------------------
(***************************************************************************)
(* The cached message count and earliest tsHash of one fid and one set     *)
(* (storageCache.ts), and the calls that read and write them: merges with  *)
(* their isPrunable check, revokes, prunes and usage queries               *)
(* (storeEventHandler.ts, rustStoreBase.ts).  The node thread runs each    *)
(* call from one await to the next; Rust commits and database reads happen *)
(* in between.  Events reach the cache after the commit, each by its own   *)
(* unawaited promise.  The limit comes from the storage the fid has rented *)
(* on chain: a cached slot, which is read again when part of it expires.   *)
(***************************************************************************)
EXTENDS Integers, FiniteSets, FiniteSetsExt

CONSTANTS
    Messages,       \* records [key, ts] with distinct ts (the tsHash)
    CompactStates,  \* records [ts], the compact states of a set of links; {} for the other sets
    Calls,
    Ops,            \* the operations of this instance
    InitialDbs,     \* what may be stored when the hub starts
    Rents,          \* rent events: [units, until], the messages of this set they allow, and the last second they count
    InitialRents,   \* which of them may be stored when the hub starts
    SizeLimit,      \* _pruneSizeLimit, 0 for none
    YEAR,           \* in seconds
    MaxCalls,       \* bound: calls of a behaviour
    MaxTime,        \* bound: seconds
    None

ASSUME CacheAssumption ==
    /\ IsFiniteSet(Messages) /\ IsFiniteSet(Calls) /\ IsFiniteSet(Rents)
    /\ \A m, n \in Messages : m.ts = n.ts => m = n
    /\ \A m \in Messages \cup CompactStates : m.ts \in Nat
    /\ CompactStates \cap Messages = {}
    /\ Ops \subseteq {"merge", "revoke", "prune", "usage"}
    /\ \A D \in InitialDbs : D \subseteq Messages
    /\ Rents \subseteq [units : Nat, until : Nat]
    /\ \A R \in InitialRents : R \subseteq Rents
    /\ SizeLimit \in Nat /\ YEAR \in Nat /\ MaxCalls \in Nat /\ MaxTime \in Nat
    /\ None \notin Messages \cup CompactStates \cup Int \cup [units : Nat, until : Nat]

VARIABLES
    db,         \* the stored messages
    count,      \* _counts: the cached count, or None
    earliest,   \* _earliestTsHashes: the cached earliest ts, or None
    scan,       \* _pendingMessageCountScans, and the total read
    call,       \* call[c]: where each call is
    started,    \* calls made so far
    rents,      \* the stored rent events
    fresh,      \* those whose event is not processed yet
    slot,       \* _activeStorageSlots: [units, until], or None
    now,        \* getFarcasterTime
    missed,     \* history: the rents stored during the read of them that set the slot
    history,    \* history: "delete" once a revoke or a prune is committed, "cold"
                \* once an event has found no count in the cache
    compacted   \* history: how many messages compact states have deleted

storage == <<rents, fresh, slot, now, missed>>
vars == <<db, count, earliest, scan, call, started, storage, history, compacted>>

\* then: where the call goes on once it has a count, kept in value; add and gone:
\* what its event still has to tell the cache; at and read: when it began to read the
\* rents, and which it read.
Idle == [op |-> None, pc |-> "idle", then |-> None, msg |-> None, value |-> 0,
         add |-> {}, gone |-> {}, at |-> 0, read |-> {}]

NoScan == [pc |-> "none", total |-> 0]

\* The rents of R that count at time t.
InForce(R, t) == {r \in R : r.until >= t}

\* What the rents of R allow: the sum of their units, as the number of places they give.
Places(r) == {r} \X (1..r.units)
Units(R) == Cardinality(UNION {Places(r) : r \in R})

\* The slot of the rents R: it is valid until the first of them expires, and no longer
\* than the times in ends.
slotOf(R, ends) == [units |-> Units(R), until |-> Min(ends \cup {r.until : r \in R})]

Init ==
    /\ rents \in InitialRents /\ fresh = {} /\ missed = {}
    /\ now = 0
    /\ slot = IF rents = {} THEN None ELSE slotOf(rents, {})   \* syncFromDb
    /\ db \in InitialDbs
    /\ count \in {Cardinality(db), None}
    /\ earliest = None
    /\ scan = NoScan
    /\ call = [c \in Calls |-> Idle]
    /\ started = 0
    /\ history = {}
    /\ compacted = 0

\* c is to go on without waiting for Rust: after an await of a count that was there,
\* or after the first await of a merge event.
Microtask(c) ==
    \/ call[c].pc \in {"limit", "earliest", "apply"}
    \/ call[c].pc = "event" /\ call[c].op = "merge" /\ call[c].add = {}

\* The node thread takes up a request or an answer of Rust only when nothing else is
\* to go on.
NodeTurn(c) == Microtask(c) \/ \A d \in Calls : ~Microtask(d)

\* What a call has read it does not keep.
Goto(j, pc) ==
    IF pc = "idle" THEN Idle
    ELSE [j EXCEPT !.pc = pc, !.then = None, !.value = 0, !.at = 0, !.read = {}]

-----------------------------------------------------------------------------
(* getMessageCount                                                         *)

\* Call c, in state j, asks for the count and goes on at "then" with it; in state
\* failed if too many scans, of other keys, are pending.
getMessageCount(c, j, then, forceFetch, failed) ==
    \/ /\ scan # NoScan
       /\ call' = [call EXCEPT ![c] = [j EXCEPT !.pc = "await", !.then = then]]
       /\ UNCHANGED scan
    \/ /\ scan = NoScan /\ count = None /\ forceFetch
       /\ \/ /\ scan' = [NoScan EXCEPT !.pc = "running"]
             /\ call' = [call EXCEPT ![c] = [j EXCEPT !.pc = "await", !.then = then]]
          \/ /\ call' = [call EXCEPT ![c] = failed]
             /\ UNCHANGED scan
    \/ /\ scan = NoScan /\ (count # None \/ ~forceFetch)
       /\ call' = [call EXCEPT ![c] = [Goto(j, then) EXCEPT
                      !.value = IF count = None THEN 0 ELSE count]]
       /\ UNCHANGED scan

\* countKeysAtPrefix reads the database ...
ScanReads ==
    /\ scan.pc = "running"
    /\ scan' = [pc |-> "read", total |-> Cardinality(db)]
    /\ UNCHANGED <<db, count, earliest, call, started, storage, history, compacted>>

\* Mutant: the calls that wait for the scan are not told.
scan_returns_to_nobody ==
    /\ scan.pc = "read" /\ \A c \in Calls : ~Microtask(c)
    /\ count' = scan.total
    /\ scan' = NoScan
    /\ UNCHANGED <<db, earliest, call, started, storage, history, compacted>>

\* ... and the result is cached and handed to every call that waits for it.
ScanReturns ==
    /\ scan.pc = "read" /\ \A c \in Calls : ~Microtask(c)
    /\ count' = scan.total
    /\ scan' = NoScan
    /\ call' = [c \in Calls |-> IF call[c].pc = "await"
                                THEN [Goto(call[c], call[c].then) EXCEPT !.value = scan.total]
                                ELSE call[c]]
    /\ UNCHANGED <<db, earliest, started, storage, history, compacted>>

-----------------------------------------------------------------------------
(* RustStoreBase.merge: isPrunable and rsMerge; getUsage                   *)

\* m may be merged, or the usage query is answered.
Proceed(c) == call' = [call EXCEPT ![c] = Goto(@, IF call[c].op = "merge" THEN "merge" ELSE "idle")]

\* Once the earliest tsHash is known: "message would be pruned" or merge.
Decide(c, first) ==
    IF call[c].op = "merge" /\ call[c].msg.ts < first
    THEN call' = [call EXCEPT ![c] = Idle]
    ELSE Proceed(c)

Start(c, op) ==
    /\ op \in Ops /\ call[c].pc = "idle" /\ NodeTurn(c)
    /\ started < MaxCalls /\ started' = started + 1

\* Mutant: a merge does without a count it would have to fetch.
start_merge_unfetched(c, m) ==
    /\ Start(c, "merge")
    /\ getMessageCount(c, [Idle EXCEPT !.op = "merge", !.msg = m], "limit", FALSE, Idle)
    /\ UNCHANGED <<db, count, earliest, storage, history, compacted>>

StartMerge(c, m) ==
    /\ Start(c, "merge")
    /\ getMessageCount(c, [Idle EXCEPT !.op = "merge", !.msg = m], "limit", TRUE, Idle)
    /\ UNCHANGED <<db, count, earliest, storage, history, compacted>>

StartUsage(c) ==
    /\ Start(c, "usage")
    /\ getMessageCount(c, [Idle EXCEPT !.op = "usage"], "limit", TRUE, Idle)
    /\ UNCHANGED <<db, count, earliest, storage, history, compacted>>

\* The limit of a slot with these units.
maxCount(units) == IF SizeLimit > 0 /\ SizeLimit < units THEN SizeLimit ELSE units

\* prune_messages prunes down to the size limit, when there is one, even if the units
\* allow less.
rustLimit(limit) == IF SizeLimit > 0 THEN SizeLimit ELSE limit

\* The count is compared with the limit, in isPrunable (then getEarliestTsHash asks
\* for the count again) and in pruneMessages (then value is the excess, if any, that
\* Rust prunes).
Compare(c, limit) ==
    IF call[c].op = "prune"
    THEN /\ call' = [call EXCEPT ![c] = IF @.value <= limit THEN Idle
                                        ELSE [Goto(@, "prune") EXCEPT !.value = call[c].value - rustLimit(limit)]]
         /\ UNCHANGED scan
    ELSE IF call[c].value < limit THEN Proceed(c) /\ UNCHANGED scan
    ELSE getMessageCount(c, Goto(call[c], "limit"), "earliest", TRUE, Idle)

\* getMaxMessageCount: a slot that is valid is used; when a part of it has expired,
\* the rents are read again.  getUsage does without it.
CheckLimit(c) ==
    /\ call[c].pc = "limit"
    /\ IF call[c].op = "usage" THEN getMessageCount(c, Goto(call[c], "limit"), "earliest", TRUE, Idle)
       ELSE IF slot = None THEN Compare(c, 0)
       ELSE IF slot.until >= now THEN Compare(c, maxCount(slot.units))
       ELSE call' = [call EXCEPT ![c] = [@ EXCEPT !.pc = "slot", !.at = now]] /\ UNCHANGED scan
    /\ UNCHANGED <<db, count, earliest, started, storage, history, compacted>>

\* forEachOnChainEvent reads the rents on a thread ...
ReadRents(c) ==
    /\ call[c].pc = "slot"
    /\ call' = [call EXCEPT ![c] = [@ EXCEPT !.pc = "setSlot", !.read = rents]]
    /\ UNCHANGED <<db, count, earliest, scan, started, storage, history, compacted>>

\* ... and the node thread makes the new slot of them, after the events of the rents
\* that were stored before the read: Rust settles promises in the order it is done.
getCurrentStorageSlotForFid(c) ==
    LET j == call[c]
        new == slotOf(InForce(j.read, j.at), {j.at + YEAR})
    IN  /\ j.pc = "setSlot" /\ NodeTurn(c)
        /\ j.read \cap fresh = {}
        /\ slot' = new
        /\ missed' = rents \ (j.read \cup fresh)
        /\ Compare(c, maxCount(new.units))
        /\ UNCHANGED <<db, count, earliest, started, rents, fresh, now, history, compacted>>

-----------------------------------------------------------------------------
(* Rent                                                                    *)

\* commitTransaction of a rent event, on the node thread ...
MergeRent(r) ==
    /\ r \notin rents /\ \A c \in Calls : ~Microtask(c)
    /\ rents' = rents \cup {r} /\ fresh' = fresh \cup {r}
    /\ UNCHANGED <<db, count, earliest, scan, call, started, slot, now, missed, history, compacted>>

\* Mutant: the new rent takes the place of the slot.
rent_replaces(r) ==
    /\ r \in fresh /\ \A c \in Calls : ~Microtask(c)
    /\ fresh' = fresh \ {r}
    /\ slot' = IF r.until < now THEN slot ELSE r
    /\ UNCHANGED <<db, count, earliest, scan, call, started, rents, now, missed, history, compacted>>

\* ... and its event, once the commit is settled.
addRent(r) ==
    /\ r \in fresh /\ \A c \in Calls : ~Microtask(c)
    /\ fresh' = fresh \ {r}
    /\ slot' = IF r.until < now THEN slot
               ELSE IF slot = None THEN r
               ELSE [units |-> r.units + slot.units, until |-> Min({r.until, slot.until})]
    /\ UNCHANGED <<db, count, earliest, scan, call, started, rents, now, missed, history, compacted>>

Tick ==
    /\ now < MaxTime /\ \A c \in Calls : ~Microtask(c)
    /\ now' = now + 1
    /\ UNCHANGED <<db, count, earliest, scan, call, started, rents, fresh, slot, missed, history, compacted>>

-----------------------------------------------------------------------------

getEarliestTsHash(c) ==
    /\ call[c].pc = "earliest"
    /\ \/ call[c].value = 0 /\ Proceed(c)
       \/ call[c].value # 0 /\ earliest # None /\ Decide(c, earliest)
       \/ call[c].value # 0 /\ earliest = None /\ call' = [call EXCEPT ![c] = Goto(@, "first")]
    /\ UNCHANGED <<db, count, earliest, scan, started, storage, history, compacted>>

\* The iterator reads the first primary key ...
ReadFirstKey(c) ==
    /\ call[c].pc = "first"
    /\ call' = [call EXCEPT ![c] = [Goto(@, "cacheFirst") EXCEPT
                   !.value = IF db = {} THEN None ELSE Min({m.ts : m \in db})]]
    /\ UNCHANGED <<db, count, earliest, scan, started, storage, history, compacted>>

\* ... and the node thread caches it.
CacheFirstKey(c) ==
    /\ call[c].pc = "cacheFirst" /\ NodeTurn(c)
    /\ \/ call[c].value = None /\ Proceed(c) /\ UNCHANGED earliest
       \/ call[c].value # None /\ Decide(c, call[c].value) /\ earliest' = call[c].value
    /\ UNCHANGED <<db, count, scan, started, storage, history, compacted>>

\* rsMerge, atomic under the fid lock: refused by a message about the same key
\* that is not older, or by a compact state; else it replaces the older message.
RustMerge(c) ==
    LET m == call[c].msg
        rivals == {n \in db : n.key = m.key}
        outranked == \E n \in rivals : n.ts >= m.ts
    IN  /\ call[c].pc = "merge" /\ m \in Messages
        /\ \/ /\ outranked \/ CompactStates # {}
              /\ call' = [call EXCEPT ![c] = Idle] /\ UNCHANGED db
           \/ /\ ~outranked
              /\ db' = (db \ rivals) \cup {m}
              /\ call' = [call EXCEPT ![c] = [Goto(@, "event") EXCEPT !.msg = None, !.add = {m}, !.gone = rivals]]
        /\ UNCHANGED <<count, earliest, scan, started, storage, history, compacted>>

\* A compact state deletes messages that are not newer: those to targets it does not
\* list, which may be any of them, or none when it is refused itself (LinkStore has the
\* rule).  Its event does not list them, and counts the compact state in a set of its own.
merge_compact_state(c) ==
    /\ call[c].pc = "merge" /\ call[c].msg \in CompactStates
    /\ \E D \in SUBSET {n \in db : n.ts <= call[c].msg.ts} :
          db' = db \ D /\ compacted' = compacted + Cardinality(D)
    /\ call' = [call EXCEPT ![c] = Idle]
    /\ UNCHANGED <<count, earliest, scan, started, storage, history>>

-----------------------------------------------------------------------------
(* RustStoreBase.revoke and pruneMessages                                  *)

\* The revoking job has read m from the database.
StartRevoke(c, m) ==
    /\ Start(c, "revoke")
    /\ m \in db
    /\ call' = [call EXCEPT ![c] = [Idle EXCEPT !.op = "revoke", !.pc = "delete", !.gone = {m}]]
    /\ UNCHANGED <<db, count, earliest, scan, storage, history, compacted>>

StartPrune(c) ==
    /\ Start(c, "prune")
    /\ getMessageCount(c, [Idle EXCEPT !.op = "prune"], "limit", FALSE, Idle)
    /\ UNCHANGED <<db, count, earliest, storage, history, compacted>>

\* rsPruneMessages iterates from the oldest message and takes as many as the CACHED
\* count exceeds the limit.
RustPrune(c) ==
    LET oldest == {m \in db : Cardinality({n \in db : n.ts < m.ts}) < call[c].value}
    IN  /\ call[c].pc = "prune"
        /\ call' = [call EXCEPT ![c] = IF oldest = {} THEN Idle
                                       ELSE [Goto(@, "delete") EXCEPT !.gone = oldest]]
        /\ UNCHANGED <<db, count, earliest, scan, started, storage, history, compacted>>

\* The write batch of a revoke or a prune is committed; there is an event for each
\* message in it, whether or not it was still stored.
CommitDelete(c) ==
    /\ call[c].pc = "delete" /\ (call[c].op = "revoke" => NodeTurn(c))
    /\ db' = db \ call[c].gone
    /\ history' = history \cup {"delete"}
    /\ call' = [call EXCEPT ![c] = Goto(@, "event")]
    /\ UNCHANGED <<count, earliest, scan, started, storage, compacted>>

-----------------------------------------------------------------------------
(* processEvent                                                            *)

\* Mutant: a merge event's deleted messages are not counted off.
event_ends_with_add(j) == IF j.add = {} THEN Idle ELSE Goto(j, "event")

EventGoesOn(j) == IF j.add = {} /\ j.gone = {} THEN Idle ELSE Goto(j, "event")

\* addMessage with n as the count read.
addMessage(c, n) ==
    LET m == CHOOSE x \in call[c].add : TRUE
    IN  /\ call[c].add # {}
        /\ count' = n + 1
        /\ earliest' = IF earliest = None THEN m.ts ELSE Min({earliest, m.ts})
        /\ call' = [call EXCEPT ![c] = EventGoesOn([@ EXCEPT !.add = {}])]
        /\ UNCHANGED <<db, scan, started, storage, history, compacted>>

\* Mutant: the earliest tsHash is zeroed and not forgotten.
remove_zeroes_earliest(c, n, D) ==
    /\ call[c].add = {}
    /\ count' = n - Cardinality(D)
    /\ earliest' = IF earliest \in {m.ts : m \in D} THEN 0 ELSE earliest
    /\ call' = [call EXCEPT ![c] = EventGoesOn([@ EXCEPT !.gone = call[c].gone \ D])]
    /\ UNCHANGED <<db, scan, started, storage, history, compacted>>

\* removeMessage for the messages in D.
removeMessage(c, n, D) ==
    /\ call[c].add = {}
    /\ count' = n - Cardinality(D)
    /\ earliest' = IF earliest \in {m.ts : m \in D} THEN None ELSE earliest
    /\ call' = [call EXCEPT ![c] = EventGoesOn([@ EXCEPT !.gone = call[c].gone \ D])]
    /\ UNCHANGED <<db, scan, started, storage, history, compacted>>

\* pruneMessages hands its events over in one go; a merge event awaits the removal
\* of each deleted message in turn.
Removals(c) == IF call[c].op = "prune" THEN {call[c].gone} ELSE {{m} : m \in call[c].gone}

\* The count is cached: read and written without an await in between.
ProcessEvent(c) ==
    /\ call[c].pc = "event" /\ NodeTurn(c) /\ count # None
    /\ \/ addMessage(c, count)
       \/ \E D \in Removals(c) : removeMessage(c, count, D)

\* The count is not cached: it is asked for, or the message is left out ...
ProcessEventCold(c) ==
    LET j == call[c]
        left_out == IF j.add # {} THEN {[j EXCEPT !.add = {}]}
                    ELSE {[j EXCEPT !.gone = @ \ D] : D \in Removals(c)}
    IN  /\ j.pc = "event" /\ NodeTurn(c) /\ count = None
        /\ history' = history \cup {"cold"}
        /\ \E failed \in left_out : getMessageCount(c, j, "apply", TRUE, EventGoesOn(failed))
        /\ UNCHANGED <<db, count, earliest, started, storage, compacted>>

\* ... and the count read then is written back with the change made to it.
ApplyEvent(c) ==
    /\ call[c].pc = "apply"
    /\ \/ addMessage(c, call[c].value)
       \/ \E D \in Removals(c) : removeMessage(c, call[c].value, D)

-----------------------------------------------------------------------------
Step(c) ==
    \/ CheckLimit(c) \/ ReadRents(c) \/ getCurrentStorageSlotForFid(c)
    \/ getEarliestTsHash(c) \/ ReadFirstKey(c) \/ CacheFirstKey(c)
    \/ RustMerge(c) \/ merge_compact_state(c) \/ RustPrune(c) \/ CommitDelete(c)
    \/ ProcessEvent(c) \/ ProcessEventCold(c) \/ ApplyEvent(c)

Next ==
    \/ \E c \in Calls, m \in Messages \cup CompactStates : StartMerge(c, m)
    \/ \E c \in Calls, m \in Messages : StartRevoke(c, m)
    \/ \E c \in Calls : StartUsage(c) \/ StartPrune(c) \/ Step(c)
    \/ ScanReads \/ ScanReturns
    \/ \E r \in Rents : MergeRent(r) \/ addRent(r)
    \/ Tick

Spec == Init /\ [][Next]_vars

\* The node event loop and the Rust threads keep running.
FairSpec ==
    /\ Spec
    /\ WF_vars(ScanReads) /\ WF_vars(ScanReturns) /\ WF_vars(\E r \in Rents : addRent(r))
    /\ \A c \in Calls : WF_vars(Step(c))

-----------------------------------------------------------------------------
TypeOK ==
    /\ db \subseteq Messages
    /\ count \in Int \cup {None}
    /\ earliest \in {m.ts : m \in Messages} \cup {None}
    /\ scan \in [pc : {"none", "running", "read"}, total : Nat]
    /\ \A c \in Calls : call[c].add \cup call[c].gone \subseteq Messages
    /\ fresh \cup missed \subseteq rents /\ rents \subseteq Rents
    /\ slot = None \/ slot \in [units : Nat, until : Nat]
    /\ compacted \in Nat

Quiet == scan = NoScan /\ \A c \in Calls : call[c].pc = "idle"

\* As long as messages are only merged, a count that was cached or scanned amid
\* merges and their late events is, once every call has returned and every event is
\* processed, the number of stored messages and of those that compact states deleted: a
\* compact state's event does not list them, and the count never loses them.
CountIsExact ==
    Quiet /\ count # None /\ "delete" \notin history => count = Cardinality(db) + compacted

\* With revokes and prunes too, a count that was cached before the first event is
\* never above that number in a quiet state: where no compact state was merged, a prune
\* that starts then deletes nothing the limit would have let stay.
NeverOvercounts ==
    Quiet /\ count # None /\ "cold" \notin history => count <= Cardinality(db) + compacted

\* The messages that the event of a call has still to add to the count, or to take off it.
ToAdd == {p \in Calls \X Messages : call[p[1]].pc = "event" /\ p[2] \in call[p[1]].add}
ToRemove == {p \in Calls \X Messages : call[p[1]].pc = "event" /\ p[2] \in call[p[1]].gone}

\* And at every moment, not only in a quiet one, the count that isPrunable and
\* pruneMessages go by is off by no more than the events under way and the messages that
\* compact states deleted: it is exact up to these while nothing was revoked or pruned,
\* and never higher afterwards.
CountOffByEvents ==
    count # None /\ "cold" \notin history =>
        LET told == Cardinality(db) + compacted - Cardinality(ToAdd) + Cardinality(ToRemove)
        IN  count <= told /\ ("delete" \notin history => count = told)

\* Every call returns, the ones that share a scan included.
CallsReturn == \A c \in Calls : call[c].pc # "idle" ~> call[c].pc = "idle"

\* The cached slot allows what the rents in force allow, and stops to be used as soon as
\* one of its rents expires, however rents are merged, expire and are read again by
\* calls at once.  Left out are rents whose event is still to come, and those merged
\* while the rents were read for the slot: the slot that is set then does not have them
\* until it expires.
SlotIsExact ==
    LET counted == InForce(rents, now) \ (fresh \cup missed)
    IN IF slot = None THEN counted = {}
       ELSE slot.until >= now => slot.units = Units(counted)

\* A new message is refused as "message would be pruned" only if a prune would take
\* it first: the store is full and all that is stored is newer.
RefusedWouldBePruned ==
    [][\A c \in Calls :
        (/\ call[c].op = "merge" /\ call[c].pc \in {"earliest", "cacheFirst"}
         /\ call'[c].pc = "idle" /\ call[c].msg \notin db)
        => Cardinality(db) >= maxCount(Units(InForce(rents, now))) /\ \A n \in db : call[c].msg.ts < n.ts]_vars
===============================================================================
