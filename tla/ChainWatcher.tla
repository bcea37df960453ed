----------------------------- MODULE ChainWatcher -----------------------------
(***************************************************************************)
(* The L2 events provider (l2EventsProvider.ts): events of the contracts   *)
(* are cached by block, by watchers that poll each contract, by queries    *)
(* over the blocks missed while the hub was down, and by retries of a      *)
(* block or of a fid; blocks with enough confirmations are written to the  *)
(* store, and the highest one written is where a restart begins, less a    *)
(* look-back.  The watchers, the writers and the retries interleave at     *)
(* every await.                                                            *)
(***************************************************************************)
EXTENDS Integers, FiniteSets, SequencesExt

CONSTANTS
    Events,             \* numbers, in the order of the chain
    BlockOf, FidOf, ContractOf,
    ContractOrder,      \* the contracts, in the order they are queried
    ByFid,              \* events of a kind that is queried by fid: Rent, Register, Transfer, Add, Remove
    StringRank,         \* the place of a block in the order of the blocks' decimal strings
    FirstBlock, ChunkSize, numConfirmations,
    Retriers,           \* retries under way at a time
    LastBlock,          \* bound: height of the chain
    MaxFaults           \* bound: crashes, failed queries and submissions, watcher errors

Fids == {FidOf[e] : e \in Events}
Contracts == Range(ContractOrder)

ASSUME WatcherAssumption ==
    /\ Events \subseteq Nat /\ IsFiniteSet(Events)
    /\ \A e \in Events : BlockOf[e] \in FirstBlock + 1..LastBlock /\ ContractOf[e] \in Contracts
    /\ FirstBlock \in Nat \ {0} /\ LastBlock \in Nat /\ LastBlock > FirstBlock
    /\ ByFid \subseteq Events /\ "main" \notin Retriers
    /\ StringRank \in [FirstBlock..LastBlock -> 0..LastBlock]
    /\ \A a, b \in FirstBlock..LastBlock : StringRank[a] = StringRank[b] => a = b
    /\ ContractOrder \in Seq(Contracts) /\ ContractOrder # <<>>
    /\ ChunkSize \in Nat \ {0} /\ numConfirmations \in Nat \ {0}

VARIABLES
    head,       \* the latest block
    store,      \* the events in the store
    lastL2Block,\* of the hub state
    phase,      \* "down", "connect", "history", "live"
    watching,   \* the contracts whose watcher has polled for the first time
    unseen,     \* events since the watchers started that wait to be polled or for their block's timestamp
    cache,      \* _onChainEventsByBlock
    task,       \* what is written: by the history sync or a new block, and by a retry
    dedup,      \* _retryDedupMap
    lastBlock,  \* _lastBlockNumber
    faults,
    lost,       \* history: events that were kept from arriving and are not stored since
    stuck       \* history: blocks whose retry found nothing

env == <<faults, lost, stuck>>
vars == <<head, store, lastL2Block, phase, watching, unseen, cache, task, dedup, lastBlock, env>>

Writers == {"main"} \cup Retriers

NoTask == [kind |-> "none", pc |-> "idle", from |-> 0, to |-> 0, size |-> 0, run |-> 0, left |-> <<>>,
           wanted |-> {}, todo |-> {}, now |-> {}, high |-> 0]

Visible == {e \in Events : BlockOf[e] <= head}

\* What the writers hold: the rest of a query's answer, or of the block they submit.
InHand == UNION {task[w].now : w \in Writers}

Init ==
    /\ head = FirstBlock
    /\ store = {} /\ lastL2Block = 0
    /\ phase = "down"
    /\ watching = {} /\ unseen = {} /\ cache = {}
    /\ task = [w \in Writers |-> NoTask]
    /\ dedup = {} /\ lastBlock = 0
    /\ faults = 0 /\ lost = {} /\ stuck = {}

-----------------------------------------------------------------------------
(* The chain and the contract watchers.                                    *)

\* A watcher sees the blocks from its first poll on.  The history sync reads the blocks up to
\* the one that was the latest when the hub connected: what is mined after it, and before
\* the first poll, is not seen.
NewBlock ==
    LET mined == {e \in Events : BlockOf[e] = head + 1}
        watched == {e \in mined : ContractOf[e] \in watching}
    IN /\ head < LastBlock
       /\ head' = head + 1
       /\ unseen' = unseen \cup watched
       /\ lost' = IF phase \in {"history", "live"} THEN lost \cup (mined \ watched) ELSE lost
       /\ UNCHANGED <<store, lastL2Block, phase, watching, cache, task, dedup, lastBlock, faults, stuck>>

\* The first poll of the watcher of contract c, for which nothing waits.
FirstPoll(c) ==
    /\ phase # "down"
    /\ watching' = watching \cup {c}
    /\ UNCHANGED <<head, store, lastL2Block, phase, unseen, cache, task, dedup, lastBlock, env>>

UnseenOf(c) == {e \in unseen : ContractOf[e] = c}

\* The next event of the logs a watcher polled, once the timestamp of its block is read.
Arrives(e) == e \in unseen /\ \A f \in UnseenOf(ContractOf[e]) : e <= f

cacheOnChainEvent(e) ==
    /\ Arrives(e)
    /\ unseen' = unseen \ {e}
    /\ cache' = cache \cup {e}
    /\ UNCHANGED <<head, store, lastL2Block, phase, watching, task, dedup, lastBlock, env>>

Fault(L) ==
    /\ faults < MaxFaults
    /\ faults' = faults + 1
    /\ lost' = lost \cup (L \ store)

\* The block of an event cannot be read: the event is logged and dropped.
TimestampFails(e) ==
    /\ Arrives(e)
    /\ Fault({e})
    /\ unseen' = unseen \ {e}
    /\ UNCHANGED <<head, store, lastL2Block, phase, watching, cache, task, dedup, lastBlock, stuck>>

\* onError: the watcher of contract c is started again; what it had not polled yet, from
\* some event on, is not seen.
restart(c) ==
    \E missed \in SUBSET UnseenOf(c) :
       /\ \A e \in missed, f \in UnseenOf(c) : e <= f => f \in missed
       /\ Fault(missed)
       /\ watching' = watching \ {c}
       /\ unseen' = unseen \ missed
       /\ UNCHANGED <<head, store, lastL2Block, phase, cache, task, dedup, lastBlock, stuck>>

-----------------------------------------------------------------------------
(* syncHistoricalEvents: queries in runs of size blocks, each followed by  *)
(* writeCachedBlocks.                                                      *)

Sync(kind, from, to, size, wanted) ==
    [NoTask EXCEPT !.kind = kind, !.pc = "fetch", !.from = from, !.to = to, !.size = size,
                   !.left = ContractOrder, !.wanted = wanted]

\* The first and the last block of the run.
nextFromBlock(t) == t.from + t.run * t.size + (IF t.run > 0 THEN 1 ELSE 0)
nextToBlock(t) == LET to == t.from + t.run * t.size + t.size IN IF to > t.to THEN t.to ELSE to

\* What the query of the next contract returns.
Found(t) == {e \in t.wanted \cap Visible : ContractOf[e] = Head(t.left) /\ BlockOf[e] \in nextFromBlock(t)..nextToBlock(t)}

-----------------------------------------------------------------------------
(* writeCachedBlocks.                                                      *)

\* Array.sort compares numbers as strings.
InStringOrder(a, b) == StringRank[a] <= StringRank[b]

\* The cached blocks that are confirmed.
ConfirmedBlocks(cached, latest) ==
    {BlockOf[e] : e \in {f \in cached : BlockOf[f] + numConfirmations <= latest}}

\* The loop over the blocks, from one await to the next: blocks the other writer took
\* are passed over, and the events of the next block leave the cache.
NextBlock(t, cached, todo) ==
    LET here == {b \in todo : \E e \in cached : BlockOf[e] = b}
    IN IF here = {}
       THEN [t EXCEPT !.pc = "read", !.now = {}, !.todo = {},
                      !.high = IF todo = {} THEN @ ELSE CHOOSE b \in todo : \A c \in todo : InStringOrder(c, b)]
       ELSE LET b == CHOOSE c \in here : \A d \in here : InStringOrder(c, d)
            IN [t EXCEPT !.pc = "submit", !.now = {e \in cached : BlockOf[e] = b},
                         !.todo = {c \in todo : ~InStringOrder(c, b)}, !.high = b]

\* The task t of writer w is written: the next run of the queries, or the end.
Finish(w, t) ==
    LET more == t.kind # "newBlock" /\ t.from + (t.run + 1) * t.size < t.to
    IN /\ task' = [task EXCEPT ![w] = IF more THEN [t EXCEPT !.pc = "fetch", !.run = @ + 1, !.left = ContractOrder]
                                      ELSE NoTask]
       /\ phase' = IF t.kind = "history" /\ ~more THEN "live" ELSE phase
       /\ lastBlock' = IF t.kind = "newBlock" THEN t.to ELSE lastBlock

\* Writer w goes on with the loop, which has left behind the blocks done.
Goes(w, t, cached, todo, done) ==
    \E next \in {NextBlock(t, cached, todo)} :
        /\ IF next.pc = "read" /\ next.high = 0 THEN Finish(w, next)
           ELSE task' = [task EXCEPT ![w] = next] /\ UNCHANGED <<phase, lastBlock>>
        /\ cache' = cached \ next.now
        /\ dedup' = dedup \ ((done \cup todo) \ (next.todo \cup {BlockOf[e] : e \in next.now}))

\* The next event of the block is handed to the hub, and the writer goes on.
Submitted(w, e) ==
    LET t == task[w]
    IN /\ t.pc = "submit" /\ e = Min(t.now)
       /\ IF t.now = {e} THEN Goes(w, t, cache, t.todo, {t.high})
          ELSE task' = [task EXCEPT ![w].now = @ \ {e}] /\ UNCHANGED <<cache, dedup, phase, lastBlock>>
       /\ UNCHANGED <<head, lastL2Block, watching, unseen>>

submitOnChainEvent(w) ==
    \E e \in task[w].now :
        /\ Submitted(w, e)
        /\ store' = store \cup {e} /\ lost' = lost \ {e}
        /\ UNCHANGED <<faults, stuck>>

\* The hub answers with an error, a conflict or one of the database, which is not looked at.
SubmitFails(w) ==
    \E e \in task[w].now : Submitted(w, e) /\ Fault({e}) /\ UNCHANGED <<store, stuck>>

\* The query of the next contract has returned, and every event of it is in the cache, which
\* is cached: after the last contract the cached blocks are written.
QueryDone(w, t, cached) ==
    IF t.left = <<>> THEN Goes(w, t, cached, ConfirmedBlocks(cached, t.to), {})
    ELSE task' = [task EXCEPT ![w] = t] /\ cache' = cached /\ UNCHANGED <<dedup, phase, lastBlock>>

\* The query of writer w returns the events E.
Queried(w, E) ==
    LET t == [task[w] EXCEPT !.left = Tail(@), !.high = 0]
    IN /\ task[w].pc = "fetch"
       /\ IF E = {} THEN QueryDone(w, t, cache)
          ELSE /\ task' = [task EXCEPT ![w] = [t EXCEPT !.pc = "cache", !.now = E]]
               /\ UNCHANGED <<cache, dedup, phase, lastBlock>>
       /\ UNCHANGED <<head, store, lastL2Block, watching, unseen>>

getContractEvents(w) == Queried(w, Found(task[w])) /\ UNCHANGED env

\* After three attempts the query counts as empty.
QueryFails(w) ==
    /\ Queried(w, {})
    /\ Found(task[w]) # {}
    /\ Fault(Found(task[w]))
    /\ stuck' = IF task[w].kind = "block" THEN stuck \cup {task[w].from} ELSE stuck

\* The timestamp of the next event's block is read, and what is in K cached.
QueriedOne(w, e, K) ==
    LET t == task[w]
    IN /\ t.pc = "cache" /\ e = Min(t.now)
       /\ IF t.now = {e} THEN QueryDone(w, [t EXCEPT !.pc = "fetch", !.now = {}], cache \cup K)
          ELSE /\ task' = [task EXCEPT ![w].now = @ \ {e}] /\ cache' = cache \cup K
               /\ UNCHANGED <<dedup, phase, lastBlock>>
       /\ UNCHANGED <<head, store, lastL2Block, watching, unseen>>

cacheQueriedEvent(w) ==
    \E e \in task[w].now : QueriedOne(w, e, {e}) /\ UNCHANGED env

\* The block of an event cannot be read: as above.
QueriedTimestampFails(w) ==
    \E e \in task[w].now :
        /\ QueriedOne(w, e, {})
        /\ Fault({e})
        /\ stuck' = IF task[w].kind = "block" THEN stuck \cup {task[w].from} ELSE stuck

\* The hub state is read ...
WriteEnds(w) ==
    /\ task[w].pc = "read"
    /\ IF task[w].high > lastL2Block
       THEN task' = [task EXCEPT ![w].pc = "put"] /\ UNCHANGED <<phase, lastBlock>>
       ELSE Finish(w, task[w])
    /\ UNCHANGED <<head, store, lastL2Block, watching, unseen, cache, dedup, env>>

\* Mutant: the latest block is recorded instead of the highest one written.
put_latest(w) ==
    /\ task[w].pc = "put"
    /\ lastL2Block' = task[w].to
    /\ Finish(w, task[w])
    /\ UNCHANGED <<head, store, watching, unseen, cache, dedup, env>>

\* ... and written.
putHubState(w) ==
    /\ task[w].pc = "put"
    /\ lastL2Block' = task[w].high
    /\ Finish(w, task[w])
    /\ UNCHANGED <<head, store, watching, unseen, cache, dedup, env>>

Step(w) ==
    \/ getContractEvents(w) \/ cacheQueriedEvent(w)
    \/ submitOnChainEvent(w) \/ WriteEnds(w) \/ putHubState(w)

StepFails(w) == QueryFails(w) \/ QueriedTimestampFails(w) \/ SubmitFails(w)

-----------------------------------------------------------------------------
(* Start, new blocks, retries.                                             *)

\* The contract watchers are started first, and not waited for.
start ==
    /\ phase = "down"
    /\ phase' = "connect"
    /\ UNCHANGED <<head, store, lastL2Block, watching, unseen, cache, task, dedup, lastBlock, env>>

\* Mutant: a restart begins after the last block written.
after_last_written == IF lastL2Block > 0 THEN lastL2Block + 1 ELSE FirstBlock

\* The block to begin at: two blocks back, for events that were not confirmed yet.
lastSyncedBlock == IF lastL2Block > 0 THEN lastL2Block - numConfirmations ELSE FirstBlock

connectAndSyncHistoricalEvents ==
    /\ phase = "connect"
    /\ IF lastSyncedBlock < head
       THEN phase' = "history" /\ task' = [task EXCEPT !["main"] = Sync("history", lastSyncedBlock, head, ChunkSize, Events)]
       ELSE phase' = "live" /\ UNCHANGED task
    /\ UNCHANGED <<head, store, lastL2Block, watching, unseen, cache, dedup, lastBlock, env>>

\* One block at a time.  At LastBlock: further blocks, without events.
handleNewBlock ==
    LET t == [NoTask EXCEPT !.kind = "newBlock", !.to = head]
    IN /\ phase = "live" /\ task["main"] = NoTask
       /\ Goes("main", t, cache, ConfirmedBlocks(cache, head), {})
       /\ UNCHANGED <<head, store, lastL2Block, watching, unseen, env>>

\* Mutant: the block after the one asked for is read.
retry_next_block(w, b) ==
    /\ phase = "live" /\ task[w] = NoTask
    /\ b \notin dedup
    /\ dedup' = dedup \cup {b}
    /\ task' = [task EXCEPT ![w] = Sync("block", b + 1, b + 2, 1, Events)]
    /\ UNCHANGED <<head, store, lastL2Block, phase, watching, unseen, cache, lastBlock, env>>

\* A sync finds that a peer has an event of the block that is missing here.
retryEventsFromBlock(w, b) ==
    /\ phase = "live" /\ task[w] = NoTask
    /\ b \notin dedup
    /\ dedup' = dedup \cup {b}
    /\ task' = [task EXCEPT ![w] = Sync("block", b, b + 1, 1, Events)]
    /\ UNCHANGED <<head, store, lastL2Block, phase, watching, unseen, cache, lastBlock, env>>

\* A message of the fid was refused (at most once an hour, which the model leaves out).
\* Before the first new block there is nothing to query.
retryEventsForFid(w, fid) ==
    /\ lastBlock > FirstBlock /\ task[w] = NoTask
    /\ task' = [task EXCEPT ![w] = Sync("fid", FirstBlock, lastBlock, lastBlock,
                                        {e \in ByFid : FidOf[e] = fid})]
    /\ UNCHANGED <<head, store, lastL2Block, phase, watching, unseen, cache, dedup, lastBlock, env>>

\* The process ends.  What is not stored, and older than where a restart begins, is lost.
Crash ==
    /\ phase # "down"
    /\ Fault({e \in Visible \ store : lastL2Block > 0 /\ BlockOf[e] < lastL2Block - numConfirmations})
    /\ phase' = "down"
    /\ watching' = {} /\ unseen' = {} /\ cache' = {}
    /\ task' = [w \in Writers |-> NoTask]
    /\ dedup' = {} /\ lastBlock' = 0 /\ stuck' = {}
    /\ UNCHANGED <<head, store, lastL2Block>>

Confirmed == {e \in Events : BlockOf[e] + numConfirmations <= head}

\* A sync with a peer that has an event we miss.
Repair == \E w \in Retriers, e \in Confirmed \ store : retryEventsFromBlock(w, BlockOf[e])

\* The start and, one after the other, the new blocks.
Main == start \/ connectAndSyncHistoricalEvents \/ handleNewBlock \/ Step("main")

Next ==
    \/ NewBlock
    \/ \E c \in Contracts : FirstPoll(c) \/ restart(c)
    \/ \E e \in Events : cacheOnChainEvent(e) \/ TimestampFails(e)
    \/ Main \/ Repair
    \/ \E w \in Retriers : Step(w) \/ \E fid \in Fids : retryEventsForFid(w, fid)
    \/ \E w \in Writers : StepFails(w)
    \/ Crash

Spec == Init /\ [][Next]_vars

\* The chain grows, the node thread and the RPC calls go on, the hub is restarted, and
\* syncs with peers come around again; nothing is asked of the watchers.
FairSpec ==
    /\ Spec
    /\ WF_vars(NewBlock) /\ WF_vars(Main) /\ SF_vars(Repair)
    /\ \A w \in Retriers : WF_vars(Step(w))

-----------------------------------------------------------------------------
(* Properties                                                              *)

TypeOK ==
    /\ head \in FirstBlock..LastBlock
    /\ lastL2Block \in {0} \cup {BlockOf[e] : e \in Events}
    /\ watching \subseteq Contracts
    /\ store \subseteq Events /\ cache \subseteq Visible /\ unseen \subseteq Visible
    /\ dedup \cup stuck \subseteq FirstBlock..LastBlock
    /\ phase = "down" => task = [w \in Writers |-> NoTask]

\* Once the missed blocks are read, every event on the chain is stored or on its way
\* (still to be polled, returned by a query, cached, being submitted), except those a fault
\* kept away and those mined, after the hub had connected, before their watcher polled for
\* the first time: the ends of the runs, the latest block that is read while the watchers
\* begin, two writers that take the same blocks and the look-back after a crash leave no gap.
NothingSkipped ==
    phase = "live" => Visible \subseteq store \cup lost \cup unseen \cup cache \cup InHand

\* What has been polled or queried is never dropped, and what is stored stays stored: while
\* the hub runs, an event on its way leaves the cache and the two writers only for the
\* store, though either of them may empty a block under the other.
NothingDropped ==
    [][/\ store \subseteq store'
       /\ phase' # "down" =>
              unseen \cup cache \cup InHand \subseteq
                  store' \cup lost' \cup unseen' \cup cache' \cup InHand']_vars

\* In the end every event is stored, also one that a watcher, a query, a refused submission
\* or a crash lost: a sync reads its block again; unless that query failed, for then the
\* block stays in the dedup map and is not read again before a restart.
AllStored == <>[](\A e \in Confirmed : e \in store \/ BlockOf[e] \in stuck \cap dedup)
===============================================================================
