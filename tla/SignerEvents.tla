----------------------------- MODULE SignerEvents -----------------------------
(***************************************************************************)
(* Signer events of one fid in the on-chain event store                    *)
(* (onChainEventStore.ts): the stored events, the by-signer index, the     *)
(* cache of active signers (utils/lruCache.ts), the mergeOnChainEvent      *)
(* calls in progress and the getActiveSigner lookups in progress.  Events  *)
(* come from the chain watchers, from retries of missed blocks and from    *)
(* the admin RPC, in any order; each call awaits the database between its  *)
(* reads and its commit.  All events have the same contract version.       *)
(***************************************************************************)
EXTENDS Integers, FiniteSets

CONSTANTS
    Signers,
    Events,         \* the signer events on the chain
    Mergers,        \* concurrent mergeOnChainEvent calls
    Lookups,        \* concurrent getActiveSigner calls
    None

ASSUME EventsAssumption ==
    /\ Events \subseteq [signer : Signers, type : {"ADD", "REMOVE", "ADMIN_RESET"},
                         block : Nat, log : Nat]
    /\ IsFiniteSet(Events)
    /\ None \notin Events

VARIABLES
    stored,     \* events under their primary keys
    index,      \* index[s]: the event the by-signer key of s points at
    cache,      \* signers with an entry in _activeSignerCache
    merger,     \* merger[p]: where each merge is
    lookup,     \* lookup[v]: where each lookup is
    offered,    \* history: events whose merge has ended
    overlapped  \* history: signers two of whose merges were in progress at once

eventVars == <<stored, index, cache, merger, lookup, offered, overlapped>>

NoMerge  == [pc |-> "idle", event |-> None, put |-> None]
NoLookup == [pc |-> "idle", signer |-> None]

-----------------------------------------------------------------------------
(* _mergeEvent                                                             *)

Merging(p, s) == merger[p].pc # "idle" /\ merger[p].event.signer = s

\* Calls of mergeOnChainEvent are alike: a new one takes the first free slot.
FreeMerger(p) == merger[p].pc = "idle" /\ p = CHOOSE q \in Mergers : merger[q].pc = "idle"

\* The duplicate check has found nothing.
StartEvent(p, e) ==
    /\ FreeMerger(p)
    /\ e \notin stored
    /\ merger' = [merger EXCEPT ![p] = [NoMerge EXCEPT !.pc = "index", !.event = e]]
    /\ overlapped' = IF \E q \in Mergers : Merging(q, e.signer) THEN overlapped \cup {e.signer}
                     ELSE overlapped
    /\ UNCHANGED <<stored, index, cache, lookup, offered>>

Before(e, f) == e.block < f.block \/ (e.block = f.block /\ e.log < f.log)

\* The first ADD of a set of events in the order of their primary keys.
FirstAdd(E) == CHOOSE a \in E : a.type = "ADD" /\ \A b \in E : b.type = "ADD" => ~Before(b, a)

HasAdd(E) == \E a \in E : a.type = "ADD"

\* The event the index is to point at.
IndexEntry(e) ==
    LET mine == {x \in stored : x.signer = e.signer}
    IN  IF e.type = "ADMIN_RESET" /\ HasAdd(mine) THEN FirstAdd(mine) ELSE e

\* The event the index points at already is of a later block.
Newer(existing, e) == existing # None /\ existing.block > e.block

\* Mutant: events of one block are taken in the order of their arrival.
never_removed(existing, e) == FALSE

\* "attempting to re-add removed key".
AlreadyRemoved(existing, e) == existing # None /\ existing.type = "REMOVE" /\ e.type = "ADD"

\* _handleSignerEvent: reads the index and decides what the transaction will put;
\* a removal drops the cache entry here, before the commit.
HandleSignerEvent(p) ==
    LET e == merger[p].event
        existing == index[e.signer]
        newer == Newer(existing, e)
        readded == AlreadyRemoved(existing, e)
    IN  /\ merger[p].pc = "index"
        /\ \/ /\ newer
              /\ merger' = [merger EXCEPT ![p].pc = "commit"]
              /\ UNCHANGED <<cache, offered>>
           \/ /\ ~newer /\ readded
              /\ merger' = [merger EXCEPT ![p] = NoMerge]
              /\ offered' = offered \cup {e}
              /\ UNCHANGED cache
           \/ /\ ~newer /\ ~readded
              /\ cache' = IF e.type = "REMOVE" THEN cache \ {e.signer} ELSE cache
              /\ merger' = [merger EXCEPT ![p].pc = "commit", ![p].put = IndexEntry(e)]
              /\ UNCHANGED offered
        /\ UNCHANGED <<stored, index, lookup, overlapped>>

\* StoreEventHandler.commitTransaction.
CommitEvent(p) ==
    LET e == merger[p].event
    IN  /\ merger[p].pc = "commit"
        /\ stored' = stored \cup {e}
        /\ index' = IF merger[p].put = None THEN index
                    ELSE [index EXCEPT ![e.signer] = merger[p].put]
        /\ offered' = offered \cup {e}
        /\ merger' = [merger EXCEPT ![p] = NoMerge]
        /\ UNCHANGED <<cache, lookup, overlapped>>

-----------------------------------------------------------------------------
(* getActiveSigner                                                         *)

IsActive(e) == e # None /\ e.type = "ADD"

\* A cached entry answers at once; else the database is asked.
StartLookup(v, s) ==
    /\ lookup[v].pc = "idle"
    /\ lookup' = [lookup EXCEPT ![v] = [signer |-> s, pc |-> IF s \in cache THEN "active" ELSE "read"]]
    /\ UNCHANGED <<stored, index, cache, merger, offered, overlapped>>

\* The index entry and the event it points at; no active signer is an error.
ReadSigner(v) ==
    /\ lookup[v].pc = "read"
    /\ lookup' = [lookup EXCEPT ![v] = IF IsActive(index[lookup[v].signer]) THEN [@ EXCEPT !.pc = "found"]
                                       ELSE NoLookup]
    /\ UNCHANGED <<stored, index, cache, merger, offered, overlapped>>

\* LRUCache.get caches what its function returned.
CacheSigner(v) ==
    /\ lookup[v].pc = "found"
    /\ cache' = cache \cup {lookup[v].signer}
    /\ lookup' = [lookup EXCEPT ![v].pc = "active"]
    /\ UNCHANGED <<stored, index, merger, offered, overlapped>>

\* The answer is used; what for is not modelled here.
EndLookup(v) ==
    /\ lookup[v].pc = "active"
    /\ lookup' = [lookup EXCEPT ![v] = NoLookup]
    /\ UNCHANGED <<stored, index, cache, merger, offered, overlapped>>

\* The cache's buffers rotate under the load of other signers.
Evict(s) ==
    /\ s \in cache
    /\ cache' = cache \ {s}
    /\ UNCHANGED <<stored, index, merger, lookup, offered, overlapped>>

-----------------------------------------------------------------------------
EventsTypeOK ==
    /\ stored \subseteq Events
    /\ index \in [Signers -> Events \cup {None}]
    /\ cache \subseteq Signers
    /\ \A p \in Mergers : {merger[p].event, merger[p].put} \subseteq Events \cup {None}
    /\ \A v \in Lookups : lookup[v].pc \in {"idle", "read", "found", "active"}
    /\ offered \subseteq Events
    /\ overlapped \subseteq Signers

\* What the chain says about a signer: the last of its events, where a reset goes
\* back to the signer's ADD.
ChainState(E, s) ==
    LET mine == {e \in E : e.signer = s}
        last == CHOOSE e \in mine : \A f \in mine : ~Before(e, f)
    IN  IF mine = {} THEN None
        ELSE IF last.type = "ADMIN_RESET" /\ HasAdd(mine) THEN FirstAdd(mine) ELSE last

\* Whatever the order in which the events of a signer arrive, and whatever is lost in
\* a crash, the index shows what the chain says of the events whose merge has ended.
\* Only two merges of the same signer at once may leave it at the older event: each
\* has read the index before the other commits.
MatchesChain ==
    \A s \in Signers \ overlapped : index[s] = ChainState(offered, s)
===============================================================================
