------------------------- MODULE MessageReplication -------------------------
(***************************************************************************)
(* Hubs that replicate the messages of one fid and one store.  A message   *)
(* enters the network through any hub's submitMessage RPC, is gossiped by  *)
(* the hub that merged it (gossip may be lost, duplicated and reordered)   *)
(* and is fetched by sync from any hub that still stores it.               *)
(***************************************************************************)
EXTENDS MessageStore

CONSTANT Hubs

VARIABLES
    store,      \* store[h]: the set store of hub h
    gossip,     \* messages some hub has published to the gossip topic
    offered     \* history: offered[h] are the messages hub h tried to merge

vars == <<store, gossip, offered>>

Init ==
    /\ store = [h \in Hubs |-> EmptyStore]
    /\ gossip = {}
    /\ offered = [h \in Hubs |-> {}]

-----------------------------------------------------------------------------
\* Engine.mergeMessage reaching Store::merge: a refused message leaves the
\* store as it is.
MergeAt(h, m) ==
    /\ store' = IF merge_check(store[h], m) = "ok"
                THEN [store EXCEPT ![h] = merge(store[h], m)]
                ELSE store
    /\ offered' = [offered EXCEPT ![h] = @ \cup {m}]

\* Hub.submitMessage from RPC: what merges is gossiped.
SubmitRpc(h, m) ==
    /\ MergeAt(h, m)
    /\ gossip' = IF merge_check(store[h], m) = "ok" THEN gossip \cup {m} ELSE gossip

\* Hub.handleGossipMessage and submitMessage(m, "gossip"): a message already in
\* the database is not looked at again.
ReceiveGossip(h, m) ==
    /\ m \in gossip
    /\ m \notin store[h].msgs
    /\ MergeAt(h, m)
    /\ UNCHANGED gossip

\* SyncEngine: hub h finds in g's trie a message it does not have, fetches and
\* merges it.
Sync(h, g, m) ==
    /\ m \in store[g].msgs \ store[h].msgs
    /\ MergeAt(h, m)
    /\ UNCHANGED gossip

Next ==
    \/ \E h \in Hubs, m \in Messages : SubmitRpc(h, m)
    \/ \E h \in Hubs, m \in Messages : ReceiveGossip(h, m)
    \/ \E h, g \in Hubs, m \in Messages : Sync(h, g, m)

Spec == Init /\ [][Next]_vars

\* Sync runs as a periodic job with every peer in turn and asks for every
\* message that is missing; nothing is assumed of gossip or of clients.
Fairness == \A h, g \in Hubs, m \in Messages : WF_vars(Sync(h, g, m))

FairSpec == Spec /\ Fairness

-----------------------------------------------------------------------------
\* The store is well formed and only holds what was offered.
TypeOK ==
    /\ store \in [Hubs -> Store]
    /\ gossip \subseteq Messages
    /\ offered \in [Hubs -> SUBSET Messages]

\* Strong convergence: what a hub holds is a function of the SET of messages it
\* was offered, not of their order, repetitions or of how they arrived: exactly
\* the messages no offered message beats.
StoreIsWinners == \A h \in Hubs : store[h].msgs = Winners(offered[h])

\* The rules as the doc comments of the stores word them: for casts a remove wins
\* over an add, then the higher timestamp, then the higher hash; for the others
\* the timestamp comes first.
Outranks(a, b) ==
    LET remove_wins == is_remove_type(a) /\ is_add_type(b)
        higher_hash == a.type = b.type /\ a.hash > b.hash
    IN  IF a.key \in CastKeys
        THEN remove_wins \/ (a.type = b.type /\ (a.ts > b.ts \/ (a.ts = b.ts /\ higher_hash)))
        ELSE a.ts > b.ts \/ (a.ts = b.ts /\ (remove_wins \/ higher_hash))

\* Whatever is missing from a store was displaced under the documented rules:
\* every message a hub was offered is stored, or one about its key that outranks
\* it is.
FollowsDocumentedRules ==
    \A h \in Hubs : \A m \in offered[h] :
        \E n \in store[h].msgs : n.key = m.key /\ (n = m \/ Outranks(n, m))

\* The add, remove and by-target indices and the primary entries written by the
\* put and delete transactions of one merge never disagree.
IndicesConsistent == \A h \in Hubs : IndexConsistent(store[h])

\* Two hubs between which sync has nothing left to merge hold the same store:
\* sync is never stuck on a difference.
NoSyncDeadEnd ==
    \A h, g \in Hubs :
        (/\ \A m \in store[g].msgs : merge_check(store[h], m) # "ok"
         /\ \A m \in store[h].msgs : merge_check(store[g], m) # "ok")
        => store[h] = store[g]

\* Hubs that were offered the same messages, in whatever orders and however often, hold
\* the same database: messages and index entries.
SameOffersSameStore ==
    \A h, g \in Hubs : offered[h] = offered[g] => store[h] = store[g]

Agreement == \A h, g \in Hubs : store[h] = store[g]

\* Agreement lasts until a client submits something new: no message still on its way, by
\* gossip or by sync, changes a store then, however late it arrives.
AgreementIsStable ==
    [][Agreement => store' = store \/ \E h \in Hubs, m \in Messages : SubmitRpc(h, m)]_vars

\* The hubs agree from some time on, although any number of gossip messages may
\* have been lost ("the sync will eventually re-fetch and merge this message").
EventuallyConsistent == <>[]Agreement

-----------------------------------------------------------------------------
Register(h) == [k \in Keys |-> IF store[h].adds[k] # None THEN store[h].adds[k]
                                                          ELSE store[h].removes[k]]

Registers == INSTANCE LwwRegisters WITH register <- [h \in Hubs |-> Register(h)]

\* The stores implement last-write-wins registers: no step replaces the ruling
\* message of a key by one that it beats, and none loses it.
ImplementsRegisters == Registers!Spec
=============================================================================
