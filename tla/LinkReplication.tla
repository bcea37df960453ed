--------------------------- MODULE LinkReplication ---------------------------
(***************************************************************************)
(* Hubs that replicate the links of one fid.  As in MessageReplication a   *)
(* message enters by RPC, is gossiped once merged and travels by sync; but *)
(* a SyncId is a message's primary key, and a compact state message is     *)
(* stored under its link type instead (link_compact_state_add_key), so a   *)
(* peer that is asked for it finds nothing: compact states travel by       *)
(* gossip only.                                                            *)
(***************************************************************************)
EXTENDS LinkStore

CONSTANTS
    Hubs,
    Legacy      \* the links that a version which did not pad may have indexed

ASSUME LegacyAssumption == Legacy \subseteq Messages

VARIABLES
    store,      \* store[h]: the link store of hub h
    gossip,     \* links and compact states published to the gossip topic
    compacted   \* history: compacted[h], the pairs <<m, c>> of a link m that merging the
                \* compact state c deleted at hub h

vars == <<store, gossip, compacted>>

\* A hub may start with one link left behind by the version that did not pad.
Init ==
    /\ store \in [Hubs -> {LegacyStore(Old) : Old \in {{}} \cup {{m} : m \in Legacy}}]
    /\ gossip = {}
    /\ compacted = [h \in Hubs |-> {}]

-----------------------------------------------------------------------------
MergeLinkAt(h, m) ==
    /\ CanMerge(store[h], m)
    /\ store' = [store EXCEPT ![h] = merge(store[h], m)]
    /\ UNCHANGED compacted

MergeCompactAt(h, c) ==
    /\ CanMergeCompact(store[h], c)
    /\ store' = [store EXCEPT ![h] = merge_compact_state(store[h], c)]
    /\ compacted' = [compacted EXCEPT ![h] = @ \cup (compact_conflicts(store[h], c) \X {c})]

\* Hub.submitMessage from RPC; a refused message changes nothing.
SubmitLink(h, m) ==
    /\ MergeLinkAt(h, m)
    /\ gossip' = gossip \cup {m}

SubmitCompact(h, c) ==
    /\ MergeCompactAt(h, c)
    /\ gossip' = gossip \cup {c}

\* Hub.handleGossipMessage.
ReceiveLink(h, m) ==
    /\ m \in gossip \ store[h].msgs
    /\ MergeLinkAt(h, m)
    /\ UNCHANGED gossip

ReceiveCompact(h, c) ==
    /\ c \in gossip
    /\ MergeCompactAt(h, c)
    /\ UNCHANGED gossip

\* What a peer finds for the SyncIds of its own trie: the key a SyncId unpacks to is
\* a primary key, and no compact state is stored under one.
getAllMessagesBySyncIds(g) == store[g].msgs

\* SyncEngine.fetchAndMergeMessages.
SyncLink(h, g, m) ==
    /\ m \in getAllMessagesBySyncIds(g) \ store[h].msgs
    /\ MergeLinkAt(h, m)
    /\ UNCHANGED gossip

Next ==
    \/ \E h \in Hubs, m \in Messages : SubmitLink(h, m) \/ ReceiveLink(h, m)
    \/ \E h \in Hubs, c \in Compacts : SubmitCompact(h, c) \/ ReceiveCompact(h, c)
    \/ \E h, g \in Hubs, m \in Messages : SyncLink(h, g, m)

Spec == Init /\ [][Next]_vars

SyncFairness == \A h, g \in Hubs, m \in Messages : WF_vars(SyncLink(h, g, m))

\* Sync runs for ever, gossip may lose anything.
SyncSpec == Spec /\ SyncFairness

\* Sync runs for ever, and compact states are not lost by gossip.
GossipSpec == SyncSpec /\ \A h \in Hubs, c \in Compacts : WF_vars(ReceiveCompact(h, c))

-----------------------------------------------------------------------------
TypeOK ==
    /\ store \in [Hubs -> LinkStoreType]
    /\ gossip \subseteq Messages \cup Compacts
    /\ compacted \in [Hubs -> SUBSET (Messages \X Compacts)]

\* Padded and unpadded index entries, by-target entries and primary entries
\* agree through any mix of merges and compactions, and a legacy entry never
\* survives beside the message that replaced it.
IndicesConsistent == \A h \in Hubs : LinksConsistent(store[h])

\* A link that a compaction deleted comes back, by whatever add, gossip replay or sync,
\* only through three gaps of the code: merge_add and merge_remove compare with < where the
\* compaction deleted with <=, so a link of the compact state's own second returns; they
\* look up the compact state of the link's own type only, while the compaction deletes links
\* of every type; and a newer compact state may list the target again.
CompactionIsFinal ==
    \A h \in Hubs : \A m \in store[h].msgs, c \in Compacts :
        <<m, c>> \in compacted[h] =>
            \/ m.ts = c.ts
            \/ linkType(m) # c.type
            \/ /\ is_add_type(m)
               /\ store[h].compact[c.type].ts > c.ts
               /\ targetFid(m) \in store[h].compact[c.type].targets

\* The compact state of a link type is only ever replaced by a newer one, and a
\* link that disappears was replaced by a higher ranked one or by a compaction.
StepsForward ==
    [][\A h \in Hubs :
        /\ \A t \in Types : store[h].compact[t] # None =>
              \/ store'[h].compact[t] = store[h].compact[t]
              \/ store'[h].compact[t].ts > store[h].compact[t].ts
        /\ \A m \in store[h].msgs \ store'[h].msgs :
              \/ \E n \in store'[h].msgs : Beats(n, m)
              \/ store'[h].compact # store[h].compact]_vars

\* Sync is never stuck on a difference in links: two hubs that hold the same compact state
\* of a link type and between which sync has no link of that type left to merge hold the
\* same links of that type.  Only a compact state that one of them lacks keeps them apart.
NoSyncDeadEnd ==
    \A h, g \in Hubs, t \in Types :
        LET links(x) == {m \in store[x].msgs : linkType(m) = t}
        IN  (/\ store[h].compact[t] = store[g].compact[t]
             /\ \A m \in links(g) \ links(h) : ~CanMerge(store[h], m)
             /\ \A m \in links(h) \ links(g) : ~CanMerge(store[g], m))
            => links(h) = links(g)

\* All hubs end up with the same links.
EventuallyConsistent ==
    <>[](\A h, g \in Hubs : /\ store[h].msgs = store[g].msgs
                            /\ store[h].compact = store[g].compact)
=============================================================================
