------------------------------ MODULE MerkleTrie ------------------------------
(***************************************************************************)
(* The sync trie of a hub (merkle_trie.rs): the root in memory, the        *)
(* database with the nodes as of the last commit, and the batch of changes *)
(* since then.  The batch is committed when it is large or when the hub    *)
(* stops, and then the children of the root are unloaded; a crash loses    *)
(* it.  What the diff sync of syncEngine.ts reads of two tries, and finds  *)
(* missing, is defined at the end.                                         *)
(***************************************************************************)
EXTENDS TrieNode, FiniteSetsExt

CONSTANTS
    Keys,                   \* the sync ids: sequences of characters of one length
    Peers,                  \* sets of keys another hub may hold
    Batches,                \* batches of one update, sequences of keys
    TRIE_UNLOAD_THRESHOLD,
    Cutoff                  \* prefixes with a later timestamp are left to gossip

ASSUME TrieAssumption ==
    /\ \A k \in Keys : Len(k) > TIMESTAMP_LENGTH
    /\ \A k, l \in Keys : Len(k) = Len(l)
    /\ \A k, l \in Keys : k[1] = l[1]   \* the first digit of any timestamp until 2052
    /\ \A P \in Peers : P \subseteq Keys
    /\ \A b \in Batches : b # <<>> /\ \A j \in DOMAIN b : b[j] \in Keys

VARIABLES
    root,   \* the root node, None while the trie is stopped
    db,     \* prefix -> row
    batch,  \* prefix -> the row to put, or the empty set to delete it
    ids,    \* history: the keys inserted and not deleted
    saved,  \* history: ids as of the last commit
    gone    \* history: the keys deleted since the last commit

vars == <<root, db, batch, ids, saved, gone>>

None == [kind |-> "None"]

KeyPrefixes == UNION {Prefixes(k) : k \in Keys}

\* create_empty_root
EmptyRoot == /\ root' = NewNode
             /\ batch' = put_to_txn(<<>>, <<>>, NewNode)

Init ==
    /\ root = NewNode
    /\ db = <<>>
    /\ batch = put_to_txn(<<>>, <<>>, NewNode)
    /\ ids = {} /\ saved = {} /\ gone = {}

\* The database once txn is committed.
commit(txn) ==
    LET kept == {p \in DOMAIN db \cup DOMAIN txn : p \in DOMAIN txn => txn[p] # {}}
    IN [p \in kept |-> IF p \in DOMAIN txn THEN CHOOSE row \in txn[p] : TRUE ELSE db[p]]

\* txn joins the batch; a large batch is committed and the trie unloaded.
unload_from_memory(node, txn) ==
    LET pending == txn @@ batch
    IN IF Cardinality(DOMAIN pending) > TRIE_UNLOAD_THRESHOLD
       THEN db' = commit(pending) /\ batch' = <<>> /\ root' = unload_children(node)
       ELSE batch' = pending /\ root' = node /\ UNCHANGED db

\* The history of an update that leaves the trie with the keys K.
Record(K) ==
    /\ ids' = K
    /\ saved' = IF batch' = <<>> THEN K ELSE saved
    /\ gone' = IF batch' = <<>> THEN {} ELSE (gone \cup ids) \ K

Insert(keys) ==
    /\ root # None
    /\ LET r == insert(db, root, <<>>, keys, 0)
       IN unload_from_memory(r.node, r.txn)
    /\ Record(ids \cup Range(keys))

Delete(keys) ==
    /\ root # None
    /\ LET r == delete(db, root, <<>>, keys, 0)
       IN unload_from_memory(r.node, r.txn)
    /\ Record(ids \ Range(keys))

Exists(k) ==
    /\ root # None
    /\ root' = exists(db, root, k, 0).node
    /\ UNCHANGED <<db, batch, ids, saved, gone>>

\* Mutant: the batch is dropped with the root.
stop_unsaved ==
    /\ root # None
    /\ root' = None /\ batch' = <<>>
    /\ saved' = ids /\ gone' = {}
    /\ UNCHANGED <<db, ids>>

\* Everything is written and the root is dropped.
stop ==
    /\ root # None
    /\ db' = commit(batch)
    /\ root' = None /\ batch' = <<>>
    /\ saved' = ids /\ gone' = {}
    /\ UNCHANGED ids

\* The process ends without stop: the root and the batch are lost.
Crash ==
    /\ root # None
    /\ root' = None /\ batch' = <<>>
    /\ ids' = saved /\ gone' = {}
    /\ UNCHANGED <<db, saved>>

initialize ==
    /\ root = None
    /\ IF <<>> \in DOMAIN db THEN root' = deserialize(db[<<>>]) /\ UNCHANGED batch ELSE EmptyRoot
    /\ UNCHANGED <<db, ids, saved, gone>>

\* The first step of rebuild.
clear ==
    /\ root # None
    /\ db' = <<>>
    /\ EmptyRoot
    /\ ids' = {} /\ saved' = {} /\ gone' = {}

Next ==
    \/ \E keys \in Batches : Insert(keys) \/ Delete(keys)
    \/ \E k \in Keys : Exists(k)
    \/ stop \/ Crash \/ initialize \/ clear

Spec == Init /\ [][Next]_vars

-----------------------------------------------------------------------------
(* What the sync engine reads.                                             *)

\* Mutant: rows of the database hide those of the batch.
get_node_database_first(prefix) ==
    IF prefix \in DOMAIN db THEN {db[prefix]}
    ELSE IF prefix \in DOMAIN batch THEN batch[prefix]
    ELSE {}

\* get_node: a row of the batch, else a row of the database (so a node whose row is
\* to be deleted is still read from the database).
get_node(prefix) ==
    IF prefix \in DOMAIN batch /\ batch[prefix] # {} THEN batch[prefix]
    ELSE IF prefix \in DOMAIN db THEN {db[prefix]}
    ELSE {}

\* get_trie_node_metadata: the node and the hashes of its children; nothing if one of
\* these is not found.
get_trie_node_metadata(prefix) ==
    {[items |-> row.items, hash |-> row.hash,
      children |-> [c \in row.chars |-> (CHOOSE r \in get_node(Append(prefix, c)) : TRUE).hash]] :
        row \in {r \in get_node(prefix) : \A c \in r.chars : get_node(Append(prefix, c)) # {}}}

-----------------------------------------------------------------------------
(* The reference: the trie of a set of keys.                               *)

Under(S, prefix) == {k \in S : SubSeq(k, 1, Len(prefix)) = prefix}

\* The node at a prefix: one item below the timestamp is a leaf, anything else has a
\* child for every next character.
RECURSIVE Build(_, _)
Build(S, prefix) ==
    LET here == Under(S, prefix)
        leaf == here = {} \/ (Cardinality(here) = 1 /\ Len(prefix) >= TIMESTAMP_LENGTH)
        children == IF leaf THEN <<>>
                    ELSE [c \in {k[Len(prefix) + 1] : k \in here} |-> Build(here, Append(prefix, c))]
        chars == SetToSortSeq(DOMAIN children, <)
    IN [kind |-> "Node", items |-> Cardinality(here), key |-> IF leaf THEN here ELSE {}, children |-> children,
        hash |-> IF leaf THEN blake3(IF here = {} THEN <<>> ELSE CHOOSE k \in here : TRUE)
                 ELSE blake3_concat([j \in DOMAIN chars |-> children[chars[j]].hash])]

\* The trie of S has a node at the prefix.
IsNode(S, prefix) ==
    /\ Under(S, prefix) # {}
    /\ Len(prefix) > TIMESTAMP_LENGTH => Cardinality(Under(S, Front(prefix))) > 1

\* The tries of the peers, prefix by prefix.
PeerTrie == [P \in Peers |-> [p \in {q \in KeyPrefixes : IsNode(P, q)} |-> Build(P, p)]]

\* A node with everything below it loaded.
RECURSIVE Loaded(_, _)
Loaded(node, prefix) ==
    [kind |-> "Node", items |-> node.items, hash |-> node.hash, key |-> IF is_leaf(node) THEN node.key \ {<<>>} ELSE {},
     children |-> [c \in DOMAIN node.children |->
                      Loaded(get_or_load_child(db, node, prefix, c), Append(prefix, c))]]

-----------------------------------------------------------------------------
(* The diff walk: performSync, executeWorkItem, getMessagesFromOtherNode.  *)

\* The timestamp of a prefix, padded with zeros.
prefixToTimestamp(prefix) ==
    FoldLeft(LAMBDA n, j : 10 * n + (IF j <= Len(prefix) THEN prefix[j] ELSE 0), 0,
             [j \in 1..TIMESTAMP_LENGTH |-> j])

\* ours: the metadata of our node, a set of at most one.
ShouldVisit(ours, theirs, prefix) ==
    /\ \A h \in ours : h # theirs.hash
    /\ theirs.items # 0
    /\ prefixToTimestamp(prefix) <= Cutoff

\* getAllSyncIdsByPrefix of a peer with the keys P: nothing where it has no node.
getAllSyncIdsByPrefix(P, prefix) ==
    IF prefix \in DOMAIN PeerTrie[P] THEN Range(get_all_values(<<>>, PeerTrie[P][prefix], prefix)) ELSE {}

\* Mutant: an empty answer of the secondary is final.
secondary_only(P, Q, prefix) == getAllSyncIdsByPrefix(Q, prefix)

\* The ids one work item asks for: the answer of the secondary peer Q, and where that
\* is empty (an error counts as empty) the answer of P, the peer that is walked.
getMessagesFromOtherNode(P, Q, prefix) ==
    IF getAllSyncIdsByPrefix(Q, prefix) = {} THEN getAllSyncIdsByPrefix(P, prefix)
    ELSE getAllSyncIdsByPrefix(Q, prefix)

\* The ids the walk of a peer with the keys P asks for, from the work item at a prefix.
RECURSIVE executeWorkItem(_, _, _)
executeWorkItem(P, Q, prefix) ==
    LET ours == get_trie_node_metadata(prefix)
        theirs == PeerTrie[P][prefix]
        bulk == \A n \in ours : n.items = 0 \/ theirs.items <= 1
    IN (IF bulk THEN getMessagesFromOtherNode(P, Q, prefix) ELSE {}) \cup
       UNION {executeWorkItem(P, Q, Append(prefix, c)) :
           c \in {d \in DOMAIN theirs.children :
               ShouldVisit({n.children[d] : n \in {m \in ours : d \in DOMAIN m.children}},
                           theirs.children[d], Append(prefix, d))}}

\* Q is the next of the secondary peers at every work item; a sync with none of them
\* takes P itself.
performSync(P, Q) ==
    IF P # {} /\ ShouldVisit({n.hash : n \in get_trie_node_metadata(<<>>)}, PeerTrie[P][<<>>], <<>>)
    THEN executeWorkItem(P, Q, <<>>) ELSE {}

-----------------------------------------------------------------------------
(* Properties                                                              *)

\* Whatever batches of inserts and deletes, commits and restarts led here, the trie in
\* memory with the rows it would load is the one trie of the keys inserted and not
\* deleted: the same nodes, item counts and hashes (update_hash, split_leaf_node, the
\* compaction in delete).  Two hubs with the same messages have the same root hash.
TrieIsCanonical ==
    root # None /\ ids # {} => Loaded(root, <<>>) = Build(ids, <<>>)

\* The rows in the database, at any moment the process may end, are the trie of the
\* keys there were at the last commit: a restart loses the updates since then and
\* nothing else.
SavedIsCanonical ==
    IF saved = {} THEN <<>> \in DOMAIN db => db[<<>>].items = 0
    ELSE <<>> \in DOMAIN db /\ Loaded(deserialize(db[<<>>]), <<>>) = Build(saved, <<>>)

\* The nodes of the trie as the sync engine reads them, from the batch and the
\* database, are those in memory, before and after every commit.
MetadataIsCurrent ==
    root # None =>
        \A p \in KeyPrefixes : IsNode(ids, p) =>
            LET node == Build(ids, p)
            IN \E n \in get_trie_node_metadata(p) :
                   /\ n.items = node.items /\ n.hash = node.hash
                   /\ n.children = [c \in DOMAIN node.children |-> node.children[c].hash]

\* The keys at the leaf of k in the trie of P are k alone; Q may hold others there.
AtLeafOf(k, P, Q) ==
    LET n == Min({m \in TIMESTAMP_LENGTH..Len(k) : Under(P, SubSeq(k, 1, m)) = {k}})
    IN Under(Q, SubSeq(k, 1, n))

\* The diff walk asks for every key of the walked peer that is missing here and not
\* newer than the sync, although bulk answers are cut short, a leaf here may stand for a
\* subtree there, and the answers come from a secondary peer: a key is passed over only
\* if the secondary holds some other key where the walked peer has just this one.  Left
\* out are keys deleted here since the last commit: rows of theirs are still read
\* (get_node).
WalkFindsMissing ==
    root # None =>
        \A P, Q \in Peers :
            LET asked == performSync(P, Q)
            IN \A k \in P \ (ids \cup gone) :
                   prefixToTimestamp(k) <= Cutoff /\ AtLeafOf(k, P, Q) \subseteq {k} => k \in asked

\* syncStatus takes a snapshot at the prefix of the peer's, which ends where the peer
\* has nothing: the excluded hashes agree exactly when both hubs hold the same keys.
SnapshotsDetectDivergence ==
    root # None =>
        \A P \in Peers \ {{}} : \A at \in {SubSeq(k, 1, TIMESTAMP_LENGTH) : k \in Keys} :
            LET theirs == get_snapshot(<<>>, PeerTrie[P][<<>>], at, 0)
                ours == get_snapshot(db, root, theirs.prefix, 0)
            IN (ours.excluded_hashes = theirs.excluded_hashes) <=> (ids = P)

===============================================================================
