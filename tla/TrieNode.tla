------------------------------- MODULE TrieNode -------------------------------
(***************************************************************************)
(* The nodes of the sync trie (trie_node.rs): batched insert and delete,   *)
(* the split and the compaction of leaves below the timestamp, hashes and  *)
(* item counts kept on the way up, children loaded from the database on    *)
(* first use.  A hash is kept as what was hashed.                          *)
(***************************************************************************)
EXTENDS Integers, FiniteSets, SequencesExt

CONSTANTS
    TIMESTAMP_LENGTH,               \* characters of the timestamp of a key
    MAX_VALUES_RETURNED_PER_CALL

\* usize, narrowed: item counts wrap around.
USIZE == 65536

NoHash == [raw |-> <<>>]

blake3(key) == [leaf |-> key]

\* The hash of the concatenated hashes of the children.
blake3_concat(hashes) == IF hashes = <<>> THEN blake3(<<>>) ELSE [node |-> hashes]

NewNode == [kind |-> "Node", hash |-> NoHash, items |-> 0, key |-> {}, children |-> <<>>]

\* key and hash: the empty set or the singleton of the value.
SerializedNode(hash) == [kind |-> "Serialized", hash |-> hash]

is_leaf(node) == DOMAIN node.children = {}

KeyBytes(node) == IF node.key = {} THEN <<>> ELSE CHOOSE k \in node.key : TRUE

serialize(node) == [key |-> KeyBytes(node), chars |-> DOMAIN node.children,
                    items |-> node.items, hash |-> node.hash]

deserialize(row) == [kind |-> "Node", hash |-> row.hash, items |-> row.items, key |-> {row.key},
                     children |-> [c \in row.chars |-> SerializedNode({})]]

put_to_txn(txn, prefix, node) == (prefix :> {serialize(node)}) @@ txn

delete_to_txn(txn, prefix) == (prefix :> {}) @@ txn

WithChild(node, c, child) == [node EXCEPT !.children = (c :> child) @@ @]

WithoutChild(node, c) ==
    [node EXCEPT !.children = [d \in DOMAIN node.children \ {c} |-> node.children[d]]]

get_or_load_child(db, node, prefix, c) ==
    IF node.children[c].kind = "Node" THEN node.children[c]
    ELSE IF Append(prefix, c) \in DOMAIN db THEN deserialize(db[Append(prefix, c)])
    ELSE NewNode

KnownHash(child) ==
    IF child.kind = "Node" THEN child.hash
    ELSE IF child.hash = {} THEN NoHash
    ELSE CHOOSE h \in child.hash : TRUE

\* A child whose hash is not known is loaded.
update_hash(db, node, prefix) ==
    IF is_leaf(node) THEN [node EXCEPT !.hash = blake3(KeyBytes(node))]
    ELSE LET loaded == [c \in DOMAIN node.children |->
                           IF KnownHash(node.children[c]) = NoHash
                           THEN get_or_load_child(db, node, prefix, c)
                           ELSE node.children[c]]
             chars == SetToSortSeq(DOMAIN loaded, <)
             hashes == [j \in DOMAIN chars |-> KnownHash(loaded[chars[j]])]
         IN [node EXCEPT !.children = loaded,
                         !.hash = blake3_concat(SelectSeq(hashes, LAMBDA h : h # NoHash))]

-----------------------------------------------------------------------------
(* insert and delete take a sequence of keys with a common prefix of       *)
(* length i and return the node, the transaction and one result per key.   *)

\* Node after its key moved one character down.
split_leaf_node(db, node, txn, i) ==
    LET key == KeyBytes(node)
        child == update_hash(db, [NewNode EXCEPT !.key = {key}, !.items = 1], SubSeq(key, 1, i + 1))
        split == update_hash(db, WithChild([node EXCEPT !.key = {}], key[i + 1], child), SubSeq(key, 1, i))
    IN [node |-> split,
        txn |-> put_to_txn(put_to_txn(txn, SubSeq(key, 1, i + 1), child), SubSeq(key, 1, i), split)]

Successes(results) == Cardinality({j \in DOMAIN results : results[j]})

RECURSIVE insert(_, _, _, _, _)
insert(db, node, txn, keys, i) ==
    LET prefix == SubSeq(keys[1], 1, i)
        at_leaf == i >= TIMESTAMP_LENGTH /\ is_leaf(node)
        \* A leaf without a key takes the last of the keys, and the result of the first is set.
        takes == at_leaf /\ node.key = {}
        filled == IF takes
                  THEN update_hash(db, [node EXCEPT !.key = {Last(keys)}, !.items = (@ + 1) % USIZE], prefix)
                  ELSE node
        rest == IF takes THEN Front(keys) ELSE keys
        shift == IF takes THEN 1 ELSE 0
        remaining == {j \in DOMAIN rest : ~at_leaf \/ rest[j] # KeyBytes(filled)}
        start == [node |-> filled,
                  txn |-> IF takes THEN put_to_txn(txn, prefix, filled) ELSE txn]
        results == [j \in DOMAIN keys |-> takes /\ j = 1 /\ (rest # <<>> => 1 \in remaining)]
        \* The keys whose next character is c go into that child together.
        into(c, acc) ==
            LET js == SetToSortSeq({j \in remaining : rest[j][i + 1] = c}, <)
                child == IF c \in DOMAIN acc.node.children
                         THEN get_or_load_child(db, acc.node, prefix, c) ELSE NewNode
                r == insert(db, child, acc.txn, [n \in DOMAIN js |-> rest[js[n]]], i + 1)
            IN [node |-> WithChild(acc.node, c, r.node), txn |-> r.txn,
                results |-> [j \in DOMAIN keys |->
                                IF \E n \in DOMAIN js : js[n] + shift = j
                                THEN \E n \in DOMAIN js : js[n] + shift = j /\ r.results[n]
                                ELSE acc.results[j]],
                successes |-> acc.successes + Successes(r.results)]
    IN IF remaining = {} THEN [node |-> start.node, txn |-> start.txn, results |-> results]
       ELSE LET split == IF at_leaf THEN split_leaf_node(db, start.node, start.txn, i) ELSE start
                all == FoldSet(into, [node |-> split.node, txn |-> split.txn, results |-> results, successes |-> 0],
                               {rest[j][i + 1] : j \in remaining})
                counted == update_hash(db, [all.node EXCEPT !.items = (@ + all.successes) % USIZE], prefix)
            IN IF all.successes = 0
               THEN [node |-> all.node, txn |-> all.txn, results |-> all.results]
               ELSE [node |-> counted, txn |-> put_to_txn(all.txn, prefix, counted), results |-> all.results]

\* Mutant: compaction leaves the item one level too low.
not_compacted(db, node, prefix, i) == node

\* Below the timestamp the only item of a node moves up from its leaf.  The row of
\* the leaf stays: the transaction deletes a key with the root prefix twice.
compacted(db, node, prefix, i) ==
    IF node.items = 1 /\ Cardinality(DOMAIN node.children) = 1 /\ i >= TIMESTAMP_LENGTH
    THEN LET c == CHOOSE d \in DOMAIN node.children : TRUE
             child == get_or_load_child(db, node, prefix, c)
         IN IF child.key # {} THEN [WithoutChild(node, c) EXCEPT !.key = child.key]
            ELSE WithChild(node, c, child)
    ELSE node

RECURSIVE delete(_, _, _, _, _)
delete(db, node, txn, keys, i) ==
    LET prefix == SubSeq(keys[1], 1, i)
        none == [j \in DOMAIN keys |-> FALSE]
        hits == {j \in DOMAIN keys : keys[j] = KeyBytes(node)}
        from(c, acc) ==
            LET js == SetToSortSeq({j \in DOMAIN keys : keys[j][i + 1] = c}, <)
                child == get_or_load_child(db, acc.node, prefix, c)
                r == delete(db, child, acc.txn, [n \in DOMAIN js |-> keys[js[n]]], i + 1)
            IN [node |-> IF r.node.items = 0 THEN WithoutChild(acc.node, c) ELSE WithChild(acc.node, c, r.node),
                txn |-> r.txn,
                results |-> [j \in DOMAIN keys |-> acc.results[j] \/
                                \E n \in DOMAIN js : js[n] = j /\ r.results[n]],
                successes |-> acc.successes + Successes(r.results)]
    IN IF is_leaf(node)
       THEN IF hits = {} THEN [node |-> node, txn |-> txn, results |-> none]
            ELSE [node |-> update_hash(db, [node EXCEPT !.key = {}, !.items = (@ - 1) % USIZE], prefix),
                  txn |-> delete_to_txn(txn, prefix),
                  results |-> [none EXCEPT ![Min(hits)] = TRUE]]
       ELSE LET all == FoldSet(from, [node |-> node, txn |-> txn, results |-> none, successes |-> 0],
                               {keys[j][i + 1] : j \in DOMAIN keys} \cap DOMAIN node.children)
                counted == [all.node EXCEPT !.items = (@ - all.successes) % USIZE]
                left == update_hash(db, IF counted.items = 0 THEN counted
                                        ELSE compacted(db, counted, prefix, i), prefix)
            IN IF all.successes = 0 THEN [node |-> all.node, txn |-> all.txn, results |-> all.results]
               ELSE [node |-> left, results |-> all.results,
                     txn |-> IF left.items = 0 THEN delete_to_txn(all.txn, prefix)
                             ELSE put_to_txn(all.txn, prefix, left)]

-----------------------------------------------------------------------------
(* Reading the trie, and unloading it.                                     *)

\* exists(key) loads the children on the path to the key: the node, and the answer.
RECURSIVE exists(_, _, _, _)
exists(db, node, key, i) ==
    IF is_leaf(node) THEN [node |-> node, found |-> KeyBytes(node) = key]
    ELSE IF i >= Len(key) \/ key[i + 1] \notin DOMAIN node.children THEN [node |-> node, found |-> FALSE]
    ELSE LET r == exists(db, get_or_load_child(db, node, SubSeq(key, 1, i), key[i + 1]), key, i + 1)
         IN [node |-> WithChild(node, key[i + 1], r.node), found |-> r.found]

\* Children that are not in memory are not kept.
unload_children(node) ==
    [node EXCEPT !.children = [c \in {d \in DOMAIN node.children : node.children[d].kind = "Node"} |->
                                  SerializedNode({node.children[c].hash})]]

RECURSIVE get_all_values(_, _, _)
get_all_values(db, node, prefix) ==
    IF is_leaf(node) THEN <<KeyBytes(node)>>
    ELSE LET more(values, c) ==
                 IF Len(values) > MAX_VALUES_RETURNED_PER_CALL THEN values
                 ELSE values \o get_all_values(db, get_or_load_child(db, node, prefix, c), Append(prefix, c))
         IN FoldLeft(more, <<>>, SetToSortSeq(DOMAIN node.children, <))

\* Mutant: only the older children of a node are hashed.
excluded_hash_older(db, node, prefix, c) ==
    LET others == SetToSortSeq({d \in DOMAIN node.children : d < c}, <)
    IN blake3_concat([j \in DOMAIN others |-> get_or_load_child(db, node, prefix, others[j]).hash])

\* The hash of the children of a node other than c.
excluded_hash(db, node, prefix, c) ==
    LET others == SetToSortSeq(DOMAIN node.children \ {c}, <)
    IN blake3_concat([j \in DOMAIN others |-> get_or_load_child(db, node, prefix, others[j]).hash])

\* The snapshot at a prefix, from the node at its first i characters; it ends early
\* where the trie has nothing under the prefix.
RECURSIVE get_snapshot(_, _, _, _)
get_snapshot(db, node, prefix, i) ==
    IF i = Len(prefix) THEN [prefix |-> prefix, excluded_hashes |-> <<node.hash>>]
    ELSE LET here == SubSeq(prefix, 1, i)
             c == prefix[i + 1]
             first == <<excluded_hash(db, node, here, c)>>
         IN IF c \notin DOMAIN node.children THEN [prefix |-> here, excluded_hashes |-> first]
            ELSE LET below == get_snapshot(db, get_or_load_child(db, node, here, c), prefix, i + 1)
                 IN [below EXCEPT !.excluded_hashes = first \o @]
===============================================================================
