---------------------------- MODULE MessageStore ----------------------------
(***************************************************************************)
(* The set store of one fid (addon/src/store/store.rs): the messages under *)
(* their primary key, the add set index, the remove set index and the      *)
(* by-target secondary index, and what merge and revoke do to them.  All   *)
(* writes of one call are in one RocksDB transaction, so an operation is a *)
(* function from store to store.                                           *)
(***************************************************************************)
EXTENDS MessageOrder

CONSTANT None           \* no entry under an index key

ASSUME NoneAssumption == None \notin Messages

Store == [msgs     : SUBSET Messages,
          adds     : [Keys -> Messages \cup {None}],
          removes  : [Keys -> Messages \cup {None}],
          byTarget : SUBSET Messages]

EmptyStore == [msgs     |-> {},
               adds     |-> [k \in Keys |-> None],
               removes  |-> [k \in Keys |-> None],
               byTarget |-> {}]

-----------------------------------------------------------------------------
\* Mutant: the add set index names a message without its hash.
put_add_without_hash(s, m) ==
    [msgs     |-> s.msgs \cup {m},
     adds     |-> [s.adds EXCEPT ![m.key] = [m EXCEPT !.hash = 0]],
     removes  |-> s.removes,
     byTarget |-> s.byTarget \cup {m}]

put_add_transaction(s, m) ==
    [msgs     |-> s.msgs \cup {m},
     adds     |-> [s.adds EXCEPT ![m.key] = m],
     removes  |-> s.removes,
     byTarget |-> s.byTarget \cup {m}]

put_remove_transaction(s, m) ==
    [msgs     |-> s.msgs \cup {m},
     adds     |-> s.adds,
     removes  |-> [s.removes EXCEPT ![m.key] = m],
     byTarget |-> s.byTarget]

\* Mutant: the secondary index entries of a deleted message stay.
delete_many_keeps_secondary(s, D) ==
    [msgs     |-> s.msgs \ D,
     adds     |-> [k \in Keys |-> IF \E d \in D : is_add_type(d) /\ d.key = k
                                  THEN None ELSE s.adds[k]],
     removes  |-> [k \in Keys |-> IF \E d \in D : is_remove_type(d) /\ d.key = k
                                  THEN None ELSE s.removes[k]],
     byTarget |-> s.byTarget]

\* Mutant: the set index entries of a deleted message stay.
delete_many_keeps_index(s, D) == [s EXCEPT !.msgs = @ \ D, !.byTarget = @ \ D]

\* delete_many_transaction, and for one message delete_add_transaction and
\* delete_remove_transaction: the set index loses whatever it holds under a
\* deleted message's key, that message or another.
delete_many_transaction(s, D) ==
    [msgs     |-> s.msgs \ D,
     adds     |-> [k \in Keys |-> IF \E d \in D : is_add_type(d) /\ d.key = k
                                  THEN None ELSE s.adds[k]],
     removes  |-> [k \in Keys |-> IF \E d \in D : is_remove_type(d) /\ d.key = k
                                  THEN None ELSE s.removes[k]],
     byTarget |-> s.byTarget \ D]

-----------------------------------------------------------------------------
\* Mutant: ties are not broken, the later arrival is let in.
RefusedByNewer(index, m) ==
    /\ index[m.key] # None
    /\ index[m.key].ts > m.ts

\* The entry an index holds under m's key beats m, or is m.
RefusedBy(index, m) ==
    /\ index[m.key] # None
    /\ message_compare(index[m.key], m) >= 0

\* The message an index points at under m's key; nothing when the primary
\* entry is gone (the code logs a warning and goes on).
ConflictIn(s, index, m) == {index[m.key]} \cap s.msgs

\* get_default_merge_conflicts: the error, remove set first, or "ok".
merge_check(s, m) ==
    IF RefusedBy(s.removes, m)
    THEN IF message_compare(s.removes[m.key], m) > 0 THEN "conflict" ELSE "duplicate"
    ELSE IF RefusedBy(s.adds, m)
    THEN IF message_compare(s.adds[m.key], m) > 0 THEN "conflict" ELSE "duplicate"
    ELSE "ok"

\* Mutant: only the add set is searched for messages to replace.
conflicts_in_adds(s, m) == ConflictIn(s, s.adds, m)

\* get_default_merge_conflicts: the messages m replaces.
get_merge_conflicts(s, m) ==
    ConflictIn(s, s.removes, m) \cup ConflictIn(s, s.adds, m)

\* merge_add and merge_remove once the conflicts are known.
put_transaction(s, m) ==
    IF is_add_type(m) THEN put_add_transaction(s, m) ELSE put_remove_transaction(s, m)

\* Store::merge for a message merge_check accepts.
merge(s, m) == put_transaction(delete_many_transaction(s, get_merge_conflicts(s, m)), m)

-----------------------------------------------------------------------------
\* Every index entry points at a stored message of its type and key, and every
\* stored message is reachable through its set index.
IndexConsistent(s) ==
    /\ \A k \in Keys : s.adds[k] # None =>
          s.adds[k] \in s.msgs /\ s.adds[k].key = k /\ is_add_type(s.adds[k])
    /\ \A k \in Keys : s.removes[k] # None =>
          s.removes[k] \in s.msgs /\ s.removes[k].key = k /\ is_remove_type(s.removes[k])
    /\ \A m \in s.msgs : IF is_add_type(m) THEN s.adds[m.key] = m
                                           ELSE s.removes[m.key] = m
    /\ s.byTarget = {m \in s.msgs : is_add_type(m)}
=============================================================================
