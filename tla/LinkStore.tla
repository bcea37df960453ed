------------------------------ MODULE LinkStore ------------------------------
(***************************************************************************)
(* The link store of one fid (addon/src/store/link_store.rs on top of      *)
(* store.rs).  Beside the two sets it keeps, per link type, one compact    *)
(* state message that lists the targets a user still links to and replaces *)
(* all older links.  A link's key is the pair <<link type, target>>.       *)
(*                                                                         *)
(* Databases written by early versions hold index entries whose link type  *)
(* was not padded to 8 bytes; oldAdds and oldRemoves are those entries.    *)
(***************************************************************************)
EXTENDS MessageOrder

CONSTANTS
    Types,      \* link types
    Targets,    \* target fids
    Compacts,   \* the compact state messages that may ever be signed
    None

ASSUME LinkKeysAssumption == Keys = Types \X Targets

ASSUME LinkOrderAssumption == CastKeys = {}

ASSUME CompactsAssumption ==
    Compacts \subseteq [type : Types, targets : SUBSET Targets, ts : Nat, hash : Nat]

ASSUME NoneAssumption == None \notin Messages \cup Compacts

Index == [Keys -> Messages \cup {None}]

LinkStoreType == [msgs : SUBSET Messages, byTarget : SUBSET Messages,
                  adds : Index, removes : Index, oldAdds : Index, oldRemoves : Index,
                  compact : [Types -> Compacts \cup {None}]]

NoEntries == [k \in Keys |-> None]

\* A database whose messages in Old were indexed by a version that did not pad
\* the link type.
LegacyStore(Old) ==
    [msgs       |-> Old,
     byTarget   |-> {m \in Old : is_add_type(m)},
     adds       |-> NoEntries,
     removes    |-> NoEntries,
     oldAdds    |-> [k \in Keys |-> IF \E m \in Old : m.key = k /\ is_add_type(m)
                                    THEN CHOOSE m \in Old : m.key = k ELSE None],
     oldRemoves |-> [k \in Keys |-> IF \E m \in Old : m.key = k /\ is_remove_type(m)
                                    THEN CHOOSE m \in Old : m.key = k ELSE None],
     compact    |-> [t \in Types |-> None]]

linkType(m) == m.key[1]
targetFid(m) == m.key[2]

-----------------------------------------------------------------------------
\* Mutant: a delete leaves the unpadded index entries of early versions.
delete_many_padded_only(s, D) ==
    LET Drop(index, is_type(_)) ==
            [k \in Keys |-> IF \E d \in D : is_type(d) /\ d.key = k THEN None ELSE index[k]]
    IN  [s EXCEPT !.msgs     = @ \ D,
                  !.byTarget = @ \ D,
                  !.adds     = Drop(@, is_add_type),
                  !.removes  = Drop(@, is_remove_type)]

\* delete_many_transaction for links: a deleted add drops the padded and the
\* unpadded add entry of its key, a deleted remove the two remove entries.
delete_many_transaction(s, D) ==
    LET Drop(index, is_type(_)) ==
            [k \in Keys |-> IF \E d \in D : is_type(d) /\ d.key = k THEN None ELSE index[k]]
    IN  [s EXCEPT !.msgs       = @ \ D,
                  !.byTarget   = @ \ D,
                  !.adds       = Drop(@, is_add_type),
                  !.oldAdds    = Drop(@, is_add_type),
                  !.removes    = Drop(@, is_remove_type),
                  !.oldRemoves = Drop(@, is_remove_type)]

put_transaction(s, m) ==
    IF is_add_type(m)
    THEN [s EXCEPT !.msgs = @ \cup {m}, !.byTarget = @ \cup {m}, !.adds[m.key] = m]
    ELSE [s EXCEPT !.msgs = @ \cup {m}, !.removes[m.key] = m]

-----------------------------------------------------------------------------
\* What the four index entries about m's key point at.
EntriesFor(s, m) ==
    {s.removes[m.key], s.adds[m.key], s.oldRemoves[m.key], s.oldAdds[m.key]} \ {None}

\* LinkStore::get_merge_conflicts: refused as conflict or duplicate when an
\* entry, padded or not, ranks at least as high as m.
is_refused(s, m) == \E e \in EntriesFor(s, m) : message_compare(e, m) >= 0

get_merge_conflicts(s, m) == EntriesFor(s, m) \cap s.msgs

\* merge_add and merge_remove: what the compact state of the link type rules out.
\* An add is kept out only if it is older and not listed, a remove if it is older.
ruled_out(s, m) ==
    LET c == s.compact[linkType(m)]
    IN  /\ c # None
        /\ m.ts < c.ts
        /\ is_add_type(m) => targetFid(m) \notin c.targets

\* Mutant: merge_add and merge_remove do not look at the compact state.
CanMergeUncompacted(s, m) == ~is_refused(s, m)

CanMerge(s, m) == ~ruled_out(s, m) /\ ~is_refused(s, m)

merge(s, m) == put_transaction(delete_many_transaction(s, get_merge_conflicts(s, m)), m)

-----------------------------------------------------------------------------
\* Mutant: any compact state replaces any other.
CanMergeAnyCompact(s, c) == s.compact[c.type] # c

\* merge_compact_state: only a strictly newer compact state replaces another.
CanMergeCompact(s, c) == s.compact[c.type] # None => s.compact[c.type].ts < c.ts

\* The scan over all links of the fid up to the compact state's timestamp, of
\* whatever link type: removes, and adds whose target is not listed.
compact_conflicts(s, c) ==
    {m \in s.msgs : m.ts <= c.ts /\ (is_remove_type(m) \/ targetFid(m) \notin c.targets)}

\* Mutant: the links that a compact state rules out are not deleted.
merge_compact_only(s, c) == [s EXCEPT !.compact[c.type] = c]

\* Mutant: a compact state is stored without its timestamp.
merge_compact_undated(s, c) ==
    [delete_many_transaction(s, compact_conflicts(s, c)) EXCEPT !.compact[c.type] = [c EXCEPT !.ts = 0]]

merge_compact_state(s, c) ==
    [delete_many_transaction(s, compact_conflicts(s, c)) EXCEPT !.compact[c.type] = c]

-----------------------------------------------------------------------------
\* Index entries and stored messages agree, in either form of the index, and at
\* most one message rules a key.
LinksConsistent(s) ==
    /\ \A k \in Keys, e \in Messages :
          /\ e \in {s.adds[k], s.oldAdds[k]} => e \in s.msgs /\ e.key = k /\ is_add_type(e)
          /\ e \in {s.removes[k], s.oldRemoves[k]} =>
                e \in s.msgs /\ e.key = k /\ is_remove_type(e)
    /\ \A m \in s.msgs : EntriesFor(s, m) = {m}
    /\ s.byTarget = {m \in s.msgs : is_add_type(m)}

\* Nothing is stored that merge_add or merge_remove would refuse for the compact state of
\* its type.
NothingRuledOut(s) == \A m \in s.msgs : ~ruled_out(s, m)
=============================================================================
