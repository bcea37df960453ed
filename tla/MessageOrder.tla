---------------------------- MODULE MessageOrder ----------------------------
(***************************************************************************)
(* Messages as the set stores see them, and the order in which two         *)
(* messages about the same thing beat each other (StoreDef::message_compare *)
(* in store.rs and its override in cast_store.rs).                         *)
(*                                                                         *)
(* A message carries the four things the stores look at: whether it adds   *)
(* or removes, the key both sets are indexed by (a cast hash, a link       *)
(* type/target, a reaction type/target, an address), its timestamp and its *)
(* hash.  The hash is a Nat: only its order and its uniqueness matter.     *)
(***************************************************************************)
EXTENDS Integers

CONSTANTS
    Keys,               \* what the add set and the remove set are indexed by
    Messages,           \* the messages that may ever be signed
    CastKeys            \* the keys of the cast store: cast hashes

ASSUME MessagesAssumption ==
    Messages \subseteq [type : {"add", "remove"}, key : Keys, ts : Nat, hash : Nat]

\* The hash is a blake3 digest of the message's content.
ASSUME HashAssumption ==
    \A m, n \in Messages : m.hash = n.hash => m = n

ASSUME StoreKindAssumption == CastKeys \subseteq Keys

-----------------------------------------------------------------------------
bytes_compare(a, b) == IF a < b THEN -1 ELSE IF a > b THEN 1 ELSE 0

is_add_type(m)    == m.type = "add"
is_remove_type(m) == m.type = "remove"

\* A remove against an add, 0 when both are of the same type.
type_compare(a, b) ==
    IF is_remove_type(a) /\ is_add_type(b) THEN 1
    ELSE IF is_add_type(a) /\ is_remove_type(b) THEN -1
    ELSE 0

\* Mutant: no tie-break for messages of one second.
message_compare_no_ties(a, b) == bytes_compare(a.ts, b.ts)

\* StoreDef::message_compare: timestamp, then remove over add, then hash.
default_message_compare(a, b) ==
    IF bytes_compare(a.ts, b.ts) # 0 THEN bytes_compare(a.ts, b.ts)
    ELSE IF type_compare(a, b) # 0 THEN type_compare(a, b)
    ELSE bytes_compare(a.hash, b.hash)

\* Mutant: casts ranked like the other messages.
cast_compare_by_time(a, b) == default_message_compare(a, b)

\* CastStoreDef::message_compare: remove over add, then timestamp, then hash.
cast_message_compare(a, b) ==
    IF type_compare(a, b) # 0 THEN type_compare(a, b)
    ELSE IF bytes_compare(a.ts, b.ts) # 0 THEN bytes_compare(a.ts, b.ts)
    ELSE bytes_compare(a.hash, b.hash)

\* For two messages about one key, hence of one store.
message_compare(a, b) ==
    IF a.key \in CastKeys THEN cast_message_compare(a, b)
                       ELSE default_message_compare(a, b)

-----------------------------------------------------------------------------
\* b is beaten by a: they are about the same key and a is ranked higher.
Beats(a, b) == a.key = b.key /\ message_compare(a, b) > 0

\* The members of S that no other member of S beats: what a store that has
\* been offered S, in whatever order, ought to hold.
Winners(S) == {m \in S : \A n \in S : ~Beats(n, m)}
=============================================================================
