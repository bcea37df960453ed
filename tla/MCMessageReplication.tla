------------------------ MODULE MCMessageReplication ------------------------
(***************************************************************************)
(* Small instances of MessageReplication.                                  *)
(***************************************************************************)
EXTENDS MessageReplication, TLC

CONSTANTS h1, h2

M(type, key, ts, hash) == [type |-> type, key |-> key, ts |-> ts, hash |-> hash]

\* x is the key of a link or a reaction, c a cast hash.
MCKeys == {"x", "c"}
MCCastKeys == {"c"}

\* Key x: an add and a remove with equal timestamps (the remove's hash is
\* lower), and two later adds apart by hash only.  Key c: a cast and a
\* remove that is older than it.
MCMessages == {M("add", "x", 1, 5), M("remove", "x", 1, 2), M("add", "x", 2, 1),
               M("add", "x", 2, 4), M("add", "c", 3, 3), M("remove", "c", 1, 6)}
=============================================================================
