-------------------------- MODULE MCLinkReplication --------------------------
(***************************************************************************)
(* Small instances of LinkReplication.                                     *)
(***************************************************************************)
EXTENDS LinkReplication, TLC

CONSTANTS h1, h2

MCTypes == {"follow", "block"}
MCTargets == {1, 2}
MCKeys == MCTypes \X MCTargets

M(type, key, ts, hash) == [type |-> type, key |-> key, ts |-> ts, hash |-> hash]
C(type, targets, ts, hash) == [type |-> type, targets |-> targets, ts |-> ts, hash |-> hash]

\* Links before, at and after the first compact state's timestamp, a remove that is dropped
\* by a compaction which lists its target, and a link of another type.
MCMessages == {M("add", <<"follow", 1>>, 1, 1), M("remove", <<"follow", 1>>, 2, 2),
               M("add", <<"follow", 2>>, 2, 3), M("add", <<"block", 1>>, 1, 5)}

\* The second lists a target that the first does not, and keeps out one at its own second.
MCCompacts == {C("follow", {}, 2, 6), C("follow", {1}, 3, 7)}

\* The links of key <<"follow", 1>>, an add and a remove.
MCLegacy == {m \in MCMessages : m.key = <<"follow", 1>>}

MCFewMessages == {M("add", <<"follow", 1>>, 1, 1), M("add", <<"follow", 2>>, 1, 3)}
=============================================================================
