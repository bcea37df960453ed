---------------------------- MODULE MCStoreThreads ----------------------------
(***************************************************************************)
(* Small instances of StoreThreads.                                        *)
(***************************************************************************)
EXTENDS StoreThreads, TLC

CONSTANTS t1, t2, l1, l2

M(type, key, ts, hash) == [type |-> type, key |-> key, ts |-> ts, hash |-> hash]

\* Keys x and z belong to one fid, y to a fid with another lock.
MCKeys == {"x", "y", "z"}
MCLockOf == [k \in MCKeys |-> IF k = "y" THEN l2 ELSE l1]

\* In the first instance z and y are verifications of one address.
MCAddressOf == [k \in MCKeys |-> IF k \in {"y", "z"} THEN "a" ELSE None]
NoAddress == [k \in MCKeys |-> None]

\* Two rivals about one key, a message about another key of their fid and a message of
\* the other fid, about the same address.
MCRivals == {M("add", "x", 1, 1), M("remove", "x", 1, 2), M("add", "z", 3, 5),
             M("add", "y", 1, 4)}

\* Three adds about one key.
MCRace == {M("add", "x", 1, 1), M("add", "x", 2, 2), M("add", "x", 3, 3)}

ThreadSymmetry == Permutations(Threads)
=============================================================================
