---------------------------- MODULE MCStorageCache ----------------------------
(***************************************************************************)
(* Small instances of StorageCache.                                        *)
(***************************************************************************)
EXTENDS StorageCache

CONSTANTS c1, c2

M(key, ts) == [key |-> key, ts |-> ts]

\* Two messages about one key and two others.
MCMessages == {M("x", 1), M("y", 2), M("x", 3), M("z", 4)}

\* Without the last one.
Few == {M("x", 1), M("y", 2), M("x", 3)}
\* A compact state that may delete the first two of them.
Compacting == {[ts |-> 2]}
FewInitialDbs == {{M("x", 1), M("y", 2)}}

\* A rent that expires after the first second and a later one.
R1 == [units |-> 2, until |-> 0]
R2 == [units |-> 1, until |-> 2]
MCRents == {R1, R2}
MCInitialRents == {{R1}}

\* The same storage all the time.
Lasting == {[units |-> 2, until |-> 9]}
MCLasting == {Lasting}

MCInitialDbs == {{}, {M("x", 1)}, {M("x", 1), M("y", 2)}, {M("x", 1), M("y", 2), M("z", 4)}}
===============================================================================
