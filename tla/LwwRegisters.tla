---------------------------- MODULE LwwRegisters ----------------------------
(***************************************************************************)
(* What the set stores promise (the doc comments of cast_store.rs,         *)
(* link_store.rs and reaction_store.rs: a CRDT set with Remove-Wins and    *)
(* Last-Write-Wins rules): per hub and key there is one register, and a    *)
(* register is only ever overwritten by a message that beats its content.  *)
(***************************************************************************)
EXTENDS MessageOrder

CONSTANTS Hubs, None

VARIABLE register       \* register[h][k]: the ruling message about k at hub h

Init == register = [h \in Hubs |-> [k \in Keys |-> None]]

Overwrite(h, m) ==
    /\ \/ register[h][m.key] = None
       \/ Beats(m, register[h][m.key])
    /\ register' = [register EXCEPT ![h] = [@ EXCEPT ![m.key] = m]]

Next == \E h \in Hubs, m \in Messages : Overwrite(h, m)

Spec == Init /\ [][Next]_register
=============================================================================
