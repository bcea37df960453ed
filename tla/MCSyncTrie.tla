------------------------------ MODULE MCSyncTrie ------------------------------
(***************************************************************************)
(* A small instance of SyncTrie.                                           *)
(***************************************************************************)
EXTENDS SyncTrie

CONSTANTS m1, m2, e1

MCInitial == {{}, {m1}, {m1, m2}}
\* One message, as the diff walk asks, and the list of an audit.
MCAsked == {<<m1>>, <<m2>>, <<e1, m1, m2>>}
===============================================================================
