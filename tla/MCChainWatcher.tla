---------------------------- MODULE MCChainWatcher ----------------------------
(***************************************************************************)
(* A small instance of ChainWatcher: blocks 8 to 14, which are not in the  *)
(* order of their decimal strings, and an event of each of two contracts,  *)
(* the first one further back than a restart looks.                        *)
(***************************************************************************)
EXTENDS ChainWatcher

MCEvents == 1..2
MCBlockOf == <<9, 12>>
MCContractOf == <<"key", "storage">>
MCFidOf == <<1, 1>>
MCContractOrder == <<"storage", "key">>

\* No query by fid asks for the first event (an AdminReset, say).
MCByFid == {2}

\* "10" .. "14", "8", "9".
MCStringRank == [b \in 8..14 |-> IF b < 10 THEN b - 3 ELSE b - 10]
===============================================================================
