----------------------------- MODULE MCMerkleTrie -----------------------------
(***************************************************************************)
(* A small instance of MerkleTrie: keys of two timestamp digits and two    *)
(* further characters, three of them in one second.                        *)
(***************************************************************************)
EXTENDS MerkleTrie

MCKeys == {<<0, 0, 0, 0>>, <<0, 0, 0, 1>>, <<0, 0, 1, 0>>, <<0, 2, 0, 0>>}

\* Nothing, everything, single keys, two that part at the leaf, and those that part earlier.
MCPeers == {{}, MCKeys} \cup {{k} : k \in MCKeys} \cup
           {{<<0, 0, 0, 0>>, <<0, 0, 0, 1>>}, {<<0, 0, 0, 1>>, <<0, 0, 1, 0>>, <<0, 2, 0, 0>>}}

\* Batches of one key, and of two that part at the leaf, below the timestamp and in it.
MCBatches == {<<k>> : k \in MCKeys} \cup
             {<< <<0, 0, 0, 0>>, <<0, 0, 0, 1>> >>, << <<0, 0, 1, 0>>, <<0, 0, 0, 0>> >>,
              << <<0, 0, 0, 1>>, <<0, 2, 0, 0>> >>}
===============================================================================
