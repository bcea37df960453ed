-------------------------- MODULE MCSignerRevocation --------------------------
(***************************************************************************)
(* Small instances of SignerRevocation.                                    *)
(***************************************************************************)
EXTENDS SignerRevocation, TLC

CONSTANTS p1, p2, v1, r1, r2

E(signer, type, block, log) == [signer |-> signer, type |-> type, block |-> block, log |-> log]

MCSigners == {"a"}

\* A key that was added, added again after a reset that has not reached the hub, and
\* removed within the same block.
MCEvents == {E("a", "ADD", 1, 0), E("a", "ADD", 4, 0), E("a", "REMOVE", 4, 1)}

\* A message whose name may move on.
MCMessages == {[signer |-> "a", id |-> 1]}

\* Two signers: the job of the one finds the worker busy with the job of the other.
TwoSigners == {"a", "b"}

TwoSignersEvents == {E("a", "ADD", 1, 0), E("a", "REMOVE", 3, 0),
                     E("b", "ADD", 4, 0), E("b", "REMOVE", 4, 1)}

TwoSignersMessages == {[signer |-> "a", id |-> 1], [signer |-> "b", id |-> 2]}
===============================================================================
