----------------------------- MODULE MCChainNode -----------------------------
(***************************************************************************)
(* Small instances of ChainNode for TLC.  The requests are the blocks that *)
(* clients of this node and of its peers may have built: on genesis, and   *)
(* on each of those; signed by a majority or, as in the tests of           *)
(* consensus.py, by one node only.                                         *)
(***************************************************************************)
EXTENDS ChainNode, TLC

SignedBy(nodes, b) == [b EXCEPT !.sigs = {Sign(n, b) : n \in nodes}]

OnGenesis == {NewBlock(1, d, Genesis.hash) : d \in Payloads}

OnTopOf(b) == {NewBlock(b.index + 1, d, b.hash) : d \in Payloads \ {b.data}}

Unsigned == OnGenesis \union UNION {OnTopOf(b) : b \in OnGenesis}

Proposed == {SignedBy(Nodes, b) : b \in Unsigned}

(* One block with its successor, a rival of it, and a copy of it that only *)
(* this node has signed.                                                   *)
First == CHOOSE b \in OnGenesis : TRUE

Offered == {SignedBy(Nodes, b) : b \in OnGenesis \union OnTopOf(First)}
           \union {SignedBy({Self}, First)}

Symmetry == Permutations(Threads)
=============================================================================
