------------------------------- MODULE Block -------------------------------
(***************************************************************************)
(* The data of the flight-recorder blockchain: blocks, their digests and   *)
(* signatures (src/blockchain/block.py), the Proof-of-Authority acceptance *)
(* rules (src/blockchain/consensus.py) and the walk over a whole chain     *)
(* (Chain.verify_full_chain, src/blockchain/chain.py).                     *)
(*                                                                         *)
(* Two abstractions, both injective where the code relies on it:           *)
(*   - a payload stands for block_type, data and timestamp together; the   *)
(*     timestamp makes the payloads of two proposals differ;               *)
(*   - SHA-256 is collision free: the digest of a block is the history it  *)
(*     commits to, the digest of its parent followed by its own fields.    *)
(* The signature dictionary is a set of records: a node signs each block   *)
(* at most once, and who signed which digest is all that keys.verify reads.*)
(***************************************************************************)
EXTENDS Integers, FiniteSets, Sequences

CONSTANTS
    Nodes,              \* keys.ALL_NODE_IDS, the known signing nodes
    Payloads,           \* what a proposer can put into a block
    GenesisPayload,     \* the content of the hard-coded genesis block
    RequiredSignatures  \* consensus.REQUIRED_SIGNATURES, 2 of 3

(* "majority of 3": two sets of that many signers always share a node. *)
ASSUME NodesAssumption == IsFiniteSet(Nodes) /\ Nodes # {}
ASSUME MajorityAssumption == /\ RequiredSignatures \in Nat
                             /\ 2 * RequiredSignatures > Cardinality(Nodes)
ASSUME PayloadAssumption == GenesisPayload \notin Payloads

Digests == Seq(Nat \X (Payloads \union {GenesisPayload}))
Signatures == [node : Nodes, over : Digests]
Blocks == [index : Nat, data : Payloads \union {GenesisPayload},
           prev : Digests, hash : Digests, sigs : SUBSET Signatures]

ComputeHash(index, data, prev) == Append(prev, <<index, data>>)

HashIsValid(b) == b.hash = ComputeHash(b.index, b.data, b.prev)

(* A block as its constructor leaves it: hash computed, nobody signed yet. *)
NewBlock(index, data, prev) ==
    [index |-> index, data |-> data, prev |-> prev,
     hash |-> ComputeHash(index, data, prev), sigs |-> {}]

Genesis == NewBlock(0, GenesisPayload, <<>>)

Sign(n, b) == [node |-> n, over |-> b.hash]

AddSignature(b, s) == [b EXCEPT !.sigs = @ \union {s}]

(* The nodes with a signature that counts: known, and over this hash. *)
ValidSigners(b) == {n \in Nodes : \E s \in b.sigs : s.node = n /\ s.over = b.hash}

HasMajority(b) == Cardinality(ValidSigners(b)) >= RequiredSignatures

(* A chain is a nonempty sequence whose last block is the tip; the block   *)
(* of index i is meant to sit at position i + 1.                           *)
Chains == Seq(Blocks) \ {<<>>}
Tip(c) == c[Len(c)]

(* Bugs the checks must notice: a test left out.                           *)
AcceptAnyParent(b, expectedPrev) == HashIsValid(b) /\ HasMajority(b)
AcceptAnyVotes(b, expectedPrev) == HashIsValid(b) /\ b.prev = expectedPrev

CheckBlockAcceptable(b, expectedPrev) ==
    /\ HashIsValid(b)
    /\ b.prev = expectedPrev
    /\ HasMajority(b)

(* A bug: the parent may lie anywhere below the tip.                       *)
AppendOnParent(b, c) == \E i \in 1..Len(c) : CheckBlockAcceptable(b, c[i].hash)

(* The full guard of Chain.try_append: the rules, then the index. *)
CanAppend(b, c) == /\ CheckBlockAcceptable(b, Tip(c).hash)
                   /\ b.index = Tip(c).index + 1

(* A bug: the index alone decides.                                         *)
SignAnyParent(b, c) == HashIsValid(b) /\ b.index = Tip(c).index + 1

(* The guard of the /validate handler: a node signs what extends its tip. *)
CanSign(b, c) == /\ HashIsValid(b)
                 /\ b.prev = Tip(c).hash
                 /\ b.index = Tip(c).index + 1

(* verify_full_chain starts at the block after genesis. *)
VerifyFullChain(c) ==
    \A i \in 2..Len(c) : /\ HashIsValid(c[i])
                         /\ c[i].prev = c[i - 1].hash
                         /\ HasMajority(c[i])
=============================================================================
