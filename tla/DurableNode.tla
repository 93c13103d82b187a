----------------------------- MODULE DurableNode -----------------------------
(***************************************************************************)
(* What a blockchain node promises its clients, from the texts of          *)
(* src/blockchain/node.py and chain.py: a /commit is served in one step,   *)
(* on the chain as it is then, and "appends and persists" together; a kill *)
(* loses nothing that was answered, nor the parent of a block it signed.   *)
(* PoANetwork takes its nodes to be like this.  ChainNode shows how the    *)
(* steps of try_append and _persist make up one Serve, and that a node is  *)
(* like this only until requests to it overlap.                            *)
(***************************************************************************)
EXTENDS Naturals, Sequences

CONSTANTS
    Requests,           \* the blocks that clients post to this node
    Genesis,            \* the block every chain starts with
    CanAppend(_, _),    \* the rules: may this block be appended to this chain,
    CanSign(_, _)       \* and may a node with this chain sign it

VARIABLES
    up,         \* the node answers
    chain,      \* what it has, and will have after a restart
    signed,     \* blocks it has signed
    acked       \* blocks it has answered "committed" for

vars == <<up, chain, signed, acked>>

Init ==
    /\ up = TRUE
    /\ chain = <<Genesis>>
    /\ signed = {}
    /\ acked = {}

Serve(b) ==
    /\ up
    /\ CanAppend(b, chain)
    /\ chain' = Append(chain, b)
    /\ UNCHANGED <<up, signed, acked>>

Answer(b) ==
    /\ up
    /\ \E i \in 1..Len(chain) : chain[i] = b
    /\ acked' = acked \union {b}
    /\ UNCHANGED <<up, chain, signed>>

Vote(b) ==
    /\ up
    /\ CanSign(b, chain)
    /\ signed' = signed \union {b}
    /\ UNCHANGED <<up, chain, acked>>

Kill == up /\ up' = FALSE /\ UNCHANGED <<chain, signed, acked>>

Restart == ~up /\ up' = TRUE /\ UNCHANGED <<chain, signed, acked>>

Next == \/ \E b \in Requests : Serve(b) \/ Answer(b) \/ Vote(b)
        \/ Kill \/ Restart

Spec == Init /\ [][Next]_vars
=============================================================================
