----------------------------- MODULE PoANetwork -----------------------------
(***************************************************************************)
(* The three blockchain nodes (src/blockchain/node.py) and the clients     *)
(* that propose blocks to them (src/blockchain/client.py).                 *)
(*                                                                         *)
(* A client is a sequential program: it reads the tip of the first node of *)
(* its list, asks every node in turn for a signature, and, once a majority *)
(* has signed, posts the block to every node in turn.  Each request is one *)
(* action of the node that serves it, and requests of different clients    *)
(* interleave freely.  That a node serves a request as a whole, one after  *)
(* the other, is an assumption: Flask's threads may overlap two of them.   *)
(* The module ChainNode opens up the handlers: a node is like the ones     *)
(* here until requests to it overlap, and not after that.                  *)
(*                                                                         *)
(* Failures: a node is killed and started again; a request to a running    *)
(* node gets no answer within the client's 5 s.  A commit request without  *)
(* an answer may be served later, be served just before a crash, or never. *)
(***************************************************************************)
EXTENDS Block

CONSTANTS
    Clients,        \* callers of propose_and_commit
    Routes,         \* the node_urls lists they may pass
    Persist,        \* FALSE is --no-persist
    MaxCrashes,     \* bound: kills in a behaviour
    MaxUnanswered   \* bound: requests without an answer in a behaviour

ASSUME RoutesAssumption == Routes \subseteq Seq(Nodes) \ {<<>>}
ASSUME PersistAssumption == Persist \in BOOLEAN
ASSUME BoundsAssumption == MaxCrashes \in Nat /\ MaxUnanswered \in Nat

VARIABLES
    chain,      \* chain[n]: the blocks of node n, in memory and on its disk
    up,         \* up[n]: the process of node n runs
    prop,       \* prop[c]: where client c stands in propose_and_commit
    late,       \* commit requests whose client has stopped waiting
    used,       \* payloads proposed so far
    crashes,    \* kills so far
    unanswered  \* requests without an answer so far

vars == <<chain, up, prop, late, used, crashes, unanswered>>

(* What the caller of propose_and_commit sees:                             *)
(*   returned  the block and the commit results                            *)
(*   failed    ProposalFailed, no majority                                 *)
(*   aborted   a RequestException of get_tip or request_signature          *)
Finished == {"idle", "returned", "failed", "aborted"}
Running == {"validating", "committing"}

CommitResults == {"none", "committed", "rejected", "request_failed"}

Proposals == [pc : Finished \union Running, route : Seq(Nodes), pos : Nat,
              block : Blocks, result : [Nodes -> CommitResults]]

NoResults == [n \in Nodes |-> "none"]

Target(c) == prop[c].route[prop[c].pos]

(* The locals of a call vanish with it; only what it returns is left.      *)
Raised(outcome) == [pc |-> outcome, route |-> <<>>, pos |-> 1,
                    block |-> Genesis, result |-> NoResults]

Returned(p) == [p EXCEPT !.pc = "returned", !.route = <<>>, !.pos = 1]

Init ==
    /\ chain = [n \in Nodes |-> <<Genesis>>]
    /\ up = [n \in Nodes |-> TRUE]
    /\ prop = [c \in Clients |-> Raised("idle")]
    /\ late = {}
    /\ used = {}
    /\ crashes = 0
    /\ unanswered = 0

-----------------------------------------------------------------------------
(* The clients.                                                            *)

(* The request gets no answer: refused by a dead node, or the 5 s are up.  *)
NoAnswer(n) ==
    \/ ~up[n] /\ UNCHANGED unanswered
    \/ up[n] /\ unanswered < MaxUnanswered /\ unanswered' = unanswered + 1

(* get_tip and the construction of the candidate on what it returned.      *)
GetTip(c, route, d) ==
    LET tip == Tip(chain[route[1]]) IN
    /\ prop[c].pc \in Finished
    /\ up[route[1]]
    /\ d \notin used
    /\ prop' = [prop EXCEPT ![c] =
                   [pc |-> "validating", route |-> route, pos |-> 1,
                    block |-> NewBlock(tip.index + 1, d, tip.hash), result |-> NoResults]]
    /\ used' = used \union {d}
    /\ UNCHANGED <<chain, up, late, crashes, unanswered>>

GetTipFails(c, route) ==
    /\ prop[c].pc \in Finished
    /\ NoAnswer(route[1])
    /\ prop' = [prop EXCEPT ![c] = Raised("aborted")]
    /\ UNCHANGED <<chain, up, late, used, crashes>>

(* One turn of the signature loop: the node signs or declines and changes  *)
(* nothing of its own.  After the last turn the client counts.             *)
AfterSignature(p, b) ==
    IF p.pos < Len(p.route) THEN [p EXCEPT !.block = b, !.pos = @ + 1]
    ELSE IF HasMajority(b) THEN [p EXCEPT !.block = b, !.pc = "committing", !.pos = 1]
    ELSE Raised("failed")

RequestSignature(c) ==
    LET n == Target(c)
        b == prop[c].block IN
    /\ prop[c].pc = "validating"
    /\ up[n]
    /\ prop' = [prop EXCEPT ![c] =
                   AfterSignature(@, IF CanSign(b, chain[n])
                                     THEN AddSignature(b, Sign(n, b)) ELSE b)]
    /\ UNCHANGED <<chain, up, late, used, crashes, unanswered>>

(* request_signature has no handler: its exception ends the proposal.      *)
SignatureRequestFails(c) ==
    /\ prop[c].pc = "validating"
    /\ NoAnswer(Target(c))
    /\ prop' = [prop EXCEPT ![c] = Raised("aborted")]
    /\ UNCHANGED <<chain, up, late, used, crashes>>

(* One turn of commit_to_all.  After the last one the block is returned    *)
(* with the results, whatever they are.                                    *)
(* Bugs: the same node is asked until it commits; the first node that does *)
(* not commit ends the loop; the loop runs one node too far.               *)
AskUntilCommitted(p, result) ==
    LET q == [p EXCEPT !.result[p.route[p.pos]] = result] IN
    IF result # "committed" THEN q
    ELSE IF p.pos < Len(p.route) THEN [q EXCEPT !.pos = @ + 1] ELSE Returned(q)
StopAtFailure(p, result) ==
    LET q == [p EXCEPT !.result[p.route[p.pos]] = result] IN
    IF p.pos < Len(p.route) /\ result = "committed" THEN [q EXCEPT !.pos = @ + 1]
    ELSE Returned(q)
OneTooFar(p, result) ==
    LET q == [p EXCEPT !.result[p.route[p.pos]] = result] IN
    IF p.pos <= Len(p.route) THEN [q EXCEPT !.pos = @ + 1] ELSE Returned(q)

AfterCommit(p, result) ==
    LET q == [p EXCEPT !.result[p.route[p.pos]] = result] IN
    IF p.pos < Len(p.route) THEN [q EXCEPT !.pos = @ + 1] ELSE Returned(q)

(* The node answers: its handler has run try_append, as a whole (above).   *)
RequestCommit(c) ==
    LET n == Target(c)
        b == prop[c].block IN
    /\ prop[c].pc = "committing"
    /\ up[n]
    /\ chain' = [chain EXCEPT ![n] = IF CanAppend(b, @) THEN Append(@, b) ELSE @]
    /\ prop' = [prop EXCEPT ![c] =
                   AfterCommit(@, IF CanAppend(b, chain[n]) THEN "committed" ELSE "rejected")]
    /\ UNCHANGED <<up, late, used, crashes, unanswered>>

(* No answer: noted, and on to the next node.  The request never reaches   *)
(* the node, or a node that runs may still serve it, now that the client   *)
(* has given up on it.                                                     *)
CommitRequestFails(c) ==
    LET n == Target(c) IN
    /\ prop[c].pc = "committing"
    /\ NoAnswer(n)
    /\ \/ late' = late
       \/ up[n] /\ late' = late \union {[node |-> n, block |-> prop[c].block]}
    /\ prop' = [prop EXCEPT ![c] = AfterCommit(@, "request_failed")]
    /\ UNCHANGED <<chain, up, used, crashes>>

-----------------------------------------------------------------------------
(* The nodes.                                                              *)

(* A commit request that its client no longer waits for is served, between *)
(* two other requests.                                                     *)
ServeLate(m) ==
    /\ m \in late
    /\ late' = late \ {m}
    /\ chain' = [chain EXCEPT ![m.node] = IF CanAppend(m.block, @)
                                          THEN Append(@, m.block) ELSE @]
    /\ UNCHANGED <<up, prop, used, crashes, unanswered>>

(* Killed between two requests: the requests it had not served are gone.   *)
Crash(n) ==
    /\ up[n]
    /\ crashes < MaxCrashes
    /\ crashes' = crashes + 1
    /\ up' = [up EXCEPT ![n] = FALSE]
    /\ late' = {m \in late : m.node # n}
    /\ UNCHANGED <<chain, prop, used, unanswered>>

(* A bug: the file is not loaded.                                          *)
RestartEmpty(n) ==
    /\ ~up[n]
    /\ up' = [up EXCEPT ![n] = TRUE]
    /\ chain' = [chain EXCEPT ![n] = <<Genesis>>]
    /\ UNCHANGED <<prop, late, used, crashes, unanswered>>

(* Started again: the chain is what the disk holds, or genesis.            *)
Restart(n) ==
    /\ ~up[n]
    /\ up' = [up EXCEPT ![n] = TRUE]
    /\ chain' = [chain EXCEPT ![n] = IF Persist THEN @ ELSE <<Genesis>>]
    /\ UNCHANGED <<prop, late, used, crashes, unanswered>>

-----------------------------------------------------------------------------
Propose(c) == \E route \in Routes : \/ \E d \in Payloads : GetTip(c, route, d)
                                     \/ GetTipFails(c, route)

Proceed(c) == \/ RequestSignature(c) \/ SignatureRequestFails(c)
              \/ RequestCommit(c) \/ CommitRequestFails(c)

Next == \/ \E c \in Clients : Propose(c) \/ Proceed(c)
        \/ \E m \in late : ServeLate(m)
        \/ \E n \in Nodes : Crash(n) \/ Restart(n)

Spec == Init /\ [][Next]_vars

-----------------------------------------------------------------------------
(* Properties.                                                             *)

LateRequests == [node : Nodes, block : Blocks]

(* Every variable has its type.  The types bind the client's place in its  *)
(* list to the list: a running proposal is asking one of its nodes.        *)
TypeOK ==
    /\ chain \in [Nodes -> Chains]
    /\ up \in [Nodes -> BOOLEAN]
    /\ prop \in [Clients -> Proposals]
    /\ \A c \in Clients : prop[c].pc \in Running =>
           prop[c].route \in Routes /\ prop[c].pos \in 1..Len(prop[c].route)
    /\ late \subseteq LateRequests
    /\ used \subseteq Payloads
    /\ crashes \in 0..MaxCrashes
    /\ unanswered \in 0..MaxUnanswered

(* Node n has, at the height below b, the block b is built on.             *)
HoldsParent(n, b) == /\ b.index \in 1..Len(chain[n])
                     /\ chain[n][b.index].hash = b.prev

(* /verify_integrity (Chain.verify_full_chain) never raises the alarm on a *)
(* chain that only try_append has written, whatever the clients propose,   *)
(* which nodes are killed and which requests come late, on nodes that      *)
(* serve one /commit at a time.  Where two of them overlap on a node it is *)
(* false: ChainNode says what holds there, and the run node_race shows it. *)
IntegrityHolds == \A n \in Nodes : VerifyFullChain(chain[n])

(* The index a block carries is its height, which verify_full_chain does   *)
(* not check: clients derive the next index from it.                       *)
IndexIsHeight == \A n \in Nodes : \A i \in 1..Len(chain[n]) : chain[n][i].index = i - 1

(* A vote of /validate stays true: the nodes that signed a block, however  *)
(* late it arrives, still hold its parent.  A node never retracts what it  *)
(* voted on, although it locks nothing and may sign two rivals.            *)
Circulating == {prop[c].block : c \in {x \in Clients : prop[x].pc \in Running}}
                  \union {m.block : m \in late}
VotesStand == \A b \in Circulating, n \in Nodes : n \in ValidSigners(b) => HoldsParent(n, b)

(* What a majority signed on is what a majority has: below any block of    *)
(* any chain lies a block that a majority of the nodes hold.               *)
ParentOnMajority ==
    \A n \in Nodes : \A i \in 2..Len(chain[n]) :
        Cardinality({m \in Nodes : HoldsParent(m, chain[n][i])}) >= RequiredSignatures

(* Two nodes can disagree on the tip of the shorter chain and nowhere else:*)
(* concurrent proposers, lost commits and restarts never make a fork that  *)
(* is two blocks deep.                                                     *)
ForkOnlyAtTip ==
    \A n, m \in Nodes : \A i \in 1..Len(chain[n]) - 1 :
        i < Len(chain[m])
            => chain[n][i].hash = chain[m][i].hash

(* A node that answered "committed" keeps the block, restarts included.    *)
CommittedIsKept ==
    \A c \in Clients, n \in Nodes : LET b == prop[c].block IN
        prop[c].result[n] = "committed" => /\ b.index + 1 \in 1..Len(chain[n])
                                           /\ chain[n][b.index + 1].hash = b.hash

(* commit_to_all reported "committed" by a majority: no node ever builds   *)
(* on another block at that height.                                        *)
MajorityCommitIsFinal ==
    \A c \in Clients : LET b == prop[c].block IN
        Cardinality({n \in Nodes : prop[c].result[n] = "committed"}) >= RequiredSignatures
            => \A m \in Nodes : Len(chain[m]) > b.index + 1
                                    => chain[m][b.index + 1].hash = b.hash

(* A majority has a common tip, so the next block can still be signed: a   *)
(* node signs on its own tip only, and no node copies another's chain.     *)
CommonTip == \E n \in Nodes :
    Cardinality({m \in Nodes : Tip(chain[m]).hash = Tip(chain[n]).hash}) >= RequiredSignatures

NobodyProposes == \A c \in Clients : prop[c].pc \in Finished

(* One client at most has proposed anything yet.                           *)
Alone == \E c \in Clients : \A d \in Clients \ {c} : prop[d].pc = "idle"

(* The nodes a majority can do without.                                    *)
SpareNodes == Cardinality(Nodes) - RequiredSignatures

(* One client at a time, and no more kills and unanswered requests than    *)
(* there are nodes to spare: between two of its proposals a majority has a *)
(* common tip, whether the lost commits are still to be served or never.   *)
(* Two lost commits of one client, to two nodes, are enough to break it.   *)
NeverStuck ==
    NobodyProposes /\ Alone /\ crashes + unanswered <= SpareNodes => CommonTip

(* The same for any number of clients, and without failures: what the docs *)
(* say of the network, and the run network_stuck refutes.                  *)
AlwaysExtendable == NobodyProposes /\ crashes + unanswered = 0 => CommonTip

(* The settled record: the digests below the tip of the longest chain.  By *)
(* ForkOnlyAtTip it does not matter whose chain that is.                   *)
Longest == CHOOSE n \in Nodes : \A m \in Nodes : Len(chain[n]) >= Len(chain[m])
Settled == [i \in 1..Len(chain[Longest]) - 1 |-> chain[Longest][i].hash]

(* The nodes together implement the append-only record: forks at the tip,  *)
(* nodes that lag and nodes that restart never show in it.                 *)
Audit == INSTANCE AuditLog WITH log <- Settled
ImplementsAuditLog == Audit!Spec
=============================================================================
