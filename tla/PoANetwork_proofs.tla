-------------------------- MODULE PoANetwork_proofs --------------------------
(***************************************************************************)
(* Theorems about PoANetwork, for any finite set of nodes, any number of   *)
(* signatures that is a majority of them, and any clients, routes,         *)
(* payloads and bounds on the failures.                                    *)
(***************************************************************************)
EXTENDS PoANetwork, FiniteSetTheorems, TLAPS

-----------------------------------------------------------------------------
(* Types.                                                                  *)

LEMMA GenesisType == Genesis \in Blocks /\ <<Genesis>> \in Chains
BY PayloadAssumption DEF Genesis, NewBlock, ComputeHash, Blocks, Digests, Signatures, Chains

LEMMA TipType ==
    ASSUME NEW c \in Chains
    PROVE  Len(c) \in Nat \ {0} /\ Tip(c) \in Blocks
BY DEF Chains, Tip

LEMMA NewBlockType ==
    ASSUME NEW i \in Nat, NEW d \in Payloads, NEW h \in Digests
    PROVE  NewBlock(i, d, h) \in Blocks
BY DEF NewBlock, ComputeHash, Blocks, Digests, Signatures

LEMMA SignType ==
    ASSUME NEW b \in Blocks, NEW n \in Nodes
    PROVE  /\ AddSignature(b, Sign(n, b)) \in Blocks
           /\ AddSignature(b, Sign(n, b)).index = b.index
           /\ AddSignature(b, Sign(n, b)).prev = b.prev
           /\ AddSignature(b, Sign(n, b)).hash = b.hash
BY DEF AddSignature, Sign, Blocks, Signatures

(* Appending keeps a chain a chain, and every position below the new one.  *)
LEMMA AppendChain ==
    ASSUME NEW c \in Chains, NEW b \in Blocks
    PROVE  /\ Append(c, b) \in Chains
           /\ Len(Append(c, b)) = Len(c) + 1
           /\ \A i \in 1..Len(c) : Append(c, b)[i] = c[i]
           /\ Append(c, b)[Len(c) + 1] = b
BY DEF Chains

LEMMA RaisedType ==
    ASSUME NEW outcome \in Finished
    PROVE  Raised(outcome) \in Proposals /\ Raised(outcome).pc = outcome
BY GenesisType DEF Raised, Proposals, NoResults, CommitResults, Finished

(* Where a running proposal stands: its next request goes to a known node. *)
LEMMA TargetType ==
    ASSUME TypeOK, NEW c \in Clients, prop[c].pc \in Running
    PROVE  /\ prop[c].route \in Seq(Nodes)
           /\ prop[c].pos \in 1..Len(prop[c].route)
           /\ Target(c) \in Nodes
           /\ prop[c].block \in Blocks
BY RoutesAssumption DEF TypeOK, Proposals, Target, Running

LEMMA AfterSignatureType ==
    ASSUME TypeOK, NEW c \in Clients, prop[c].pc = "validating", NEW b \in Blocks
    PROVE  LET p == AfterSignature(prop[c], b) IN
           /\ p \in Proposals
           /\ p.pc \in Running => p.route \in Routes /\ p.pos \in 1..Len(p.route)
           /\ p.pc \in Running => p.block = b
           /\ p.pc \in Finished => p.result = NoResults
           /\ p.pc \in Running => p.result = prop[c].result
<1>1. /\ prop[c] \in Proposals /\ prop[c].route \in Routes
      /\ prop[c].route \in Seq(Nodes) /\ prop[c].pos \in 1..Len(prop[c].route)
  BY TargetType DEF TypeOK, Running
<1>2. Raised("failed") \in Proposals /\ Raised("failed").pc = "failed" /\ Raised("failed").result = NoResults
  BY RaisedType DEF Finished, Raised
<1>3. /\ 1 \in 1..Len(prop[c].route)
      /\ prop[c].pos < Len(prop[c].route) => prop[c].pos + 1 \in 1..Len(prop[c].route)
  BY <1>1
<1>4. CASE prop[c].pos < Len(prop[c].route)
  <2>1. AfterSignature(prop[c], b) = [pc |-> "validating", route |-> prop[c].route,
                pos |-> prop[c].pos + 1, block |-> b, result |-> prop[c].result]
    BY <1>1, <1>4 DEF AfterSignature, Proposals
  <2>2. prop[c].pos + 1 \in Nat /\ prop[c].result \in [Nodes -> CommitResults]
    BY <1>1 DEF Proposals
  <2> QED
    BY <1>1, <1>3, <1>4, <2>1, <2>2 DEF Proposals, Running, Finished
<1>5. CASE ~(prop[c].pos < Len(prop[c].route)) /\ HasMajority(b)
  BY <1>1, <1>3, <1>5 DEF AfterSignature, Proposals, Running, Finished
<1>6. CASE ~(prop[c].pos < Len(prop[c].route)) /\ ~HasMajority(b)
  BY <1>1, <1>2, <1>6 DEF AfterSignature, Running, Finished
<1> QED
  BY <1>4, <1>5, <1>6

LEMMA AfterCommitType ==
    ASSUME TypeOK, NEW c \in Clients, prop[c].pc = "committing",
           NEW r \in CommitResults
    PROVE  LET p == AfterCommit(prop[c], r) IN
           /\ p \in Proposals
           /\ p.pc \in Running => p.route \in Routes /\ p.pos \in 1..Len(p.route)
           /\ p.block = prop[c].block
           /\ p.result = [prop[c].result EXCEPT ![Target(c)] = r]
<1>1. /\ prop[c] \in Proposals /\ prop[c].route \in Routes
      /\ prop[c].route \in Seq(Nodes) /\ prop[c].pos \in 1..Len(prop[c].route)
  BY TargetType DEF TypeOK, Running
<1> DEFINE res == [prop[c].result EXCEPT ![Target(c)] = r]
<1>2. res \in [Nodes -> CommitResults]
  BY <1>1 DEF Proposals
<1>3. CASE prop[c].pos < Len(prop[c].route)
  <2>1. AfterCommit(prop[c], r) = [pc |-> "committing", route |-> prop[c].route,
                pos |-> prop[c].pos + 1, block |-> prop[c].block, result |-> res]
    BY <1>1, <1>3 DEF AfterCommit, Proposals, Target
  <2>2. prop[c].pos + 1 \in 1..Len(prop[c].route) /\ prop[c].pos + 1 \in Nat
    BY <1>1, <1>3
  <2> QED
    BY <1>1, <1>2, <2>1, <2>2 DEF Proposals, Running, Finished
<1>4. CASE ~(prop[c].pos < Len(prop[c].route))
  <2>1. AfterCommit(prop[c], r) = [pc |-> "returned", route |-> <<>>,
                pos |-> 1, block |-> prop[c].block, result |-> res]
    BY <1>1, <1>4 DEF AfterCommit, Returned, Proposals, Target
  <2> QED
    BY <1>1, <1>2, <2>1 DEF Proposals, Running, Finished
<1> QED
  BY <1>3, <1>4

(* Every step keeps the types.                                             *)
LEMMA TypeStep == TypeOK /\ [Next]_vars => TypeOK'
<1> SUFFICES ASSUME TypeOK, [Next]_vars PROVE TypeOK'
  OBVIOUS
<1>1. ASSUME NEW c \in Clients, NEW route \in Routes, NEW d \in Payloads,
             GetTip(c, route, d)
      PROVE  TypeOK'
  <2>1. route \in Seq(Nodes) /\ 1 \in 1..Len(route) /\ route[1] \in Nodes
    BY RoutesAssumption
  <2> DEFINE tip == Tip(chain[route[1]])
  <2>2. chain[route[1]] \in Chains
    BY <2>1 DEF TypeOK
  <2>3. tip \in Blocks
    BY <2>2, TipType
  <2>4. tip.index + 1 \in Nat /\ tip.hash \in Digests
    BY <2>3 DEF Blocks
  <2>5. NewBlock(tip.index + 1, d, tip.hash) \in Blocks
    BY <2>4, NewBlockType
  <2> DEFINE p == [pc |-> "validating", route |-> route, pos |-> 1,
                   block |-> NewBlock(tip.index + 1, d, tip.hash), result |-> NoResults]
  <2>6. p \in Proposals
    BY <2>1, <2>5 DEF Proposals, Running, NoResults, CommitResults
  <2>7. prop' = [prop EXCEPT ![c] = p]
    BY <1>1 DEF GetTip
  <2> HIDE DEF tip
  <2> QED
    BY <1>1, <2>1, <2>6, <2>7 DEF TypeOK, GetTip
<1>2. ASSUME NEW c \in Clients, NEW route \in Routes, GetTipFails(c, route)
      PROVE  TypeOK'
  <2>1. Raised("aborted") \in Proposals /\ Raised("aborted").pc = "aborted"
    BY RaisedType DEF Finished
  <2> QED
    BY <1>2, <2>1, BoundsAssumption DEF TypeOK, GetTipFails, NoAnswer, Running
<1>3. ASSUME NEW c \in Clients, RequestSignature(c)
      PROVE  TypeOK'
  <2> DEFINE b == IF CanSign(prop[c].block, chain[Target(c)])
                  THEN AddSignature(prop[c].block, Sign(Target(c), prop[c].block))
                  ELSE prop[c].block
  <2>1. prop[c].pc = "validating" /\ prop' = [prop EXCEPT ![c] = AfterSignature(prop[c], b)]
    BY <1>3 DEF RequestSignature, TypeOK
  <2>2. b \in Blocks
    BY <2>1, TargetType, SignType DEF Running
  <2> HIDE DEF b
  <2>3. /\ AfterSignature(prop[c], b) \in Proposals
        /\ AfterSignature(prop[c], b).pc \in Running =>
              /\ AfterSignature(prop[c], b).route \in Routes
              /\ AfterSignature(prop[c], b).pos \in 1..Len(AfterSignature(prop[c], b).route)
    BY <2>1, <2>2, AfterSignatureType
  <2> QED
    BY <1>3, <2>1, <2>3 DEF TypeOK, RequestSignature
<1>4. ASSUME NEW c \in Clients, SignatureRequestFails(c)
      PROVE  TypeOK'
  <2>1. Raised("aborted") \in Proposals /\ Raised("aborted").pc = "aborted"
    BY RaisedType DEF Finished
  <2> QED
    BY <1>4, <2>1, BoundsAssumption DEF TypeOK, SignatureRequestFails, NoAnswer, Running
<1>5. ASSUME NEW c \in Clients, RequestCommit(c)
      PROVE  TypeOK'
  <2>1. prop[c].pc = "committing"
    BY <1>5 DEF RequestCommit
  <2>2. Target(c) \in Nodes /\ prop[c].block \in Blocks
    BY <2>1, TargetType DEF Running
  <2> DEFINE r == IF CanAppend(prop[c].block, chain[Target(c)]) THEN "committed" ELSE "rejected"
  <2>3. r \in CommitResults /\ prop' = [prop EXCEPT ![c] = AfterCommit(prop[c], r)]
    BY <1>5 DEF RequestCommit, TypeOK, CommitResults
  <2> HIDE DEF r
  <2>4. prop' \in [Clients -> Proposals] /\ \A x \in Clients : prop'[x].pc \in Running =>
             prop'[x].route \in Routes /\ prop'[x].pos \in 1..Len(prop'[x].route)
    BY <2>1, <2>3, AfterCommitType DEF TypeOK
  <2>5. Append(chain[Target(c)], prop[c].block) \in Chains
    BY <2>2, AppendChain DEF TypeOK
  <2>6. chain' \in [Nodes -> Chains]
    BY <1>5, <2>2, <2>5 DEF TypeOK, RequestCommit
  <2> QED
    BY <1>5, <2>4, <2>6 DEF TypeOK, RequestCommit
<1>6. ASSUME NEW c \in Clients, CommitRequestFails(c)
      PROVE  TypeOK'
  <2>1. prop[c].pc = "committing"
    BY <1>6 DEF CommitRequestFails
  <2>2. Target(c) \in Nodes /\ prop[c].block \in Blocks
    BY <2>1, TargetType DEF Running
  <2>3. "request_failed" \in CommitResults /\ prop' = [prop EXCEPT ![c] = AfterCommit(prop[c], "request_failed")]
    BY <1>6 DEF CommitRequestFails, TypeOK, CommitResults
  <2>4. prop' \in [Clients -> Proposals] /\ \A x \in Clients : prop'[x].pc \in Running =>
             prop'[x].route \in Routes /\ prop'[x].pos \in 1..Len(prop'[x].route)
    BY <2>1, <2>3, AfterCommitType DEF TypeOK
  <2>5. late' \subseteq LateRequests
    BY <1>6, <2>2 DEF TypeOK, CommitRequestFails, LateRequests
  <2>6. unanswered' \in 0..MaxUnanswered
    BY <1>6, BoundsAssumption DEF TypeOK, CommitRequestFails, NoAnswer
  <2> QED
    BY <1>6, <2>4, <2>5, <2>6 DEF TypeOK, CommitRequestFails
<1>7. ASSUME NEW m \in late, ServeLate(m)
      PROVE  TypeOK'
  <2>1. m.node \in Nodes /\ m.block \in Blocks
    BY DEF TypeOK, LateRequests
  <2>2. Append(chain[m.node], m.block) \in Chains
    BY <2>1, AppendChain DEF TypeOK
  <2> QED
    BY <1>7, <2>1, <2>2 DEF TypeOK, ServeLate
<1>8. ASSUME NEW n \in Nodes, Crash(n)
      PROVE  TypeOK'
  BY <1>8, BoundsAssumption DEF TypeOK, Crash
<1>9. ASSUME NEW n \in Nodes, Restart(n)
      PROVE  TypeOK'
  BY <1>9, GenesisType DEF TypeOK, Restart
<1>10. CASE UNCHANGED vars
  BY <1>10 DEF TypeOK, vars
<1> QED
  BY <1>1, <1>2, <1>3, <1>4, <1>5, <1>6, <1>7, <1>8, <1>9, <1>10 DEF Next, Propose, Proceed

LEMMA TypeInit == Init => TypeOK
<1>1. Raised("idle") \in Proposals /\ Raised("idle").pc = "idle"
  BY RaisedType DEF Finished
<1> QED
  BY <1>1, GenesisType, BoundsAssumption DEF Init, TypeOK, Running

(* The variables keep their types, and a client that runs is asking one of *)
(* the nodes of its list.                                                  *)
THEOREM TypeCorrect == Spec => []TypeOK
BY TypeInit, TypeStep, PTL DEF Spec

-----------------------------------------------------------------------------
(* What a step does to the chains and to the blocks that circulate.        *)

(* A node serves a block that circulates.                                  *)
Served == \E n \in Nodes, b \in Circulating :
              /\ CanAppend(b, chain[n])
              /\ chain' = [chain EXCEPT ![n] = Append(chain[n], b)]

(* A node without a disk starts from genesis.                              *)
Emptied == /\ ~Persist
           /\ \E n \in Nodes : chain' = [chain EXCEPT ![n] = <<Genesis>>]

LEMMA CirculatingType == TypeOK => Circulating \subseteq Blocks
BY DEF TypeOK, Circulating, Proposals, LateRequests

LEMMA ChainStep == TypeOK /\ [Next]_vars => chain' = chain \/ Served \/ Emptied
<1> SUFFICES ASSUME TypeOK, [Next]_vars PROVE chain' = chain \/ Served \/ Emptied
  OBVIOUS
<1>1. ASSUME NEW c \in Clients, RequestCommit(c)
      PROVE  chain' = chain \/ Served
  <2>1. prop[c].pc = "committing" /\ prop[c].block \in Circulating
    BY <1>1 DEF RequestCommit, Circulating, Running
  <2>2. Target(c) \in Nodes
    BY <2>1, TargetType DEF Running
  <2>3. chain \in [Nodes -> Chains]
    BY DEF TypeOK
  <2> QED
    BY <1>1, <2>1, <2>2, <2>3 DEF RequestCommit, Served
<1>2. ASSUME NEW m \in late, ServeLate(m)
      PROVE  chain' = chain \/ Served
  <2>1. m.node \in Nodes /\ m.block \in Circulating
    BY DEF TypeOK, LateRequests, Circulating
  <2>2. chain \in [Nodes -> Chains]
    BY DEF TypeOK
  <2> QED
    BY <1>2, <2>1, <2>2 DEF ServeLate, Served
<1>3. ASSUME NEW n \in Nodes, Restart(n)
      PROVE  chain' = chain \/ Emptied
  BY <1>3 DEF Restart, TypeOK, Emptied
<1>4. ASSUME NEW c \in Clients, Propose(c) \/ RequestSignature(c)
                                \/ SignatureRequestFails(c) \/ CommitRequestFails(c)
      PROVE  chain' = chain
  BY <1>4 DEF Propose, GetTip, GetTipFails, RequestSignature, SignatureRequestFails,
              CommitRequestFails
<1> QED
  BY <1>1, <1>2, <1>3, <1>4 DEF Next, Proceed, Crash, vars

(* A block that circulates after a step circulated before, or is new and   *)
(* unsigned, or has got the signature of a node whose tip it extends.      *)
LEMMA CirculatingStep ==
    ASSUME TypeOK, [Next]_vars, NEW b \in Circulating'
    PROVE  \/ b \in Circulating
           \/ ValidSigners(b) = {}
           \/ \E old \in Circulating, n \in Nodes :
                  b = AddSignature(old, Sign(n, old)) /\ CanSign(old, chain[n])
<1> DEFINE Goal == \/ b \in Circulating
                   \/ ValidSigners(b) = {}
                   \/ \E old \in Circulating, n \in Nodes :
                         b = AddSignature(old, Sign(n, old)) /\ CanSign(old, chain[n])
<1>0. PICK x : \/ x \in Clients /\ prop'[x].pc \in Running /\ b = prop'[x].block
               \/ x \in late' /\ b = x.block
  BY DEF Circulating
<1>1. ASSUME NEW c \in Clients, NEW route \in Routes, NEW d \in Payloads,
             GetTip(c, route, d)
      PROVE  Goal
  <2>1. ValidSigners(NewBlock(Tip(chain[route[1]]).index + 1, d, Tip(chain[route[1]]).hash)) = {}
    BY DEF ValidSigners, NewBlock
  <2>2. CASE b = prop'[c].block
    BY <1>1, <2>1, <2>2 DEF GetTip, TypeOK
  <2>3. CASE b # prop'[c].block
    BY <1>0, <1>1, <2>3 DEF GetTip, TypeOK, Circulating
  <2> QED
    BY <2>2, <2>3
<1>2. ASSUME NEW c \in Clients, RequestSignature(c)
      PROVE  Goal
  <2>1. prop[c].pc = "validating" /\ prop[c].block \in Circulating
    BY <1>2 DEF RequestSignature, Circulating, Running
  <2>2. Target(c) \in Nodes /\ prop[c].block \in Blocks
    BY <2>1, TargetType DEF Running
  <2> DEFINE s == IF CanSign(prop[c].block, chain[Target(c)])
                  THEN AddSignature(prop[c].block, Sign(Target(c), prop[c].block))
                  ELSE prop[c].block
  <2>3. prop' = [prop EXCEPT ![c] = AfterSignature(prop[c], s)] /\ late' = late
    BY <1>2 DEF RequestSignature, TypeOK
  <2>4. s \in Blocks
    BY <2>2, SignType
  <2>5. b = s \/ b \in Circulating
    <3> HIDE DEF s
    <3>1. AfterSignature(prop[c], s).pc \in Running => AfterSignature(prop[c], s).block = s
      BY <2>1, <2>4, AfterSignatureType
    <3> QED
      BY <1>0, <2>3, <3>1 DEF TypeOK, Circulating
  <2> QED
    BY <2>1, <2>2, <2>5
<1>3. ASSUME NEW c \in Clients, RequestCommit(c) \/ CommitRequestFails(c)
      PROVE  Goal
  <2>1. prop[c].pc = "committing" /\ prop[c].block \in Circulating
    BY <1>3 DEF RequestCommit, CommitRequestFails, Circulating, Running
  <2>2. PICK r \in CommitResults : prop' = [prop EXCEPT ![c] = AfterCommit(prop[c], r)]
    BY <1>3 DEF RequestCommit, CommitRequestFails, TypeOK, CommitResults
  <2>3. prop'[c].block = prop[c].block
    BY <2>1, <2>2, AfterCommitType DEF TypeOK
  <2>4. \A m \in late' : m \in late \/ m.block = prop[c].block
    BY <1>3 DEF RequestCommit, CommitRequestFails
  <2> QED
    BY <1>0, <2>1, <2>2, <2>3, <2>4 DEF TypeOK, Circulating
<1>4. ASSUME NEW c \in Clients, \/ \E route \in Routes : GetTipFails(c, route)
                                \/ SignatureRequestFails(c)
      PROVE  Goal
  <2>1. prop' = [prop EXCEPT ![c] = Raised("aborted")] /\ late' = late
    BY <1>4 DEF GetTipFails, SignatureRequestFails
  <2>2. Raised("aborted").pc \notin Running
    BY DEF Raised, Running
  <2> QED
    BY <1>0, <2>1, <2>2 DEF TypeOK, Circulating
<1>5. ASSUME prop' = prop, late' \subseteq late
      PROVE  Goal
  BY <1>0, <1>5 DEF Circulating
<1> QED
  BY <1>1, <1>2, <1>3, <1>4, <1>5
     DEF Next, Propose, Proceed, ServeLate, Crash, Restart, vars

-----------------------------------------------------------------------------
(* Integrity.  VerifyFullChain alone is not inductive: try_append compares *)
(* the block with the tip only, so the invariant must also say that the    *)
(* index of a block is its height.                                         *)

IntegrityInv == TypeOK /\ IndexIsHeight /\ IntegrityHolds

(* What CanAppend says of a chain whose indices are its heights.           *)
LEMMA CanAppendFacts ==
    ASSUME TypeOK, IndexIsHeight, NEW n \in Nodes, NEW b \in Blocks,
           CanAppend(b, chain[n])
    PROVE  /\ b.index = Len(chain[n])
           /\ b.prev = chain[n][Len(chain[n])].hash
           /\ HashIsValid(b) /\ HasMajority(b)
<1>1. chain[n] \in Chains /\ Len(chain[n]) \in 1..Len(chain[n])
  BY TipType DEF TypeOK
<1>2. chain[n][Len(chain[n])].index = Len(chain[n]) - 1
  BY <1>1 DEF IndexIsHeight
<1> QED
  BY <1>1, <1>2 DEF CanAppend, CheckBlockAcceptable, Tip

LEMMA IntegrityInit == Init => IntegrityInv
<1>1. Genesis.index = 0
  BY DEF Genesis, NewBlock
<1> QED
  BY <1>1, TypeInit DEF Init, IntegrityInv, IndexIsHeight, IntegrityHolds, VerifyFullChain

LEMMA IntegrityStep == IntegrityInv /\ [Next]_vars => IntegrityInv'
<1> SUFFICES ASSUME IntegrityInv, [Next]_vars PROVE IntegrityInv'
  OBVIOUS
<1>1. TypeOK /\ TypeOK' /\ chain \in [Nodes -> Chains]
  BY TypeStep DEF IntegrityInv, TypeOK
<1>2. CASE chain' = chain
  BY <1>1, <1>2 DEF IntegrityInv, IndexIsHeight, IntegrityHolds
<1>3. CASE Served
  <2>1. PICK n \in Nodes, b \in Circulating :
               /\ CanAppend(b, chain[n])
               /\ chain' = [chain EXCEPT ![n] = Append(chain[n], b)]
    BY <1>3 DEF Served
  <2>2. b \in Blocks
    BY <1>1, CirculatingType
  <2>3. /\ b.index = Len(chain[n])
        /\ b.prev = chain[n][Len(chain[n])].hash
        /\ HashIsValid(b) /\ HasMajority(b)
    BY <1>1, <2>1, <2>2, CanAppendFacts DEF IntegrityInv
  <2> DEFINE c == Append(chain[n], b)
  <2>4. /\ Len(chain[n]) \in Nat \ {0}
        /\ Len(c) = Len(chain[n]) + 1
        /\ \A i \in 1..Len(chain[n]) : c[i] = chain[n][i]
        /\ c[Len(chain[n]) + 1] = b
    BY <1>1, <2>2, AppendChain, TipType
  <2> HIDE DEF c
  <2>5. \A i \in 1..Len(c) : c[i].index = i - 1
    BY <2>3, <2>4 DEF IntegrityInv, IndexIsHeight
  <2>6. VerifyFullChain(c)
    <3>1. SUFFICES ASSUME NEW i \in 2..Len(c)
                   PROVE  HashIsValid(c[i]) /\ c[i].prev = c[i - 1].hash /\ HasMajority(c[i])
      BY DEF VerifyFullChain
    <3>2. CASE i \in 2..Len(chain[n])
      <4>1. i \in 1..Len(chain[n]) /\ i - 1 \in 1..Len(chain[n])
        BY <2>4, <3>2
      <4> QED
        BY <2>4, <3>2, <4>1 DEF IntegrityInv, IntegrityHolds, VerifyFullChain
    <3>3. CASE i = Len(chain[n]) + 1
      <4>1. i - 1 = Len(chain[n]) /\ i - 1 \in 1..Len(chain[n])
        BY <2>4, <3>3
      <4> QED
        BY <2>3, <2>4, <3>3, <4>1
    <3> QED
      BY <2>4, <3>2, <3>3
  <2>7. chain'[n] = c /\ \A m \in Nodes \ {n} : chain'[m] = chain[m]
    BY <1>1, <2>1 DEF c
  <2>8. IndexIsHeight'
    BY <2>5, <2>7 DEF IntegrityInv, IndexIsHeight
  <2>9. IntegrityHolds'
    BY <2>6, <2>7 DEF IntegrityInv, IntegrityHolds
  <2> QED
    BY <1>1, <2>8, <2>9 DEF IntegrityInv
<1>4. CASE Emptied
  <2>1. PICK n \in Nodes : chain' = [chain EXCEPT ![n] = <<Genesis>>]
    BY <1>4 DEF Emptied
  <2>2. chain'[n] = <<Genesis>> /\ \A m \in Nodes \ {n} : chain'[m] = chain[m]
    BY <1>1, <2>1
  <2>3. Genesis.index = 0
    BY DEF Genesis, NewBlock
  <2>4. IndexIsHeight'
    BY <2>2, <2>3 DEF IntegrityInv, IndexIsHeight
  <2>5. IntegrityHolds'
    BY <2>2 DEF IntegrityInv, IntegrityHolds, VerifyFullChain
  <2> QED
    BY <1>1, <2>4, <2>5 DEF IntegrityInv
<1> QED
  BY <1>1, <1>2, <1>3, <1>4, ChainStep

(* The index of a block is its height in every chain that holds it.        *)
THEOREM IndexAlwaysHeight == Spec => []IndexIsHeight
<1>1. IntegrityInv => IndexIsHeight
  BY DEF IntegrityInv
<1> QED
  BY <1>1, IntegrityInit, IntegrityStep, PTL DEF Spec

(* Every node's chain passes verify_full_chain between any two requests,   *)
(* whatever the clients, the failures and the mode of persistence, on      *)
(* nodes that serve one /commit at a time: for the overlaps of Flask's     *)
(* threads see IntegrityCorrect in ChainNode_proofs.                       *)
THEOREM IntegrityAlwaysHolds == Spec => []IntegrityHolds
<1>1. IntegrityInv => IntegrityHolds
  BY DEF IntegrityInv
<1> QED
  BY <1>1, IntegrityInit, IntegrityStep, PTL DEF Spec

-----------------------------------------------------------------------------
(* History.  From here on the nodes have their disks.                      *)

(* Two majorities share a node.                                            *)
LEMMA MajoritiesMeet ==
    ASSUME NEW P \in SUBSET Nodes, NEW Q \in SUBSET Nodes,
           Cardinality(P) >= RequiredSignatures, Cardinality(Q) >= RequiredSignatures
    PROVE  P \cap Q # {}
<1>1. IsFiniteSet(P) /\ IsFiniteSet(Q) /\ P \union Q \subseteq Nodes
  BY NodesAssumption, FS_Subset
<1>2. Cardinality(P \union Q) <= Cardinality(Nodes)
  BY <1>1, NodesAssumption, FS_Subset
<1>3. Cardinality(P \union Q) = Cardinality(P) + Cardinality(Q) - Cardinality(P \cap Q)
  BY <1>1, FS_Union
<1>4. /\ Cardinality(P) \in Nat /\ Cardinality(Q) \in Nat
      /\ Cardinality(P \union Q) \in Nat /\ Cardinality(Nodes) \in Nat
  BY <1>1, NodesAssumption, FS_CardinalityType, FS_Union
<1>5. SUFFICES ASSUME P \cap Q = {} PROVE FALSE
  OBVIOUS
<1>6. Cardinality(P \cap Q) = 0
  BY <1>5, FS_EmptySet
<1> QED
  BY <1>2, <1>3, <1>4, <1>6, MajorityAssumption

(* A set that includes a majority is one.                                  *)
LEMMA MajorityGrows ==
    ASSUME NEW P \in SUBSET Nodes, NEW Q \in SUBSET Nodes, P \subseteq Q,
           Cardinality(P) >= RequiredSignatures
    PROVE  Cardinality(Q) >= RequiredSignatures
<1>1. IsFiniteSet(P) /\ IsFiniteSet(Q)
  BY NodesAssumption, FS_Subset
<1>2. Cardinality(P) <= Cardinality(Q) /\ Cardinality(P) \in Nat /\ Cardinality(Q) \in Nat
  BY <1>1, FS_Subset, FS_CardinalityType
<1> QED
  BY <1>2, MajorityAssumption

(* With a disk, no step takes a block away from a node or replaces one.    *)
LEMMA ChainsGrow ==
    ASSUME Persist, TypeOK, [Next]_vars, NEW n \in Nodes
    PROVE  /\ Len(chain'[n]) \in Nat /\ Len(chain[n]) \in Nat
           /\ Len(chain'[n]) >= Len(chain[n])
           /\ \A i \in 1..Len(chain[n]) : chain'[n][i] = chain[n][i]
<1>1. chain[n] \in Chains /\ chain \in [Nodes -> Chains] /\ Len(chain[n]) \in Nat
  BY TipType DEF TypeOK
<1>2. CASE chain' = chain
  BY <1>1, <1>2
<1>3. CASE Served
  <2>1. PICK m \in Nodes, b \in Circulating : chain' = [chain EXCEPT ![m] = Append(chain[m], b)]
    BY <1>3 DEF Served
  <2>2. b \in Blocks
    BY CirculatingType
  <2>3. chain'[n] = IF n = m THEN Append(chain[n], b) ELSE chain[n]
    BY <1>1, <2>1
  <2> QED
    BY <1>1, <2>2, <2>3, AppendChain
<1> QED
  BY <1>2, <1>3, ChainStep DEF Emptied

LEMMA ParentsKept ==
    ASSUME Persist, TypeOK, [Next]_vars, NEW n \in Nodes, NEW b, b.index \in Nat,
           HoldsParent(n, b)
    PROVE  HoldsParent(n, b)'
<1>1. b.index \in 1..Len(chain'[n]) /\ chain'[n][b.index] = chain[n][b.index]
  BY ChainsGrow DEF HoldsParent
<1> QED
  BY <1>1 DEF HoldsParent

(* The inductive invariant: no property of the history stands alone.  A    *)
(* block is appended because a majority voted for it; the votes stand, so  *)
(* that majority has its parent; and what it has it keeps.                 *)
HistoryInv == IntegrityInv /\ VotesStand /\ ParentOnMajority /\ CommittedIsKept

LEMMA HistoryInit == Init => HistoryInv
<1> SUFFICES ASSUME Init PROVE HistoryInv
  OBVIOUS
<1>1. IntegrityInv
  BY IntegrityInit
<1>2. Circulating = {}
  BY DEF Init, Circulating, Raised, Running
<1>3. \A n \in Nodes : Len(chain[n]) = 1
  BY DEF Init
<1>4. ParentOnMajority
  BY <1>3 DEF ParentOnMajority
<1>5. CommittedIsKept
  BY DEF Init, CommittedIsKept, Raised, NoResults
<1> QED
  BY <1>1, <1>2, <1>4, <1>5 DEF HistoryInv, VotesStand

(* A vote cast in this step is for a block on the voter's tip; the older   *)
(* votes stand because no chain gives a block up.                          *)
LEMMA VotesStep ==
    ASSUME Persist, IntegrityInv, VotesStand, [Next]_vars
    PROVE  VotesStand'
<1>1. TypeOK /\ TypeOK' /\ IndexIsHeight
  BY TypeStep DEF IntegrityInv
<1> SUFFICES ASSUME NEW b \in Circulating', NEW n \in Nodes, n \in ValidSigners(b)
             PROVE  HoldsParent(n, b)'
  BY DEF VotesStand
<1>2. CASE b \in Circulating
  <2>1. HoldsParent(n, b)
    BY <1>2 DEF VotesStand
  <2>2. b.index \in Nat
    BY <1>1, <1>2, CirculatingType DEF Blocks
  <2> QED
    BY <1>1, <2>1, <2>2, ParentsKept
<1>3. ASSUME NEW old \in Circulating, NEW k \in Nodes,
             b = AddSignature(old, Sign(k, old)), CanSign(old, chain[k])
      PROVE  HoldsParent(n, b)'
  <2>1. old \in Blocks /\ old.index \in Nat
    BY <1>1, CirculatingType DEF Blocks
  <2>2. b.index = old.index /\ b.prev = old.prev /\ b.hash = old.hash
    BY <1>3, <2>1, SignType
  <2>3. n = k \/ n \in ValidSigners(old)
    BY <1>3, <2>1, <2>2 DEF ValidSigners, AddSignature, Sign, Blocks
  <2>4. CASE n = k
    <3>1. chain[k] \in Chains /\ Len(chain[k]) \in 1..Len(chain[k])
      BY <1>1, TipType DEF TypeOK
    <3>2. chain[k][Len(chain[k])].index = Len(chain[k]) - 1
      BY <1>1, <3>1 DEF IndexIsHeight
    <3>3. old.index = Len(chain[k]) /\ old.prev = chain[k][Len(chain[k])].hash
      BY <1>3, <3>1, <3>2 DEF CanSign, Tip
    <3> QED
      BY <1>1, <2>1, <2>2, <2>4, <3>1, <3>3, ParentsKept DEF HoldsParent
  <2>5. CASE n \in ValidSigners(old)
    BY <1>1, <2>1, <2>2, <2>5, ParentsKept DEF VotesStand, HoldsParent
  <2> QED
    BY <2>3, <2>4, <2>5
<1> QED
  BY <1>1, <1>2, <1>3, CirculatingStep

(* The parent of an appended block is held by the nodes that signed it.    *)
LEMMA ParentOnMajorityStep ==
    ASSUME Persist, IntegrityInv, VotesStand, ParentOnMajority, [Next]_vars
    PROVE  ParentOnMajority'
<1>1. TypeOK /\ TypeOK' /\ IndexIsHeight /\ chain \in [Nodes -> Chains] /\ chain' \in [Nodes -> Chains]
  BY TypeStep DEF IntegrityInv, TypeOK
<1> SUFFICES ASSUME NEW n \in Nodes, NEW i \in 2..Len(chain'[n])
             PROVE  Cardinality({m \in Nodes : HoldsParent(m, chain[n][i])'}) >= RequiredSignatures
  BY DEF ParentOnMajority
<1>2. /\ Len(chain[n]) \in Nat \ {0} /\ Len(chain'[n]) \in Nat
      /\ Len(chain'[n]) >= Len(chain[n])
      /\ \A j \in 1..Len(chain[n]) : chain'[n][j] = chain[n][j]
  BY <1>1, ChainsGrow, TipType
<1>3. PICK b \in Blocks : b = chain'[n][i]
  BY <1>1, <1>2 DEF Chains
<1>4. b.index \in Nat
  BY DEF Blocks
<1>5. \E P \in SUBSET Nodes : /\ Cardinality(P) >= RequiredSignatures
                              /\ \A m \in P : HoldsParent(m, b)
  <2>1. CASE i <= Len(chain[n])
    <3>1. i \in 2..Len(chain[n]) /\ b = chain[n][i]
      BY <1>2, <1>3, <2>1
    <3> DEFINE P == {m \in Nodes : HoldsParent(m, chain[n][i])}
    <3>2. Cardinality(P) >= RequiredSignatures
      BY <3>1 DEF ParentOnMajority
    <3>3. \A m \in P : HoldsParent(m, b)
      BY <3>1
    <3>4. P \in SUBSET Nodes
      OBVIOUS
    <3> HIDE DEF P
    <3> QED
      BY <3>2, <3>3, <3>4
  <2>2. CASE i > Len(chain[n])
    <3>1. PICK k \in Nodes, x \in Circulating :
                 /\ CanAppend(x, chain[k])
                 /\ chain' = [chain EXCEPT ![k] = Append(chain[k], x)]
      <4>1. chain' # chain /\ ~Emptied
        BY <1>2, <2>2 DEF Emptied
      <4> QED
        BY <1>1, <4>1, ChainStep DEF Served
    <3>2. x \in Blocks
      BY <1>1, CirculatingType
    <3>3. k = n /\ chain'[n] = Append(chain[n], x)
      BY <1>1, <1>2, <2>2, <3>1
    <3>4. i = Len(chain[n]) + 1 /\ b = x
      BY <1>1, <1>2, <1>3, <2>2, <3>2, <3>3, AppendChain
    <3>5. Cardinality(ValidSigners(x)) >= RequiredSignatures
      BY <3>1 DEF CanAppend, CheckBlockAcceptable, HasMajority
    <3>6. \A m \in ValidSigners(x) : HoldsParent(m, x)
      BY DEF VotesStand, ValidSigners
    <3>7. ValidSigners(x) \in SUBSET Nodes
      BY DEF ValidSigners
    <3> QED
      BY <3>4, <3>5, <3>6, <3>7
  <2> QED
    BY <1>2, <2>1, <2>2
<1>6. PICK P \in SUBSET Nodes : /\ Cardinality(P) >= RequiredSignatures
                               /\ \A m \in P : HoldsParent(m, b)
  BY <1>5
<1>7. \A m \in P : HoldsParent(m, b)'
  BY <1>1, <1>4, <1>6, ParentsKept
<1> DEFINE Holders == {m \in Nodes : HoldsParent(m, chain[n][i])'}
<1>8. P \subseteq Holders
  BY <1>3, <1>7 DEF HoldsParent
<1>9. Cardinality(Holders) >= RequiredSignatures
  <2> HIDE DEF Holders
  <2>1. Holders \in SUBSET Nodes
    BY DEF Holders
  <2> QED
    BY <1>6, <1>8, <2>1, MajorityGrows
<1> QED
  BY <1>9

(* "committed" is answered in the step that appends the block, and the     *)
(* record of an earlier answer is dropped when the next proposal begins.   *)
LEMMA CommittedStep ==
    ASSUME Persist, IntegrityInv, CommittedIsKept, [Next]_vars
    PROVE  CommittedIsKept'
<1>1. TypeOK /\ TypeOK' /\ IndexIsHeight
  BY TypeStep DEF IntegrityInv
<1> DEFINE Kept(n, b) == /\ b.index + 1 \in 1..Len(chain[n])
                         /\ chain[n][b.index + 1].hash = b.hash
<1> SUFFICES ASSUME NEW c \in Clients, NEW n \in Nodes, prop'[c].result[n] = "committed"
             PROVE  Kept(n, prop[c].block)'
  BY DEF CommittedIsKept
<1>2. ASSUME NEW b \in Blocks, Kept(n, b)
      PROVE  Kept(n, b)'
  BY <1>1, <1>2, ChainsGrow
<1>3. prop[c] \in Proposals /\ prop[c].block \in Blocks
  BY <1>1 DEF TypeOK, Proposals
<1>4. ASSUME prop[c].result[n] = "committed", prop'[c].block = prop[c].block
      PROVE  Kept(n, prop[c].block)'
  <2>1. Kept(n, prop[c].block)
    BY <1>4 DEF CommittedIsKept
  <2> QED
    BY <1>2, <1>3, <1>4, <2>1
<1>5. ASSUME NEW x \in Clients, NEW route \in Routes, NEW d \in Payloads,
             GetTip(x, route, d)
      PROVE  Kept(n, prop[c].block)'
  <2>1. c # x
    BY <1>1, <1>5 DEF GetTip, TypeOK, NoResults
  <2> QED
    BY <1>1, <1>4, <1>5, <2>1 DEF GetTip, TypeOK
<1>6. ASSUME NEW x \in Clients, \/ \E route \in Routes : GetTipFails(x, route)
                                \/ SignatureRequestFails(x)
      PROVE  Kept(n, prop[c].block)'
  <2>1. prop' = [prop EXCEPT ![x] = Raised("aborted")]
    BY <1>6 DEF GetTipFails, SignatureRequestFails
  <2>2. c # x
    BY <1>1, <2>1 DEF TypeOK, Raised, NoResults
  <2> QED
    BY <1>1, <1>4, <2>1, <2>2 DEF TypeOK
<1>7. ASSUME NEW x \in Clients, RequestSignature(x)
      PROVE  Kept(n, prop[c].block)'
  <2> DEFINE s == IF CanSign(prop[x].block, chain[Target(x)])
                  THEN AddSignature(prop[x].block, Sign(Target(x), prop[x].block))
                  ELSE prop[x].block
             p == AfterSignature(prop[x], s)
  <2>1. prop[x].pc = "validating" /\ prop' = [prop EXCEPT ![x] = p]
    BY <1>7 DEF RequestSignature, TypeOK
  <2>2. CASE c # x
    BY <1>1, <1>4, <2>1, <2>2 DEF TypeOK
  <2>3. CASE c = x
    <3>1. Target(x) \in Nodes
      BY <1>1, <2>1, TargetType DEF Running
    <3>2. s \in Blocks /\ s.index = prop[c].block.index /\ s.hash = prop[c].block.hash
      BY <1>3, <2>3, <3>1, SignType
    <3> HIDE DEF s
    <3>3. /\ p.pc \in Finished \union Running
          /\ p.pc \in Finished => p.result = NoResults
          /\ p.pc \in Running => p.result = prop[x].result /\ p.block = s
      BY <1>1, <2>1, <3>2, AfterSignatureType DEF Proposals
    <3>4. prop'[c] = p
      BY <1>1, <2>1, <2>3 DEF TypeOK
    <3>5. prop[c].result[n] = "committed" /\ prop'[c].block = s
      BY <2>3, <3>3, <3>4 DEF NoResults
    <3>6. Kept(n, s)
      BY <3>2, <3>5 DEF CommittedIsKept
    <3> QED
      BY <1>2, <3>2, <3>5, <3>6
  <2> QED
    BY <2>2, <2>3
<1>8. ASSUME NEW x \in Clients, RequestCommit(x)
      PROVE  Kept(n, prop[c].block)'
  <2> DEFINE r == IF CanAppend(prop[x].block, chain[Target(x)]) THEN "committed" ELSE "rejected"
             p == AfterCommit(prop[x], r)
  <2>1. prop[x].pc = "committing" /\ r \in CommitResults /\ prop' = [prop EXCEPT ![x] = p]
    BY <1>8 DEF RequestCommit, TypeOK, CommitResults
  <2>2. Target(x) \in Nodes
    BY <1>1, <2>1, TargetType DEF Running
  <2>3. p.block = prop[x].block /\ p.result = [prop[x].result EXCEPT ![Target(x)] = r]
    BY <1>1, <2>1, AfterCommitType
  <2>4. CASE c # x
    BY <1>1, <1>4, <2>1, <2>4 DEF TypeOK
  <2>5. CASE c = x /\ n # Target(x)
    BY <1>1, <1>3, <1>4, <2>1, <2>3, <2>5 DEF TypeOK, Proposals
  <2>6. CASE c = x /\ n = Target(x)
    <3>1. prop'[c].block = prop[c].block /\ r = "committed"
      BY <1>1, <1>3, <2>1, <2>3, <2>6 DEF TypeOK, Proposals
    <3>2. CanAppend(prop[c].block, chain[n])
      BY <2>6, <3>1
    <3>3. chain'[n] = Append(chain[n], prop[c].block)
      BY <1>1, <1>8, <2>6, <3>2 DEF RequestCommit, TypeOK
    <3>4. prop[c].block.index = Len(chain[n])
      BY <1>1, <1>3, <3>2, CanAppendFacts
    <3>5. chain[n] \in Chains /\ Len(chain[n]) \in Nat
      BY <1>1, TipType DEF TypeOK
    <3> QED
      BY <1>3, <3>1, <3>3, <3>4, <3>5, AppendChain
  <2> QED
    BY <2>4, <2>5, <2>6
<1>9. ASSUME NEW x \in Clients, CommitRequestFails(x)
      PROVE  Kept(n, prop[c].block)'
  <2> DEFINE p == AfterCommit(prop[x], "request_failed")
  <2>1. prop[x].pc = "committing" /\ "request_failed" \in CommitResults /\ prop' = [prop EXCEPT ![x] = p]
    BY <1>9 DEF CommitRequestFails, TypeOK, CommitResults
  <2>2. p.block = prop[x].block /\ p.result = [prop[x].result EXCEPT ![Target(x)] = "request_failed"]
    BY <1>1, <2>1, AfterCommitType
  <2>3. CASE c # x
    BY <1>1, <1>4, <2>1, <2>3 DEF TypeOK
  <2>4. CASE c = x
    BY <1>1, <1>3, <1>4, <2>1, <2>2, <2>4 DEF TypeOK, Proposals
  <2> QED
    BY <2>3, <2>4
<1>10. ASSUME prop' = prop
       PROVE  Kept(n, prop[c].block)'
  BY <1>4, <1>10
<1> QED
  BY <1>5, <1>6, <1>7, <1>8, <1>9, <1>10
     DEF Next, Propose, Proceed, ServeLate, Crash, Restart, vars

LEMMA HistoryStep == Persist /\ HistoryInv /\ [Next]_vars => HistoryInv'
BY IntegrityStep, VotesStep, ParentOnMajorityStep, CommittedStep DEF HistoryInv

LEMMA HistoryAlways == ASSUME Persist PROVE Spec => []HistoryInv
<1>1. HistoryInv /\ [Next]_vars => HistoryInv'
  BY HistoryStep
<1> QED
  BY <1>1, HistoryInit, PTL DEF Spec

(* A node with a disk keeps the block it answered "committed" for.         *)
THEOREM CommittedAlwaysKept == ASSUME Persist PROVE Spec => []CommittedIsKept
<1>1. HistoryInv => CommittedIsKept
  BY DEF HistoryInv
<1> QED
  BY <1>1, HistoryAlways, PTL

(* Whoever has signed a block that still circulates has its parent.        *)
THEOREM VotesAlwaysStand == ASSUME Persist PROVE Spec => []VotesStand
<1>1. HistoryInv => VotesStand
  BY DEF HistoryInv
<1> QED
  BY <1>1, HistoryAlways, PTL

(* Below every block lies one that a majority holds.                       *)
THEOREM ParentAlwaysOnMajority == ASSUME Persist PROVE Spec => []ParentOnMajority
<1>1. HistoryInv => ParentOnMajority
  BY DEF HistoryInv
<1> QED
  BY <1>1, HistoryAlways, PTL

(* The holders of a block's parent hold what the chain has below the block.*)
LEMMA HoldersOfParent ==
    ASSUME HistoryInv, NEW n \in Nodes, NEW i \in 1..Len(chain[n]) - 1
    PROVE  \E P \in SUBSET Nodes :
               /\ Cardinality(P) >= RequiredSignatures
               /\ \A m \in P : i \in 1..Len(chain[m]) /\ chain[m][i].hash = chain[n][i].hash
<1>1. /\ i + 1 \in 2..Len(chain[n]) /\ i + 1 \in 1..Len(chain[n]) /\ Len(chain[n]) \in Nat
  BY TipType DEF HistoryInv, IntegrityInv, TypeOK
<1>2. chain[n][i + 1].index = i /\ chain[n][i + 1].prev = chain[n][i].hash
  BY <1>1 DEF HistoryInv, IntegrityInv, IndexIsHeight, IntegrityHolds, VerifyFullChain
<1> DEFINE P == {m \in Nodes : HoldsParent(m, chain[n][i + 1])}
<1>3. Cardinality(P) >= RequiredSignatures
  BY <1>1 DEF HistoryInv, ParentOnMajority
<1>4. \A m \in P : i \in 1..Len(chain[m]) /\ chain[m][i].hash = chain[n][i].hash
  BY <1>2 DEF HoldsParent
<1>5. P \in SUBSET Nodes
  OBVIOUS
<1> HIDE DEF P
<1> QED
  BY <1>3, <1>4, <1>5

(* Any two nodes agree on everything below the tip of the shorter chain.   *)
THEOREM ForksStayAtTip == ASSUME Persist PROVE Spec => []ForkOnlyAtTip
<1>1. HistoryInv => ForkOnlyAtTip
  <2> SUFFICES ASSUME HistoryInv, NEW n \in Nodes, NEW m \in Nodes,
                      NEW i \in 1..Len(chain[n]) - 1, i < Len(chain[m])
               PROVE  chain[n][i].hash = chain[m][i].hash
    BY DEF ForkOnlyAtTip
  <2>1. i \in 1..Len(chain[m]) - 1
    BY TipType DEF HistoryInv, IntegrityInv, TypeOK
  <2>2. PICK P \in SUBSET Nodes :
               /\ Cardinality(P) >= RequiredSignatures
               /\ \A k \in P : chain[k][i].hash = chain[n][i].hash
    BY HoldersOfParent
  <2>3. PICK Q \in SUBSET Nodes :
               /\ Cardinality(Q) >= RequiredSignatures
               /\ \A k \in Q : chain[k][i].hash = chain[m][i].hash
    BY <2>1, HoldersOfParent
  <2>4. PICK k \in Nodes : k \in P /\ k \in Q
    BY <2>2, <2>3, MajoritiesMeet
  <2> QED
    BY <2>2, <2>3, <2>4
<1> QED
  BY <1>1, HistoryAlways, PTL

(* A block that a majority reported as committed is never built around.    *)
THEOREM MajorityCommitsAreFinal == ASSUME Persist PROVE Spec => []MajorityCommitIsFinal
<1>1. HistoryInv => MajorityCommitIsFinal
  <2> SUFFICES ASSUME HistoryInv, NEW c \in Clients, NEW m \in Nodes,
                      Cardinality({n \in Nodes : prop[c].result[n] = "committed"}) >= RequiredSignatures,
                      Len(chain[m]) > prop[c].block.index + 1
               PROVE  chain[m][prop[c].block.index + 1].hash = prop[c].block.hash
    BY DEF MajorityCommitIsFinal
  <2> DEFINE i == prop[c].block.index + 1
             P == {n \in Nodes : prop[c].result[n] = "committed"}
  <2>1. prop[c].block.index \in Nat /\ Len(chain[m]) \in Nat
    BY TipType DEF HistoryInv, IntegrityInv, TypeOK, Proposals, Blocks
  <2>2. i \in 1..Len(chain[m]) - 1
    BY <2>1
  <2>3. PICK Q \in SUBSET Nodes :
               /\ Cardinality(Q) >= RequiredSignatures
               /\ \A k \in Q : chain[k][i].hash = chain[m][i].hash
    BY <2>2, HoldersOfParent
  <2>4. \A k \in P : chain[k][i].hash = prop[c].block.hash
    BY DEF HistoryInv, CommittedIsKept
  <2>5. P \in SUBSET Nodes /\ Cardinality(P) >= RequiredSignatures
    OBVIOUS
  <2> HIDE DEF P
  <2>6. PICK k \in Nodes : k \in P /\ k \in Q
    BY <2>3, <2>5, MajoritiesMeet
  <2> QED
    BY <2>3, <2>4, <2>6
<1> QED
  BY <1>1, HistoryAlways, PTL

-----------------------------------------------------------------------------
(* While only one client has proposed anything, which always asks every    *)
(* node, and there were no more kills and lost answers than the nodes a    *)
(* majority can spare: the nodes X that may have failed are then too few   *)
(* for a majority, and all the others hold one chain c, but for the block  *)
(* that is just being committed.                                           *)

Covering == \A route \in Routes, n \in Nodes : \E i \in 1..Len(route) : route[i] = n

(* The commit request for the block under way has been made to this node.  *)
Reached(k, n) == /\ prop[k].pc = "committing"
                 /\ \E i \in 1..(prop[k].pos - 1) : prop[k].route[i] = n

Few(X) == X \subseteq Nodes /\ Cardinality(X) <= crashes + unanswered

Together(k, X, c) ==
    \A n \in Nodes \ X : chain[n] = IF Reached(k, n) THEN Append(c, prop[k].block) ELSE c

(* The others voted for a block on top of c ...                            *)
VotesOn(k, X, c) ==
    prop[k].pc = "validating" =>
        \A n \in ValidSigners(prop[k].block) \ X : CanSign(prop[k].block, c)

(* ... so that a block with a majority fits there.                         *)
FitsOn(k, c) == prop[k].pc = "committing" => CanAppend(prop[k].block, c)

Outside(X) == /\ \A n \in Nodes \ X : up[n]
              /\ \A m \in late : m.node \in X

Steady(k, X, c) ==
    /\ c \in Chains
    /\ Few(X) /\ Together(k, X, c) /\ VotesOn(k, X, c) /\ FitsOn(k, c) /\ Outside(X)

(* k is the only client that can have proposed.                            *)
Only(k) == k \in Clients /\ \A d \in Clients \ {k} : prop[d].pc = "idle"

SteadyInv ==
    /\ TypeOK
    /\ crashes + unanswered <= SpareNodes =>
           \A k \in Clients : Only(k) => \E X, c : Steady(k, X, c)

LEMMA SumGrows ==
    ASSUME NEW a \in Nat, NEW b \in Nat, NEW c \in Nat, NEW d \in Nat, a <= c, b <= d
    PROVE  a + b <= c + d
  OBVIOUS

LEMMA FailuresCount ==
    ASSUME TypeOK, [Next]_vars
    PROVE  /\ crashes \in Nat /\ unanswered \in Nat /\ crashes' \in Nat /\ unanswered' \in Nat
           /\ crashes + unanswered <= crashes' + unanswered'
<1>1. /\ crashes \in 0..MaxCrashes /\ unanswered \in 0..MaxUnanswered
      /\ crashes' \in 0..MaxCrashes /\ unanswered' \in 0..MaxUnanswered
  BY TypeStep DEF TypeOK
<1>2. crashes' = crashes \/ crashes' = crashes + 1
  BY DEF Next, Propose, Proceed, GetTip, GetTipFails, RequestSignature, SignatureRequestFails,
         RequestCommit, CommitRequestFails, ServeLate, Crash, Restart, vars
<1>3. unanswered' = unanswered \/ unanswered' = unanswered + 1
  BY DEF Next, Propose, Proceed, GetTip, GetTipFails, RequestSignature, SignatureRequestFails,
         RequestCommit, CommitRequestFails, ServeLate, Crash, Restart, vars, NoAnswer
<1>4. MaxCrashes \in Nat /\ MaxUnanswered \in Nat
  BY BoundsAssumption
<1>5. /\ crashes \in Nat /\ unanswered \in Nat /\ crashes' \in Nat /\ unanswered' \in Nat
      /\ crashes <= MaxCrashes /\ unanswered <= MaxUnanswered
  BY <1>1, <1>4
<1>6. crashes <= crashes' /\ unanswered <= unanswered'
  BY <1>2, <1>3, <1>5
<1>7. crashes + unanswered <= crashes' + unanswered'
  BY <1>5, <1>6, SumGrows
<1> QED
  BY <1>5, <1>7

LEMMA FewKept ==
    ASSUME TypeOK, [Next]_vars, NEW X, Few(X)
    PROVE  Few(X)'
<1>1. Cardinality(X) \in Nat
  BY NodesAssumption, FS_Subset, FS_CardinalityType DEF Few
<1> QED
  BY <1>1, FailuresCount DEF Few

(* Each failure adds one node to X.                                        *)
LEMMA OneMoreFails ==
    ASSUME TypeOK, [Next]_vars, NEW X, Few(X), NEW n \in Nodes,
           crashes' + unanswered' = crashes + unanswered + 1
    PROVE  Few(X \union {n})'
<1>1. IsFiniteSet(X) /\ Cardinality(X) \in Nat
  BY NodesAssumption, FS_Subset, FS_CardinalityType DEF Few
<1>2. Cardinality(X \union {n}) <= Cardinality(X) + 1 /\ Cardinality(X \union {n}) \in Nat
  <2>1. \/ Cardinality(X \union {n}) = Cardinality(X)
        \/ Cardinality(X \union {n}) = Cardinality(X) + 1
    BY <1>1, FS_AddElement
  <2> QED
    BY <1>1, <2>1
<1> QED
  BY <1>1, <1>2, FailuresCount DEF Few

(* A majority has a member outside X, and what is outside X is a majority. *)
LEMMA BeyondX ==
    ASSUME TypeOK, crashes + unanswered <= SpareNodes, NEW X, Few(X)
    PROVE  /\ \A b : HasMajority(b) => \E n \in ValidSigners(b) : n \notin X
           /\ Cardinality(Nodes \ X) >= RequiredSignatures
           /\ \E n \in Nodes : n \notin X
<1>1. /\ IsFiniteSet(X) /\ X \subseteq Nodes
      /\ Cardinality(X) \in Nat /\ Cardinality(Nodes) \in Nat
  BY NodesAssumption, FS_Subset, FS_CardinalityType DEF Few
<1>2. Cardinality(X) <= Cardinality(Nodes) - RequiredSignatures
  <2>1. crashes \in Nat /\ unanswered \in Nat
    BY BoundsAssumption DEF TypeOK
  <2> QED
    BY <1>1, <2>1, MajorityAssumption DEF Few, SpareNodes
<1>3. Cardinality(X) < RequiredSignatures
  BY <1>1, <1>2, MajorityAssumption
<1>4. ASSUME NEW b, HasMajority(b)
      PROVE  \E n \in ValidSigners(b) : n \notin X
  <2>1. ValidSigners(b) \subseteq X => Cardinality(ValidSigners(b)) <= Cardinality(X)
    BY <1>1, FS_Subset
  <2>2. IsFiniteSet(ValidSigners(b)) /\ Cardinality(ValidSigners(b)) \in Nat
    BY NodesAssumption, FS_Subset, FS_CardinalityType DEF ValidSigners
  <2> QED
    BY <1>1, <1>3, <1>4, <2>1, <2>2, MajorityAssumption DEF HasMajority
<1>5. Cardinality(Nodes \ X) = Cardinality(Nodes) - Cardinality(X)
  <2>1. Nodes \cap X = X
    BY <1>1
  <2> QED
    BY <2>1, NodesAssumption, FS_Difference
<1>6. Cardinality(Nodes \ X) >= RequiredSignatures
  BY <1>1, <1>2, <1>5, MajorityAssumption
<1>7. \E n \in Nodes : n \notin X
  <2>1. Nodes \ X # {}
    <3>1. Cardinality({}) = 0
      BY FS_EmptySet
    <3> QED
      BY <1>1, <1>6, <3>1, MajorityAssumption
  <2> QED
    BY <2>1
<1> QED
  BY <1>4, <1>6, <1>7

(* A turn of the signature loop, and of commit_to_all.                     *)
LEMMA AfterSignatureTurn ==
    ASSUME TypeOK, NEW c \in Clients, prop[c].pc = "validating", NEW b
    PROVE  LET p == AfterSignature(prop[c], b) IN
           /\ p.pc = "validating" => p.block = b
           /\ p.pc = "committing" => p.block = b /\ p.pos = 1 /\ HasMajority(b)
<1>1. prop[c] \in Proposals
  BY DEF TypeOK
<1> DEFINE q == prop[c]
<1>2. DOMAIN q = {"pc", "route", "pos", "block", "result"} /\ q.pc = "validating"
  BY <1>1 DEF Proposals
<1> HIDE DEF q
<1>3. LET p == AfterSignature(q, b) IN
      /\ p.pc = "validating" => p.block = b
      /\ p.pc = "committing" => p.block = b /\ p.pos = 1 /\ HasMajority(b)
  BY <1>2 DEF AfterSignature, Raised
<1> QED
  BY <1>3 DEF q

LEMMA AfterCommitTurn ==
    ASSUME TypeOK, NEW c \in Clients, prop[c].pc = "committing", NEW r
    PROVE  LET p == AfterCommit(prop[c], r) IN
           /\ p.block = prop[c].block
           /\ prop[c].pos < Len(prop[c].route) =>
                  p.pc = "committing" /\ p.route = prop[c].route /\ p.pos = prop[c].pos + 1
           /\ ~(prop[c].pos < Len(prop[c].route)) => p.pc = "returned"
<1>1. prop[c] \in Proposals
  BY DEF TypeOK
<1> DEFINE q == prop[c]
<1>2. DOMAIN q = {"pc", "route", "pos", "block", "result"} /\ q.pc = "committing"
  BY <1>1 DEF Proposals
<1> HIDE DEF q
<1>3. LET p == AfterCommit(q, r) IN
      /\ p.block = q.block
      /\ q.pos < Len(q.route) => p.pc = "committing" /\ p.route = q.route /\ p.pos = q.pos + 1
      /\ ~(q.pos < Len(q.route)) => p.pc = "returned"
  BY <1>2 DEF AfterCommit, Returned
<1> QED
  BY <1>3 DEF q

(* A step that leaves the proposal and the chains that count alone.        *)
LEMMA SteadyMoves ==
    ASSUME NEW k, NEW X, NEW Y, X \subseteq Y, NEW c, Steady(k, X, c), UNCHANGED prop,
           Few(Y)', Outside(Y)', \A n \in Nodes \ Y : chain'[n] = chain[n]
    PROVE  Steady(k, Y, c)'
<1>1. VotesOn(k, Y, c)' /\ FitsOn(k, c)'
  BY DEF Steady, VotesOn, FitsOn, ValidSigners, CanSign, CanAppend
<1>2. \A n : Reached(k, n)' <=> Reached(k, n)
  BY DEF Reached
<1>3. Together(k, Y, c)'
  BY <1>2 DEF Steady, Together
<1>4. (c \in Chains)'
  BY DEF Steady
<1> QED
  BY <1>1, <1>3, <1>4 DEF Steady

(* A proposal that commits neither before the step nor after it.           *)
LEMMA SteadyWithout ==
    ASSUME NEW k, NEW X, NEW c, Steady(k, X, c), UNCHANGED <<chain, up, late>>, Few(X)',
           prop[k].pc # "committing", prop'[k].pc # "committing", VotesOn(k, X, c)'
    PROVE  Steady(k, X, c)'
<1>1. FitsOn(k, c)' /\ Outside(X)' /\ (c \in Chains)'
  BY DEF Steady, FitsOn, Outside
<1>2. Together(k, X, c)'
  BY DEF Steady, Together, Reached
<1> QED
  BY <1>1, <1>2 DEF Steady

LEMMA SteadyRaised ==
    ASSUME TypeOK, [Next]_vars, NEW k \in Clients, NEW X, NEW c, Steady(k, X, c),
           UNCHANGED <<chain, up, late>>, prop[k].pc # "committing",
           NEW outcome \in Finished, prop' = [prop EXCEPT ![k] = Raised(outcome)]
    PROVE  Steady(k, X, c)'
<1>1. prop'[k].pc = outcome /\ outcome \notin Running
  BY DEF TypeOK, Raised, Finished, Running
<1>2. Few(X)'
  BY FewKept DEF Steady
<1> QED
  BY <1>1, <1>2, SteadyWithout DEF VotesOn, Running

LEMMA SteadyTip ==
    ASSUME TypeOK, [Next]_vars, NEW k \in Clients, NEW X, NEW c, Steady(k, X, c),
           NEW route, NEW d, GetTip(k, route, d)
    PROVE  Steady(k, X, c)'
<1>1. PICK i, h : prop' = [prop EXCEPT ![k] = [pc |-> "validating", route |-> route, pos |-> 1,
                               block |-> NewBlock(i, d, h), result |-> NoResults]]
  BY DEF GetTip
<1>2. prop'[k].pc = "validating" /\ prop'[k].block.sigs = {}
  BY <1>1 DEF TypeOK, NewBlock
<1>3. VotesOn(k, X, c)'
  BY <1>2 DEF VotesOn, ValidSigners
<1>4. UNCHANGED <<chain, up, late>> /\ prop[k].pc # "committing"
  BY DEF GetTip, Finished
<1>5. Few(X)'
  BY FewKept DEF Steady
<1> QED
  BY <1>2, <1>3, <1>4, <1>5, SteadyWithout

(* A vote is given on what the node holds; the last one may make a majority*)
LEMMA SteadySignature ==
    ASSUME TypeOK, [Next]_vars, crashes + unanswered <= SpareNodes,
           NEW k \in Clients, NEW X, NEW c, Steady(k, X, c), RequestSignature(k)
    PROVE  Steady(k, X, c)'
<1> DEFINE n == Target(k)
           old == prop[k].block
           b == IF CanSign(old, chain[n]) THEN AddSignature(old, Sign(n, old)) ELSE old
<1>1. /\ prop[k].pc = "validating" /\ UNCHANGED <<chain, up, late>>
      /\ prop' = [prop EXCEPT ![k] = AfterSignature(prop[k], b)]
  BY DEF RequestSignature, TypeOK
<1>2. n \in Nodes /\ old \in Blocks
  BY <1>1, TargetType DEF Running
<1>3. n \notin X => chain[n] = c
  BY <1>1, <1>2 DEF Steady, Together, Reached
<1>4. \A m \in ValidSigners(b) \ X : CanSign(b, c)
  <2>1. \A m \in ValidSigners(old) \ X : CanSign(old, c)
    BY <1>1 DEF Steady, VotesOn
  <2>2. CASE CanSign(old, chain[n])
    <3> DEFINE s == AddSignature(old, Sign(n, old))
    <3>1. /\ s.index = old.index /\ s.data = old.data /\ s.prev = old.prev /\ s.hash = old.hash
          /\ s.sigs = old.sigs \union {[node |-> n, over |-> old.hash]}
      BY <1>2 DEF AddSignature, Sign, Blocks
    <3>2. b = s
      BY <2>2
    <3> HIDE DEF s, b
    <3>3. CanSign(s, c) <=> CanSign(old, c)
      BY <3>1 DEF CanSign, HashIsValid
    <3>4. ValidSigners(s) \subseteq ValidSigners(old) \union {n}
      BY <3>1 DEF ValidSigners
    <3> QED
      BY <1>3, <2>1, <2>2, <3>2, <3>3, <3>4
  <2> QED
    BY <2>1, <2>2
<1>5. prop'[k] = AfterSignature(prop[k], b)
  BY <1>1 DEF TypeOK
<1> HIDE DEF b
<1>6. /\ prop'[k].pc = "validating" => prop'[k].block = b
      /\ prop'[k].pc = "committing" => prop'[k].block = b /\ prop'[k].pos = 1 /\ HasMajority(b)
  BY <1>1, <1>5, AfterSignatureTurn
<1>7. Few(X)'
  BY FewKept DEF Steady
<1>8. VotesOn(k, X, c)'
  BY <1>4, <1>6 DEF VotesOn, ValidSigners, CanSign, HashIsValid, ComputeHash, Tip
<1>9. CASE prop'[k].pc # "committing"
  BY <1>1, <1>7, <1>8, <1>9, SteadyWithout
<1>10. CASE prop'[k].pc = "committing"
  <2>1. PICK m \in ValidSigners(b) : m \notin X
    BY <1>6, <1>10, BeyondX DEF Steady
  <2>2. CanAppend(b, c)
    BY <1>4, <1>6, <1>10, <2>1 DEF CanSign, CanAppend, CheckBlockAcceptable
  <2>3. FitsOn(k, c)'
    BY <1>6, <1>10, <2>2 DEF FitsOn, CanAppend, CheckBlockAcceptable, HashIsValid, ComputeHash,
                             HasMajority, ValidSigners, Tip
  <2>4. Together(k, X, c)'
    BY <1>1, <1>6, <1>10 DEF Steady, Together, Reached
  <2>5. Outside(X)' /\ (c \in Chains)'
    BY <1>1 DEF Steady, Outside
  <2> QED
    BY <1>7, <1>8, <2>3, <2>4, <2>5 DEF Steady
<1> QED
  BY <1>9, <1>10

(* A request of commit_to_all: the block does not change, the node becomes *)
(* one of those that were asked, and the last request leaves out no node.  *)
LEMMA CommitTurn ==
    ASSUME TypeOK, Covering, NEW k \in Clients, prop[k].pc = "committing",
           NEW r, prop' = [prop EXCEPT ![k] = AfterCommit(prop[k], r)]
    PROVE  /\ prop'[k].block = prop[k].block /\ prop[k].block \in Blocks
           /\ Target(k) \in Nodes
           /\ prop'[k].pc \in {"committing", "returned"}
           /\ prop'[k].pc = "committing" =>
                  \A m \in Nodes : Reached(k, m)' <=> Reached(k, m) \/ m = Target(k)
           /\ prop'[k].pc = "returned" =>
                  \A m \in Nodes : Reached(k, m) \/ m = Target(k)
<1> DEFINE p == prop[k]
           q == prop'[k]
<1>1. /\ p.route \in Routes /\ p.route \in Seq(Nodes) /\ Len(p.route) \in Nat
      /\ p.pos \in 1..Len(p.route) /\ p.block \in Blocks
      /\ Target(k) \in Nodes /\ Target(k) = p.route[p.pos]
  BY TargetType DEF TypeOK, Running, Target
<1>2. q = AfterCommit(p, r)
  BY DEF TypeOK
<1>3. /\ q.block = p.block
      /\ p.pos < Len(p.route) =>
             q.pc = "committing" /\ q.route = p.route /\ q.pos = p.pos + 1
      /\ ~(p.pos < Len(p.route)) => q.pc = "returned"
  BY <1>2, AfterCommitTurn
<1>4. CASE p.pos < Len(p.route)
  <2>1. \A m \in Nodes : Reached(k, m)' <=> Reached(k, m) \/ m = p.route[p.pos]
    BY <1>1, <1>3, <1>4 DEF Reached
  <2> QED
    BY <1>1, <1>3, <1>4, <2>1
<1>5. CASE ~(p.pos < Len(p.route))
  <2>1. p.pos = Len(p.route)
    BY <1>1, <1>5
  <2>2. ASSUME NEW m \in Nodes
        PROVE  Reached(k, m) \/ m = p.route[p.pos]
    <3>1. PICK i \in 1..Len(p.route) : p.route[i] = m
      BY <1>1 DEF Covering
    <3> QED
      BY <1>1, <2>1, <3>1 DEF Reached
  <2> QED
    BY <1>1, <1>3, <1>5, <2>2
<1> QED
  BY <1>4, <1>5

(* While the block goes round, c stays below it; then c includes it.       *)
LEMMA SteadyRound ==
    ASSUME TypeOK, Covering, NEW k \in Clients, NEW X, NEW Y, X \subseteq Y, NEW c, Steady(k, X, c),
           prop[k].pc = "committing",
           NEW r, prop' = [prop EXCEPT ![k] = AfterCommit(prop[k], r)],
           Few(Y)', Outside(Y)',
           \A m \in Nodes \ Y : chain'[m] = IF Reached(k, m) \/ m = Target(k)
                                            THEN Append(c, prop[k].block) ELSE c
    PROVE  \E d : Steady(k, Y, d)'
<1>1. /\ prop'[k].block = prop[k].block /\ prop[k].block \in Blocks
      /\ prop'[k].pc \in {"committing", "returned"}
      /\ prop'[k].pc = "committing" =>
             \A m \in Nodes : Reached(k, m)' <=> Reached(k, m) \/ m = Target(k)
      /\ prop'[k].pc = "returned" => \A m \in Nodes : Reached(k, m) \/ m = Target(k)
  BY CommitTurn
<1>2. c \in Chains /\ CanAppend(prop[k].block, c)
  BY DEF Steady, FitsOn
<1>3. CASE prop'[k].pc = "committing"
  <2>1. Together(k, Y, c)'
    BY <1>1, <1>3 DEF Together
  <2>2. VotesOn(k, Y, c)' /\ FitsOn(k, c)' /\ (c \in Chains)'
    BY <1>1, <1>2, <1>3
    DEF VotesOn, FitsOn, CanAppend, CheckBlockAcceptable, HashIsValid, ComputeHash,
        HasMajority, ValidSigners, Tip
  <2>3. Steady(k, Y, c)'
    BY <2>1, <2>2 DEF Steady
  <2> QED
    BY <2>3
<1>4. CASE prop'[k].pc = "returned"
  <2>1. PICK d : d = Append(c, prop[k].block)
    OBVIOUS
  <2>2. d \in Chains
    BY <1>1, <1>2, <2>1, AppendChain
  <2>3. Together(k, Y, d)'
    BY <1>1, <1>4, <2>1 DEF Together, Reached
  <2>4. VotesOn(k, Y, d)' /\ FitsOn(k, d)' /\ (d \in Chains)'
    BY <1>4, <2>2 DEF VotesOn, FitsOn
  <2>5. Steady(k, Y, d)'
    BY <2>3, <2>4 DEF Steady
  <2> QED
    BY <2>5
<1> QED
  BY <1>1, <1>3, <1>4

(* A node that answers has the block: it fits, and it fits once.           *)
LEMMA SteadyCommit ==
    ASSUME TypeOK, [Next]_vars, Covering, NEW k \in Clients, NEW X, NEW c, Steady(k, X, c),
           RequestCommit(k)
    PROVE  \E d : Steady(k, X, d)'
<1> DEFINE n == Target(k)
           b == prop[k].block
           r == IF CanAppend(b, chain[n]) THEN "committed" ELSE "rejected"
<1>1. /\ prop[k].pc = "committing" /\ UNCHANGED <<up, late>>
      /\ chain' = [chain EXCEPT ![n] = IF CanAppend(b, chain[n]) THEN Append(chain[n], b)
                                       ELSE chain[n]]
      /\ prop' = [prop EXCEPT ![k] = AfterCommit(prop[k], r)]
  BY DEF RequestCommit, TypeOK
<1>2. n \in Nodes /\ b \in Blocks
  BY <1>1, TargetType DEF Running
<1>3. CanAppend(b, c) /\ c \in Chains
  BY <1>1 DEF Steady, FitsOn
<1>4. ~CanAppend(b, Append(c, b))
  <2>1. Tip(Append(c, b)) = b /\ b.index \in Nat
    BY <1>2, <1>3, AppendChain DEF Tip, Blocks
  <2> QED
    BY <2>1 DEF CanAppend
<1>5. ASSUME NEW m \in Nodes \ X
      PROVE  chain'[m] = IF Reached(k, m) \/ m = n THEN Append(c, b) ELSE c
  <2> HIDE DEF b, n, r
  <2>1. chain[m] = IF Reached(k, m) THEN Append(c, b) ELSE c
    BY DEF Steady, Together, b
  <2>2. CASE m = n
    BY <1>1, <1>2, <1>3, <1>4, <2>1, <2>2 DEF TypeOK
  <2>3. CASE m # n
    BY <1>1, <1>2, <2>1, <2>3 DEF TypeOK
  <2> QED
    BY <2>2, <2>3
<1>6. Few(X)' /\ Outside(X)'
  BY <1>1, FewKept DEF Steady, Outside
<1> HIDE DEF r
<1> QED
  BY <1>1, <1>5, <1>6, SteadyRound

(* Where there is no answer the node was in X, or it is from now on.       *)
LEMMA SteadyCommitFails ==
    ASSUME TypeOK, [Next]_vars, Covering, NEW k \in Clients, NEW X, NEW c, Steady(k, X, c),
           CommitRequestFails(k)
    PROVE  \E Y, d : Steady(k, Y, d)'
<1>1. PICK n : n = Target(k)
  OBVIOUS
<1>2. /\ prop[k].pc = "committing" /\ UNCHANGED <<chain, up, crashes>> /\ NoAnswer(n)
      /\ \A m \in late' : m \in late \/ (up[n] /\ m.node = n)
      /\ prop' = [prop EXCEPT ![k] = AfterCommit(prop[k], "request_failed")]
  BY <1>1 DEF CommitRequestFails, TypeOK
<1>3. n \in Nodes
  BY <1>1, <1>2, TargetType DEF Running
<1>4. ASSUME NEW Y, X \subseteq Y, n \in Y, Few(Y)', Outside(Y)'
      PROVE  \E d : Steady(k, Y, d)'
  <2>1. \A m \in Nodes \ Y : chain'[m] = IF Reached(k, m) \/ m = Target(k)
                                         THEN Append(c, prop[k].block) ELSE c
    BY <1>1, <1>2, <1>4 DEF Steady, Together
  <2> QED
    BY <1>2, <1>4, <2>1, SteadyRound
<1>5. CASE ~up[n]
  <2>1. n \in X /\ Few(X)' /\ Outside(X)'
    BY <1>2, <1>3, <1>5, FewKept DEF Steady, Outside
  <2> QED
    BY <1>4, <2>1
<1>6. CASE up[n]
  <2>1. crashes' + unanswered' = crashes + unanswered + 1
    BY <1>2, <1>6, FailuresCount DEF NoAnswer
  <2>2. PICK Y : Y = X \union {n}
    OBVIOUS
  <2>3. Few(Y)'
    <3>1. Few(X \union {n})'
      BY <1>3, <2>1, OneMoreFails DEF Steady
    <3> QED
      BY <2>2, <3>1 DEF Few
  <2>4. Outside(Y)'
    BY <1>2, <1>6, <2>2 DEF Steady, Outside
  <2> QED
    BY <1>4, <2>2, <2>3, <2>4
<1> QED
  BY <1>5, <1>6

LEMMA SteadyCrash ==
    ASSUME TypeOK, [Next]_vars, NEW k \in Clients, NEW X, NEW c, Steady(k, X, c),
           NEW n \in Nodes, Crash(n)
    PROVE  \E Y : Steady(k, Y, c)'
<1>1. /\ UNCHANGED <<chain, prop>> /\ crashes' + unanswered' = crashes + unanswered + 1
      /\ up' = [up EXCEPT ![n] = FALSE] /\ late' \subseteq late
  BY FailuresCount DEF Crash
<1>2. PICK Y : Y = X \union {n}
  OBVIOUS
<1>3. Few(Y)'
  <2>1. Few(X \union {n})'
    BY <1>1, OneMoreFails DEF Steady
  <2> QED
    BY <1>2, <2>1 DEF Few
<1>4. Outside(Y)'
  BY <1>1, <1>2 DEF Steady, Outside, TypeOK
<1>5. Steady(k, Y, c)'
  BY <1>1, <1>2, <1>3, <1>4, SteadyMoves
<1> QED
  BY <1>5

(* A node that comes back and a request that comes late concern X only.    *)
LEMMA SteadyNodes ==
    ASSUME TypeOK, [Next]_vars, NEW k \in Clients, NEW X, NEW c, Steady(k, X, c),
           \/ \E n \in Nodes : Restart(n)
           \/ \E m \in late : ServeLate(m)
           \/ UNCHANGED vars
    PROVE  Steady(k, X, c)'
<1>1. Few(X)'
  BY FewKept DEF Steady
<1>2. ASSUME NEW n \in Nodes, Restart(n)
      PROVE  Steady(k, X, c)'
  <2>1. /\ n \in X /\ UNCHANGED <<prop, late>>
        /\ up' = [up EXCEPT ![n] = TRUE]
        /\ \A m \in Nodes \ X : chain'[m] = chain[m]
    BY <1>2 DEF Restart, Steady, Outside, TypeOK
  <2>2. Outside(X)'
    BY <2>1 DEF Steady, Outside, TypeOK
  <2> QED
    BY <1>1, <2>1, <2>2, SteadyMoves
<1>3. ASSUME NEW m \in late, ServeLate(m)
      PROVE  Steady(k, X, c)'
  <2>1. /\ m.node \in X /\ UNCHANGED <<prop, up>> /\ late' \subseteq late
        /\ \A n \in Nodes \ X : chain'[n] = chain[n]
    BY <1>3 DEF ServeLate, Steady, Outside, TypeOK
  <2>2. Outside(X)'
    BY <2>1 DEF Steady, Outside
  <2> QED
    BY <1>1, <2>1, <2>2, SteadyMoves
<1>4. CASE UNCHANGED vars
  <2>1. UNCHANGED <<prop, chain>> /\ Outside(X)'
    BY <1>4 DEF vars, Steady, Outside
  <2> QED
    BY <1>1, <2>1, SteadyMoves
<1> QED
  BY <1>2, <1>3, <1>4

(* A client that has proposed is never again one that has not.             *)
LEMMA NeverIdleAgain ==
    ASSUME TypeOK, NEW c \in Clients, Propose(c) \/ Proceed(c)
    PROVE  prop'[c].pc # "idle"
<1>1. ASSUME NEW route, NEW d, GetTip(c, route, d)
      PROVE  prop'[c].pc # "idle"
  BY <1>1 DEF GetTip, TypeOK
<1>2. ASSUME \/ \E route \in Routes : GetTipFails(c, route)
             \/ SignatureRequestFails(c)
      PROVE  prop'[c].pc # "idle"
  BY <1>2 DEF GetTipFails, SignatureRequestFails, TypeOK, Raised
<1>3. CASE RequestSignature(c)
  <2>1. PICK b : prop'[c] = AfterSignature(prop[c], b)
    BY <1>3 DEF RequestSignature, TypeOK
  <2>2. prop[c].pc = "validating" /\ prop[c] \in Proposals
    BY <1>3 DEF RequestSignature, TypeOK
  <2> DEFINE q == prop[c]
  <2>3. DOMAIN q = {"pc", "route", "pos", "block", "result"} /\ q.pc = "validating"
    BY <2>2 DEF Proposals
  <2> HIDE DEF q
  <2>4. AfterSignature(q, b).pc # "idle"
    BY <2>3 DEF AfterSignature, Raised
  <2> QED
    BY <2>1, <2>4 DEF q
<1>4. CASE RequestCommit(c) \/ CommitRequestFails(c)
  <2>1. PICK r : prop'[c] = AfterCommit(prop[c], r)
    BY <1>4 DEF RequestCommit, CommitRequestFails, TypeOK
  <2>2. prop[c].pc = "committing"
    BY <1>4 DEF RequestCommit, CommitRequestFails
  <2> QED
    BY <2>1, <2>2, AfterCommitTurn
<1> QED
  BY <1>1, <1>2, <1>3, <1>4 DEF Propose, Proceed

(* The steps of the others leave the clients alone.                        *)
NodeNext == \/ \E n \in Nodes : Crash(n)
            \/ \E n \in Nodes : Restart(n)
            \/ \E m \in late : ServeLate(m)

LEMMA OnlyStep ==
    ASSUME TypeOK, [Next]_vars, NEW k \in Clients, Only(k)'
    PROVE  Only(k) /\ (Propose(k) \/ Proceed(k) \/ NodeNext \/ UNCHANGED vars)
<1>1. \/ \E c \in Clients : Propose(c) \/ Proceed(c)
      \/ NodeNext \/ UNCHANGED vars
  BY DEF Next, NodeNext
<1>2. CASE NodeNext \/ UNCHANGED vars
  <2>1. prop' = prop
    BY <1>2 DEF NodeNext, vars, Crash, Restart, ServeLate
  <2> QED
    BY <1>2, <2>1 DEF Only
<1>3. ASSUME NEW c \in Clients, Propose(c) \/ Proceed(c)
      PROVE  c = k /\ Only(k)
  <2>1. c = k
    BY <1>3, NeverIdleAgain DEF Only
  <2>2. PICK p : prop' = [prop EXCEPT ![k] = p]
    BY <1>3, <2>1 DEF Propose, Proceed, GetTip, GetTipFails, RequestSignature,
       SignatureRequestFails, RequestCommit, CommitRequestFails
  <2> QED
    BY <2>1, <2>2 DEF Only, TypeOK
<1> QED
  BY <1>1, <1>2, <1>3

LEMMA SteadyStep ==
    ASSUME Covering
    PROVE  SteadyInv /\ [Next]_vars => SteadyInv'
<1> SUFFICES ASSUME SteadyInv, [Next]_vars, crashes' + unanswered' <= SpareNodes,
                    NEW k \in Clients, Only(k)'
             PROVE  \E Y, d : Steady(k, Y, d)'
  BY TypeStep DEF SteadyInv
<1>1. TypeOK /\ crashes + unanswered <= SpareNodes
  <2>1. TypeOK
    BY DEF SteadyInv
  <2>2. /\ crashes + unanswered \in Nat /\ crashes' + unanswered' \in Nat
        /\ crashes + unanswered <= crashes' + unanswered'
    BY <2>1, FailuresCount
  <2>3. SpareNodes \in Int
    BY NodesAssumption, MajorityAssumption, FS_CardinalityType DEF SpareNodes
  <2> QED
    BY <2>1, <2>2, <2>3
<1>2. PICK X, c : Steady(k, X, c)
  BY <1>1, OnlyStep DEF SteadyInv
<1>3. ASSUME NEW route \in Routes, NEW d \in Payloads, GetTip(k, route, d)
      PROVE  Steady(k, X, c)'
  BY <1>1, <1>2, <1>3, SteadyTip
<1>4. ASSUME \/ \E route \in Routes : GetTipFails(k, route)
             \/ SignatureRequestFails(k)
      PROVE  Steady(k, X, c)'
  <2>1. /\ UNCHANGED <<chain, up, late>> /\ prop[k].pc # "committing"
        /\ prop' = [prop EXCEPT ![k] = Raised("aborted")] /\ "aborted" \in Finished
    BY <1>4 DEF GetTipFails, SignatureRequestFails, Finished
  <2> QED
    BY <1>1, <1>2, <2>1, SteadyRaised
<1>5. ASSUME RequestSignature(k)
      PROVE  Steady(k, X, c)'
  BY <1>1, <1>2, <1>5, SteadySignature
<1>6. ASSUME RequestCommit(k) \/ CommitRequestFails(k)
      PROVE  \E Y, d : Steady(k, Y, d)'
  <2>1. (\E d : Steady(k, X, d)') \/ \E Y, d : Steady(k, Y, d)'
    BY <1>1, <1>2, <1>6, SteadyCommit, SteadyCommitFails
  <2> QED
    BY <2>1
<1>7. ASSUME NEW n \in Nodes, Crash(n)
      PROVE  \E Y : Steady(k, Y, c)'
  BY <1>1, <1>2, <1>7, SteadyCrash
<1>8. ASSUME \/ \E n \in Nodes : Restart(n)
             \/ \E m \in late : ServeLate(m)
             \/ UNCHANGED vars
      PROVE  Steady(k, X, c)'
  BY <1>1, <1>2, <1>8, SteadyNodes
<1>9. \/ \E route \in Routes, d \in Payloads : GetTip(k, route, d)
      \/ \E route \in Routes : GetTipFails(k, route)
      \/ SignatureRequestFails(k) \/ RequestSignature(k)
      \/ RequestCommit(k) \/ CommitRequestFails(k)
      \/ \E n \in Nodes : Crash(n)
      \/ \E n \in Nodes : Restart(n)
      \/ \E m \in late : ServeLate(m)
      \/ UNCHANGED vars
  BY <1>1, OnlyStep DEF Propose, Proceed, NodeNext
<1> QED
  BY <1>3, <1>4, <1>5, <1>6, <1>7, <1>8, <1>9

LEMMA SteadyInit == Init => SteadyInv
<1> SUFFICES ASSUME Init, NEW k \in Clients
             PROVE  \E X, c : Steady(k, X, c)
  BY TypeInit DEF SteadyInv
<1>1. prop[k].pc = "idle"
  BY DEF Init, Raised
<1>2. PICK c : c = <<Genesis>>
  OBVIOUS
<1>3. c \in Chains
  BY <1>2, GenesisType
<1>4. Few({})
  BY FS_EmptySet DEF Init, Few
<1>5. Steady(k, {}, c)
  BY <1>1, <1>2, <1>3, <1>4 DEF Init, Steady, Together, Reached, VotesOn, FitsOn, Outside
<1> QED
  BY <1>5

(* propose_and_commit: while one client only has proposed, which always    *)
(* asks all the nodes, and there were no more kills and lost answers than  *)
(* the nodes a majority can spare, it never brings the nodes to a state in *)
(* which no block can be signed any more, at whatever request the failures *)
(* fall, whether lost commits are served later or never, with restarts,    *)
(* with disks or without.                                                  *)
THEOREM OneClientNeverStuck ==
    ASSUME Covering
    PROVE  Spec => []NeverStuck
<1>1. Init => SteadyInv
  BY SteadyInit
<1>2. SteadyInv /\ [Next]_vars => SteadyInv'
  BY SteadyStep
<1>3. SteadyInv => NeverStuck
  <2> SUFFICES ASSUME SteadyInv, NobodyProposes, Alone, crashes + unanswered <= SpareNodes
               PROVE  \E n \in Nodes :
                          Cardinality({m \in Nodes : Tip(chain[m]).hash = Tip(chain[n]).hash})
                              >= RequiredSignatures
    BY DEF NeverStuck, CommonTip
  <2>1. PICK k \in Clients : Only(k)
    BY DEF Alone, Only
  <2>2. PICK X, c : Steady(k, X, c)
    BY <2>1 DEF SteadyInv
  <2>3. \A n \in Nodes \ X : chain[n] = c
    BY <2>2 DEF Steady, Together, Reached, NobodyProposes, Finished
  <2>4. Cardinality(Nodes \ X) >= RequiredSignatures /\ \E n \in Nodes : n \notin X
    BY <2>2, BeyondX DEF SteadyInv, Steady
  <2>5. PICK n \in Nodes : n \notin X
    BY <2>4
  <2> DEFINE S == {m \in Nodes : Tip(chain[m]).hash = Tip(chain[n]).hash}
  <2>6. Nodes \ X \subseteq S /\ S \in SUBSET Nodes
    BY <2>3, <2>5
  <2> HIDE DEF S
  <2>7. Cardinality(S) >= RequiredSignatures
    BY <2>4, <2>6, MajorityGrows
  <2> QED
    BY <2>7 DEF S
<1> QED
  BY <1>1, <1>2, <1>3, PTL DEF Spec
=============================================================================
