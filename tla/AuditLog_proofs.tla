--------------------------- MODULE AuditLog_proofs ---------------------------
(***************************************************************************)
(* Nodes with disks implement the append-only record of AuditLog: the      *)
(* digests below the tip of the longest chain are only ever extended, by   *)
(* one block at a time, whatever the rivals at the tip and the failures.   *)
(***************************************************************************)
EXTENDS PoANetwork_proofs

(* A longest chain exists: at first every chain is one, and a node whose   *)
(* chain grows either takes over or leaves the longest where it was.       *)
HasLongest == \E n \in Nodes : \A m \in Nodes : Len(chain[n]) >= Len(chain[m])

GenesisFirst == \A n \in Nodes : chain[n][1] = Genesis

RecordInv == HistoryInv /\ ForkOnlyAtTip /\ HasLongest /\ GenesisFirst

LEMMA RecordInit == Init => HasLongest /\ GenesisFirst
BY NodesAssumption DEF Init, HasLongest, GenesisFirst

LEMMA RecordStep ==
    ASSUME Persist, TypeOK, HasLongest, GenesisFirst, [Next]_vars
    PROVE  HasLongest' /\ GenesisFirst'
<1>1. \A n \in Nodes : chain[n] \in Chains /\ Len(chain[n]) \in Nat \ {0}
  BY TipType DEF TypeOK
<1>2. GenesisFirst'
  <2> SUFFICES ASSUME NEW n \in Nodes PROVE chain'[n][1] = Genesis
    BY DEF GenesisFirst
  <2>1. 1 \in 1..Len(chain[n])
    BY <1>1
  <2>2. chain'[n][1] = chain[n][1]
    BY <2>1, ChainsGrow
  <2> QED
    BY <2>2 DEF GenesisFirst
<1>3. CASE chain' = chain
  BY <1>2, <1>3 DEF HasLongest
<1>4. CASE Served
  <2>1. PICK n \in Nodes, b \in Circulating : chain' = [chain EXCEPT ![n] = Append(chain[n], b)]
    BY <1>4 DEF Served
  <2>2. b \in Blocks /\ chain \in [Nodes -> Chains]
    BY CirculatingType DEF TypeOK
  <2>3. chain'[n] = Append(chain[n], b) /\ \A m \in Nodes : m # n => chain'[m] = chain[m]
    BY <2>1, <2>2
  <2>4. Len(chain'[n]) = Len(chain[n]) + 1
    BY <2>2, <2>3, AppendChain
  <2>5. PICK l \in Nodes : \A m \in Nodes : Len(chain[l]) >= Len(chain[m])
    BY DEF HasLongest
  <2>6. CASE Len(chain[n]) >= Len(chain[l])
    <3>1. ASSUME NEW m \in Nodes PROVE Len(chain'[n]) >= Len(chain'[m])
      <4>1. CASE m = n
        BY <1>1, <2>4, <4>1
      <4>2. CASE m # n
        <5>1. Len(chain'[m]) = Len(chain[m]) /\ Len(chain[l]) >= Len(chain[m])
          BY <2>3, <2>5, <4>2
        <5> QED
          BY <1>1, <2>4, <2>6, <5>1
      <4> QED
        BY <4>1, <4>2
    <3> QED
      BY <1>2, <3>1 DEF HasLongest
  <2>7. CASE ~(Len(chain[n]) >= Len(chain[l]))
    <3>1. l # n /\ Len(chain'[l]) = Len(chain[l]) /\ Len(chain'[l]) >= Len(chain'[n])
      BY <1>1, <2>3, <2>4, <2>7
    <3>2. ASSUME NEW m \in Nodes PROVE Len(chain'[l]) >= Len(chain'[m])
      BY <2>3, <2>5, <3>1
    <3> QED
      BY <1>2, <3>2 DEF HasLongest
  <2> QED
    BY <2>6, <2>7
<1> QED
  BY <1>2, <1>3, <1>4, ChainStep DEF Emptied

LEMMA RecordAlways == ASSUME Persist PROVE Spec => []RecordInv
<1>1. HistoryInv => TypeOK
  BY DEF HistoryInv, IntegrityInv
<1>2. TypeOK /\ HasLongest /\ GenesisFirst /\ [Next]_vars => HasLongest' /\ GenesisFirst'
  BY RecordStep
<1>3. HistoryInv /\ ForkOnlyAtTip /\ HasLongest /\ GenesisFirst => RecordInv
  BY DEF RecordInv
<1> QED
  BY <1>1, <1>2, <1>3, RecordInit, HistoryAlways, ForksStayAtTip, PTL DEF Spec

-----------------------------------------------------------------------------
(* The record, seen from any chain that is long enough.                    *)

LEMMA LongestFacts ==
    ASSUME TypeOK, HasLongest
    PROVE  /\ Longest \in Nodes
           /\ Len(chain[Longest]) \in Nat \ {0}
           /\ \A m \in Nodes : Len(chain[m]) \in Nat /\ Len(chain[Longest]) >= Len(chain[m])
<1>1. \A m \in Nodes : Len(chain[m]) \in Nat \ {0}
  BY TipType DEF TypeOK
<1>2. Longest \in Nodes /\ \A m \in Nodes : Len(chain[Longest]) >= Len(chain[m])
  BY DEF HasLongest, Longest
<1> QED
  BY <1>1, <1>2

LEMMA SettledFacts ==
    ASSUME TypeOK, HasLongest
    PROVE  /\ Settled \in Seq(Digests)
           /\ Len(Settled) = Len(chain[Longest]) - 1
           /\ \A i \in 1..Len(chain[Longest]) - 1 : Settled[i] = chain[Longest][i].hash
<1>1. Longest \in Nodes /\ Len(chain[Longest]) \in Nat \ {0} /\ chain[Longest] \in Chains
  BY LongestFacts DEF TypeOK
<1> DEFINE len == Len(chain[Longest]) - 1
<1>2. \A i \in 1..len : chain[Longest][i].hash \in Digests
  <2> SUFFICES ASSUME NEW i \in 1..len PROVE chain[Longest][i].hash \in Digests
    OBVIOUS
  <2>1. i \in 1..Len(chain[Longest])
    BY <1>1
  <2>2. chain[Longest][i] \in Blocks
    BY <1>1, <2>1 DEF Chains
  <2> QED
    BY <2>2 DEF Blocks
<1>3. len \in Nat
  BY <1>1
<1>4. Settled = [i \in 1..len |-> chain[Longest][i].hash]
  BY DEF Settled
<1> HIDE DEF len
<1>5. Settled \in Seq(Digests) /\ Len(Settled) = len
  BY <1>2, <1>3, <1>4
<1> QED
  BY <1>4, <1>5 DEF len

(* The two lemmas in one formula, to be read in both states of a step.     *)
RecordView ==
    /\ Longest \in Nodes
    /\ Len(chain[Longest]) \in Nat \ {0}
    /\ \A m \in Nodes : Len(chain[m]) \in Nat /\ Len(chain[Longest]) >= Len(chain[m])
    /\ Settled \in Seq(Digests)
    /\ Len(Settled) = Len(chain[Longest]) - 1
    /\ \A i \in 1..Len(chain[Longest]) - 1 : Settled[i] = chain[Longest][i].hash

LEMMA RecordViewed == RecordInv => RecordView
BY LongestFacts, SettledFacts DEF RecordInv, HistoryInv, IntegrityInv, RecordView

(* The hash of a block leads back to the hash of its parent.               *)
LEMMA ParentOfHash ==
    ASSUME NEW b \in Blocks, HashIsValid(b)
    PROVE  Audit!ParentOf(b.hash) = b.prev
<1>1. b.prev \in Digests /\ b.hash = Append(b.prev, <<b.index, b.data>>)
  BY DEF Blocks, HashIsValid, ComputeHash
<1>2. <<b.index, b.data>> \in Nat \X (Payloads \union {GenesisPayload})
  BY DEF Blocks
<1>3. Len(b.hash) - 1 = Len(b.prev) /\ b.prev \in Seq(Nat \X (Payloads \union {GenesisPayload}))
  BY <1>1, <1>2 DEF Digests
<1> QED
  BY <1>1, <1>2, <1>3 DEF Audit!ParentOf

LEMMA RefinementStep ==
    ASSUME Persist, RecordInv, RecordInv', [Next]_vars
    PROVE  Audit!Extend \/ Settled' = Settled
<1>1. RecordView /\ RecordView'
  <2>1. RecordInv => RecordView
    BY RecordViewed
  <2>2. (RecordInv => RecordView)'
    BY RecordViewed, PTL
  <2> QED
    BY <2>1, <2>2
<1>2. TypeOK /\ TypeOK' /\ chain \in [Nodes -> Chains] /\ chain' \in [Nodes -> Chains]
  BY DEF RecordInv, HistoryInv, IntegrityInv, TypeOK
<1>3. CASE chain' = chain
  BY <1>3 DEF Settled, Longest
<1>4. CASE Served
  <2>1. PICK n \in Nodes, b \in Circulating : chain' = [chain EXCEPT ![n] = Append(chain[n], b)]
    BY <1>4 DEF Served
  <2>2. b \in Blocks
    BY <1>2, CirculatingType
  <2>3. /\ chain'[n] = Append(chain[n], b) /\ Len(chain'[n]) = Len(chain[n]) + 1
        /\ \A m \in Nodes : m # n => chain'[m] = chain[m]
    BY <1>2, <2>1, <2>2, AppendChain
  <2>4. PICK l \in Nodes, k \in Nodes : l = Longest /\ k = Longest'
    BY <1>1 DEF RecordView
  <2>5. /\ Len(chain[l]) \in Nat \ {0} /\ Len(chain'[k]) \in Nat \ {0}
        /\ \A m \in Nodes : Len(chain[m]) \in Nat /\ Len(chain[l]) >= Len(chain[m])
        /\ \A m \in Nodes : Len(chain'[m]) \in Nat /\ Len(chain'[k]) >= Len(chain'[m])
        /\ Settled \in Seq(Digests) /\ Settled' \in Seq(Digests)
        /\ Len(Settled) = Len(chain[l]) - 1 /\ Len(Settled') = Len(chain'[k]) - 1
        /\ \A i \in 1..Len(chain[l]) - 1 : Settled[i] = chain[l][i].hash
        /\ \A i \in 1..Len(chain'[k]) - 1 : Settled'[i] = chain'[k][i].hash
    BY <1>1, <2>4 DEF RecordView
  <2>6. Len(chain'[l]) >= Len(chain[l]) /\ \A i \in 1..Len(chain[l]) : chain'[l][i] = chain[l][i]
    BY <1>2, ChainsGrow
  <2>7. \A i \in 1..Len(Settled) : Settled'[i] = Settled[i]
    <3> SUFFICES ASSUME NEW i \in 1..Len(Settled) PROVE Settled'[i] = Settled[i]
      OBVIOUS
    <3>1. /\ i \in 1..Len(chain[l]) /\ i \in 1..Len(chain[l]) - 1
          /\ i \in 1..Len(chain'[k]) - 1 /\ i < Len(chain'[l])
      BY <2>5, <2>6
    <3>2. chain'[k][i].hash = chain'[l][i].hash
      BY <3>1 DEF RecordInv, ForkOnlyAtTip
    <3> QED
      BY <2>5, <2>6, <3>1, <3>2
  <2>8. CASE Len(chain[n]) < Len(chain[l])
    <3>1. Len(chain'[k]) <= Len(chain[l])
      BY <2>3, <2>5, <2>8
    <3>2. Len(Settled') = Len(Settled)
      BY <2>5, <2>6, <3>1
    <3> QED
      BY <2>5, <2>7, <3>2
  <2>9. CASE Len(chain[n]) = Len(chain[l])
    <3>1. Len(chain'[k]) = Len(chain[l]) + 1
      BY <2>3, <2>5, <2>9
    <3>2. Len(Settled') = Len(Settled) + 1 /\ Len(Settled) \in Nat /\ Len(Settled') = Len(chain[l])
      BY <2>5, <3>1
    <3>3. SubSeq(Settled', 1, Len(Settled)) = Settled
      BY <2>5, <2>7, <3>2
    <3> DEFINE j == Len(Settled')
               top == chain'[k][j]
    <3>4. j \in 1..Len(chain'[k]) - 1 /\ j \in 1..Len(chain'[k])
      BY <2>5, <3>1, <3>2
    <3>5. Settled'[j] = top.hash /\ top \in Blocks
      BY <1>2, <2>5, <3>4 DEF Chains
    <3>6. j \in Nat \ {0} /\ Len(Settled) = j - 1 /\ Len(chain'[k]) = j + 1
      BY <2>5, <3>1, <3>2
    <3>7. Audit!ParentOf(Settled'[j]) = IF Settled = <<>> THEN <<>> ELSE Settled[Len(Settled)]
      <4>1. CASE j = 1
        <5>0. Settled \in Seq(Digests) /\ Len(Settled) = 0
          BY <2>5, <3>6, <4>1
        <5>1. Settled = <<>> /\ top = Genesis
          <6>1. Settled = <<>>
            BY <5>0
          <6>2. chain'[k][1] = Genesis
            BY DEF RecordInv, GenesisFirst
          <6> QED
            BY <4>1, <6>1, <6>2
        <5>2. HashIsValid(Genesis) /\ Genesis.prev = <<>>
          BY DEF Genesis, NewBlock, HashIsValid
        <5> QED
          BY <3>5, <5>1, <5>2, ParentOfHash
      <4>2. CASE j # 1
        <5>1. j \in 2..Len(chain'[k]) /\ Settled # <<>> /\ j - 1 = Len(Settled) /\ j - 1 \in 1..Len(chain'[k]) - 1
          <6>1. j \in 2..Len(chain'[k]) /\ j - 1 = Len(Settled) /\ j - 1 \in 1..Len(chain'[k]) - 1
            <7> HIDE DEF j
            <7> QED
              BY <3>6, <4>2
          <6>2. Settled # <<>>
            <7> HIDE DEF j
            <7>1. Len(Settled) # 0
              BY <3>6, <4>2
            <7> QED
              BY <7>1
          <6> QED
            BY <6>1, <6>2
        <5>2. HashIsValid(top) /\ top.prev = chain'[k][j - 1].hash
          BY <5>1 DEF RecordInv, HistoryInv, IntegrityInv, IntegrityHolds, VerifyFullChain
        <5>3. chain'[k][j - 1].hash = Settled[Len(Settled)]
          <6>1. Settled'[j - 1] = chain'[k][j - 1].hash /\ j - 1 \in 1..Len(Settled)
            BY <2>5, <3>6, <5>1
          <6> QED
            BY <2>7, <5>1, <6>1
        <5> QED
          BY <3>5, <5>1, <5>2, <5>3, ParentOfHash
      <4> QED
        BY <4>1, <4>2
    <3> QED
      BY <3>2, <3>3, <3>7 DEF Audit!Extend, Audit!Linked
  <2> QED
    BY <2>5, <2>8, <2>9
<1> QED
  BY <1>2, <1>3, <1>4, ChainStep DEF Emptied

LEMMA RefinementInit == Init => Audit!Init
<1> SUFFICES ASSUME Init PROVE Settled = <<>>
  BY DEF Audit!Init
<1>1. TypeOK /\ HasLongest
  BY TypeInit, RecordInit
<1>2. Settled \in Seq(Digests) /\ Len(Settled) = Len(chain[Longest]) - 1 /\ Longest \in Nodes
  BY <1>1, SettledFacts, LongestFacts
<1>3. Len(chain[Longest]) = 1
  BY <1>2 DEF Init
<1> QED
  BY <1>2, <1>3

(* The three nodes together are one append-only record: forks at the tip,  *)
(* lagging nodes, lost commits and restarts never show in it.              *)
THEOREM NetworkImplementsAuditLog == ASSUME Persist PROVE Spec => ImplementsAuditLog
<1>1. RecordInv /\ RecordInv' /\ [Next]_vars => [Audit!Extend]_Settled
  BY RefinementStep
<1> QED
  BY <1>1, RefinementInit, RecordAlways, PTL DEF Spec, ImplementsAuditLog, Audit!Spec
=============================================================================
