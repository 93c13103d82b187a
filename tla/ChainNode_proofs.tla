-------------------------- MODULE ChainNode_proofs --------------------------
(***************************************************************************)
(* Theorems about ChainNode, for any nodes, requests, number of kills and  *)
(* number of threads.  The types hold whatever runs at once; the rest      *)
(* holds for a node that persists, and until requests overlap in the ways  *)
(* that the history variables raced and early of ChainNode record.         *)
(***************************************************************************)
EXTENDS ChainNode, TLAPS

-----------------------------------------------------------------------------
(* Types.                                                                  *)

LEMMA GenesisType == Genesis \in Blocks /\ <<Genesis>> \in Chains
BY PayloadAssumption DEF Genesis, NewBlock, ComputeHash, Blocks, Digests, Signatures, Chains

LEMMA IdleType == Idle \in Locals /\ Idle.at = "idle"
BY GenesisType DEF Idle, Locals, Steps

LEMMA TipType ==
    ASSUME NEW c \in Chains
    PROVE  /\ Len(c) \in Nat \ {0}
           /\ Tip(c) = c[Len(c)]
           /\ \A i \in 1..Len(c) : c[i] \in Blocks
BY DEF Chains, Tip

LEMMA AppendChain ==
    ASSUME NEW c \in Chains, NEW b \in Blocks
    PROVE  /\ Append(c, b) \in Chains
           /\ Len(Append(c, b)) = Len(c) + 1
           /\ \A i \in 1..Len(c) : Append(c, b)[i] = c[i]
           /\ Append(c, b)[Len(c) + 1] = b
BY DEF Chains

(* A thread is at work on a block that was posted to this node.            *)
TypeInv == /\ TypeOK
           /\ \A t \in Threads : thread[t].at # "idle" => thread[t].block \in Requests

LEMMA TypeInit == Init => TypeInv
<1> SUFFICES ASSUME Init PROVE TypeInv
  OBVIOUS
<1>1. thread \in [Threads -> Locals] /\ \A t \in Threads : thread[t].at = "idle"
  BY IdleType DEF Init
<1>2. raced \in BOOLEAN /\ early \subseteq signed
  BY DEF Init
<1>3. up \in BOOLEAN /\ thread = [t \in Threads |-> Idle]
  BY DEF Init
<1> QED
  BY <1>1, <1>2, <1>3, GenesisType, ModeAssumption DEF Init, TypeInv, TypeOK

LEMMA TypeStep == TypeInv /\ [Next]_vars => TypeInv'
<1> SUFFICES ASSUME TypeInv, [Next]_vars PROVE TypeInv'
  OBVIOUS
<1> USE DEF TypeInv, TypeOK, history
<1>1. ASSUME NEW t \in Threads, NEW b \in Requests, Receive(t, b)
      PROVE  TypeInv'
  BY <1>1, RequestsAssumption DEF Receive, At, Locals, Steps
<1>2. ASSUME NEW t \in Threads, NEW b \in Requests, Validate(t, b)
      PROVE  TypeInv'
  BY <1>2 DEF Validate
<1>3. ASSUME NEW t \in Threads, CheckRules(t)
      PROVE  TypeInv'
  <2>1. thread' \in [Threads -> Locals] /\ up /\ up'
    BY <1>3, IdleType DEF CheckRules, At, Goto, Reject, Locals, Steps
  <2>2. \A u \in Threads : thread'[u].at # "idle" =>
            thread[u].at # "idle" /\ thread'[u].block = thread[u].block
    BY <1>3, IdleType DEF CheckRules, At, Goto, Reject, Locals, Steps
  <2>3. raced' \in BOOLEAN
    BY <1>3 DEF CheckRules
  <2> QED
    BY <1>3, <2>1, <2>2, <2>3 DEF CheckRules
<1>4. ASSUME NEW t \in Threads, CheckIndex(t)
      PROVE  TypeInv'
  BY <1>4, IdleType DEF CheckIndex, At, Goto, Reject, Locals, Steps
<1>5. ASSUME NEW t \in Threads, AppendBlock(t)
      PROVE  TypeInv'
  <2>1. thread[t].block \in Blocks
    BY DEF Locals
  <2>2. blocks' \in Chains
    BY <1>5, <2>1, AppendChain DEF AppendBlock
  <2> QED
    BY <1>5, <2>2 DEF AppendBlock, At, Goto, Locals, Steps
<1>6. ASSUME NEW t \in Threads, Dump(t)
      PROVE  TypeInv'
  BY <1>6 DEF Dump, At, Locals, Steps
<1>7. ASSUME NEW t \in Threads, OpenFile(t)
      PROVE  TypeInv'
  BY <1>7 DEF OpenFile, At, Goto, Locals, Steps
<1>8. ASSUME NEW t \in Threads, WriteFile(t)
      PROVE  TypeInv'
  BY <1>8 DEF WriteFile, At, Goto, Locals, Steps
<1>9. ASSUME NEW t \in Threads, Reply(t)
      PROVE  TypeInv'
  BY <1>9, IdleType DEF Reply, At, Locals, Steps
<1>10. CASE Crash
  <2>1. \A t \in Threads : thread'[t].at = "idle"
    BY <1>10, IdleType DEF Crash
  <2>2. crashes' \in 0..MaxCrashes /\ thread' \in [Threads -> Locals]
    BY <1>10, IdleType, ModeAssumption DEF Crash
  <2> QED
    BY <1>10, <2>1, <2>2, GenesisType DEF Crash
<1>11. CASE Start
  BY <1>11, GenesisType DEF Start
<1>12. CASE UNCHANGED vars
  BY <1>12 DEF vars
<1> QED
  BY <1>1, <1>2, <1>3, <1>4, <1>5, <1>6, <1>7, <1>8, <1>9, <1>10, <1>11, <1>12
     DEF Next, Commit

(* The variables keep their types, however many requests run at once and   *)
(* wherever the process is killed.                                         *)
THEOREM TypeCorrect == Spec => []TypeOK
<1>1. TypeInv => TypeOK
  BY DEF TypeInv
<1> QED
  BY <1>1, TypeInit, TypeStep, PTL DEF Spec

-----------------------------------------------------------------------------
(* The inductive invariant of a node with a file.                          *)

(* Every block was built on the one below it and sits at its own index.    *)
WellBuilt(c) == /\ VerifyFullChain(c)
                /\ \A i \in 1..Len(c) : c[i].index = i - 1

(* The file is what was last written, or it is being written.              *)
DiskInv == file = Torn \/ file = saved \/ (file = Absent /\ saved = <<Genesis>>)

(* What the node has told its clients, the last written text holds.        *)
PromisesInv ==
    /\ \A b \in acked : Holds(saved, b)
    /\ \A b \in signed \ early : b.index \in 1..Len(saved) /\ saved[b.index].hash = b.prev

(* Before append and after the write the memory is what was written; in    *)
(* between it is one block ahead, and that block passed both tests.        *)
ThreadInv(th) ==
    /\ th.at = "index" => CheckBlockAcceptable(th.block, Tip(saved).hash)
    /\ th.at = "append" => CanAppend(th.block, saved)
    /\ th.at \in {"dump", "open", "write"} =>
           CanAppend(th.block, saved) /\ blocks = Append(saved, th.block)
    /\ th.at \in {"open", "write"} => th.text = blocks
    /\ th.at = "reply" => Holds(saved, th.block)

(* At most one thread is between its check and its written file, and the   *)
(* memory differs from what was written only while that one is ahead.      *)
WorkInv ==
    /\ \A t, u \in Threads : Busy(t) /\ Busy(u) => t = u
    /\ (\A t \in Threads : ~Ahead(t)) => blocks = saved
    /\ file = Torn <=> \E t \in Threads : thread[t].at = "write"
    /\ \A t \in Threads : ThreadInv(thread[t])

SerialInv ==
    /\ WellBuilt(saved)
    /\ DiskInv
    /\ PromisesInv
    /\ IF up THEN WorkInv ELSE blocks = <<Genesis>>

NodeInv == TypeInv /\ (~raced => SerialInv)

LEMMA GenesisWellBuilt == WellBuilt(<<Genesis>>)
BY DEF WellBuilt, VerifyFullChain, Genesis, NewBlock

LEMMA AppendWellBuilt ==
    ASSUME NEW c \in Chains, NEW b \in Blocks, WellBuilt(c), CanAppend(b, c)
    PROVE  WellBuilt(Append(c, b))
<1> DEFINE d == Append(c, b)
<1>1. /\ Len(d) = Len(c) + 1 /\ d[Len(c) + 1] = b
      /\ \A i \in 1..Len(c) : d[i] = c[i]
      /\ Len(c) \in Nat \ {0} /\ Tip(c) = c[Len(c)]
  BY AppendChain, TipType
<1> HIDE DEF d
<1>2. b.index = Len(c) /\ HashIsValid(b) /\ b.prev = c[Len(c)].hash /\ HasMajority(b)
  BY <1>1 DEF CanAppend, CheckBlockAcceptable, WellBuilt
<1>3. VerifyFullChain(d)
  <2>1. SUFFICES ASSUME NEW i \in 2..Len(d)
                 PROVE  /\ HashIsValid(d[i]) /\ d[i].prev = d[i - 1].hash
                        /\ HasMajority(d[i])
    BY DEF VerifyFullChain
  <2>2. CASE i = Len(c) + 1
    BY <1>1, <1>2, <2>2
  <2>3. CASE i # Len(c) + 1
    <3>1. i \in 2..Len(c) /\ d[i] = c[i] /\ d[i - 1] = c[i - 1]
      BY <1>1, <2>1, <2>3
    <3> QED
      BY <3>1 DEF WellBuilt, VerifyFullChain
  <2> QED
    BY <2>2, <2>3
<1>4. \A i \in 1..Len(d) : d[i].index = i - 1
  BY <1>1, <1>2 DEF WellBuilt
<1> QED
  BY <1>3, <1>4 DEF d, WellBuilt

(* A longer chain still holds what it held.                                *)
LEMMA AppendKeepsPromises ==
    ASSUME NEW c \in Chains, NEW b \in Blocks
    PROVE  /\ Holds(Append(c, b), b)
           /\ \A x : Holds(c, x) => Holds(Append(c, b), x)
           /\ \A i \in 1..Len(c) : i \in 1..Len(Append(c, b)) /\ Append(c, b)[i] = c[i]
<1>1. Len(c) \in Nat
  BY TipType
<1> QED
  BY <1>1, AppendChain DEF Holds

(* The block that a node signs names the hash of a block it has.           *)
LEMMA SignedParent ==
    ASSUME NEW c \in Chains, NEW b \in Blocks, WellBuilt(c), CanSign(b, c)
    PROVE  b.index \in 1..Len(c) /\ c[b.index].hash = b.prev
BY TipType DEF WellBuilt, CanSign

(* What has overlapped stays so.                                           *)
LEMMA HistoryStep ==
    ASSUME TypeInv, [Next]_vars
    PROVE  (~raced' => ~raced) /\ early \subseteq early'
<1>1. ASSUME NEW t \in Threads, CheckRules(t)
      PROVE  (~raced' => ~raced) /\ early' = early
  BY <1>1 DEF CheckRules
<1>2. ASSUME NEW t \in Threads, NEW b \in Requests, Validate(t, b)
      PROVE  raced' = raced /\ early \subseteq early'
  BY <1>2 DEF Validate
<1>3. ASSUME NEW t \in Threads, WriteFile(t)
      PROVE  raced' = raced /\ early' = early
  BY <1>3 DEF WriteFile
<1>4. \/ \E t \in Threads : CheckRules(t) \/ WriteFile(t)
      \/ \E t \in Threads : \E b \in Requests : Validate(t, b)
      \/ UNCHANGED history
  BY DEF Next, Commit, vars, Receive, CheckIndex, AppendBlock, Dump, OpenFile, Reply,
     Crash, Start
<1> QED
  BY <1>1, <1>2, <1>3, <1>4 DEF history

LEMMA NodeInit == Init => NodeInv
<1> SUFFICES ASSUME Init PROVE NodeInv
  OBVIOUS
<1>1. \A t \in Threads : thread[t].at = "idle"
  BY IdleType DEF Init
<1>2. TypeInv /\ WellBuilt(saved) /\ DiskInv /\ PromisesInv
  BY TypeInit, GenesisWellBuilt DEF Init, DiskInv, PromisesInv
<1>3. WorkInv
  BY <1>1, FileAssumption, GenesisType DEF Init, WorkInv, ThreadInv, Busy, Ahead
<1> QED
  BY <1>2, <1>3 DEF Init, NodeInv, SerialInv

(* A thread moves on and the shared things stay as they are.               *)
LEMMA Moved ==
    ASSUME WorkInv, NEW t \in Threads,
           \A u \in Threads \ {t} : thread'[u] = thread[u],
           UNCHANGED <<blocks, saved, file>>,
           Ahead(t)' <=> Ahead(t),
           thread[t].at # "write", thread'[t].at # "write",
           Busy(t)' => \A u \in Threads \ {t} : ~Busy(u),
           ThreadInv(thread[t])'
    PROVE  WorkInv'
<1>1. \A u \in Threads \ {t} : (Busy(u)' <=> Busy(u)) /\ (Ahead(u)' <=> Ahead(u))
  BY DEF Busy, Ahead
<1>2. \A v, u \in Threads : Busy(v)' /\ Busy(u)' => v = u
  BY <1>1 DEF WorkInv
<1>3. (\A u \in Threads : ~Ahead(u)') => blocks' = saved'
  BY <1>1 DEF WorkInv
<1>4. file' = Torn <=> \E u \in Threads : thread'[u].at = "write"
  BY DEF WorkInv
<1>5. \A u \in Threads : ThreadInv(thread[u])'
  <2>1. SUFFICES ASSUME NEW u \in Threads \ {t} PROVE ThreadInv(thread[u])'
    OBVIOUS
  <2>2. ThreadInv(thread[u]) /\ thread'[u] = thread[u]
    BY <2>1 DEF WorkInv
  <2> QED
    BY <2>2 DEF ThreadInv, Holds
<1> QED
  BY <1>2, <1>3, <1>4, <1>5 DEF WorkInv

(* Steps that leave the disk and the promises as they are.                 *)
LEMMA SameDisk ==
    ASSUME SerialInv, TypeInv', UNCHANGED <<file, saved, acked, signed, early>>
    PROVE  (IF up THEN WorkInv ELSE blocks = <<Genesis>>)' => NodeInv'
<1>1. WellBuilt(saved)' /\ DiskInv' /\ PromisesInv'
  BY DEF SerialInv, DiskInv, PromisesInv, WellBuilt, VerifyFullChain, HasMajority,
         ValidSigners, HashIsValid, Holds
<1> QED
  BY <1>1 DEF NodeInv, SerialInv

LEMMA NodeStep ==
    ASSUME Persist
    PROVE  NodeInv /\ [Next]_vars => NodeInv'
<1> SUFFICES ASSUME NodeInv, [Next]_vars PROVE NodeInv'
  OBVIOUS
<1>1. TypeInv /\ TypeInv'
  BY TypeStep DEF NodeInv
<1> SUFFICES ASSUME ~raced' PROVE NodeInv'
  BY <1>1 DEF NodeInv
<1>2. ~raced /\ SerialInv
  BY <1>1, HistoryStep DEF NodeInv
<1>3. /\ thread \in [Threads -> Locals] /\ saved \in Chains /\ blocks \in Chains
      /\ \A t \in Threads : thread[t] \in Locals /\ thread[t].block \in Blocks
  BY <1>1 DEF TypeInv, TypeOK, Locals
<1>4. up => WorkInv
  BY <1>2 DEF SerialInv
<1>5. ASSUME NEW t \in Threads, NEW b \in Requests, Receive(t, b)
      PROVE  NodeInv'
  <2>1. /\ thread[t].at = "idle" /\ thread'[t].at = "check"
        /\ \A u \in Threads \ {t} : thread'[u] = thread[u]
    BY <1>3, <1>5 DEF Receive, At
  <2>2. WorkInv'
    BY <1>4, <1>5, <2>1, Moved DEF Receive, At, Ahead, Busy, ThreadInv, history
  <2> QED
    BY <1>1, <1>2, <1>5, <2>2, SameDisk DEF Receive, At, history
<1>6. ASSUME NEW t \in Threads, NEW b \in Requests, Validate(t, b)
      PROVE  NodeInv'
  <2>1. up /\ up' /\ WorkInv /\ UNCHANGED <<blocks, saved, file, thread, acked>>
    BY <1>4, <1>6 DEF Validate, At, history
  <2>2. ASSUME b \notin early'
        PROVE  b.index \in 1..Len(saved) /\ saved[b.index].hash = b.prev
    <3>1. \A u \in Threads : ~Ahead(u)
      BY <1>6, <2>2 DEF Validate
    <3>2. CanSign(b, saved)
      BY <1>6, <2>1, <3>1 DEF Validate, WorkInv
    <3> QED
      BY <1>2, <1>3, <3>2, RequestsAssumption, SignedParent DEF SerialInv
  <2>3. signed' \ early' \subseteq (signed \ early) \union ({b} \ early')
    BY <1>6 DEF Validate
  <2>4. PromisesInv'
    BY <1>2, <2>1, <2>2, <2>3 DEF SerialInv, PromisesInv, Holds
  <2>5. DiskInv' /\ WellBuilt(saved)' /\ WorkInv'
    BY <1>2, <2>1 DEF SerialInv, DiskInv, WorkInv, ThreadInv, Busy, Ahead, Holds
  <2> QED
    BY <1>1, <2>1, <2>4, <2>5 DEF NodeInv, SerialInv
<1>7. ASSUME NEW t \in Threads, CheckRules(t)
      PROVE  NodeInv'
  <2>1. /\ thread[t].at = "check" /\ up /\ up' /\ WorkInv
        /\ UNCHANGED <<blocks, saved, file, acked, signed, early>>
    BY <1>4, <1>7 DEF CheckRules, At
  <2>2. \A u \in Threads \ {t} : thread'[u] = thread[u]
    BY <1>3, <1>7 DEF CheckRules, Goto, Reject
  <2>3. CASE CheckBlockAcceptable(thread[t].block, Tip(blocks).hash)
    <3>1. /\ thread'[t].at = "index" /\ thread'[t].block = thread[t].block
          /\ \A u \in Threads \ {t} : ~Busy(u)
      BY <1>3, <1>7, <2>3 DEF CheckRules, Goto, Locals
    <3>2. \A u \in Threads : ~Ahead(u)
      BY <2>1, <3>1 DEF Ahead, Busy
    <3>3. blocks = saved
      BY <2>1, <3>2 DEF WorkInv
    <3>4. ThreadInv(thread[t])'
      BY <2>1, <2>3, <3>1, <3>3 DEF ThreadInv
    <3> QED
      BY <2>1, <2>2, <3>1, <3>4, <1>1, <1>2, Moved, SameDisk DEF Ahead, Busy
  <2>4. CASE ~CheckBlockAcceptable(thread[t].block, Tip(blocks).hash)
    <3>1. thread'[t].at = "idle"
      BY <1>3, <1>7, <2>4, IdleType DEF CheckRules, Reject
    <3> QED
      BY <2>1, <2>2, <3>1, <1>1, <1>2, Moved, SameDisk DEF Ahead, Busy, ThreadInv
  <2> QED
    BY <2>3, <2>4
<1>8. ASSUME NEW t \in Threads, CheckIndex(t)
      PROVE  NodeInv'
  <2>1. /\ thread[t].at = "index" /\ up /\ up' /\ WorkInv
        /\ UNCHANGED <<blocks, saved, file, acked, signed, early>>
    BY <1>4, <1>8 DEF CheckIndex, At, history
  <2>2. /\ \A u \in Threads \ {t} : thread'[u] = thread[u] /\ ~Busy(u)
        /\ blocks = saved /\ CheckBlockAcceptable(thread[t].block, Tip(saved).hash)
    <3>1. \A u \in Threads \ {t} : thread'[u] = thread[u]
      BY <1>3, <1>8 DEF CheckIndex, Goto, Reject
    <3>2. \A u \in Threads \ {t} : ~Busy(u)
      BY <2>1 DEF WorkInv, Busy
    <3>3. \A u \in Threads : ~Ahead(u)
      BY <2>1, <3>2 DEF Ahead, Busy
    <3> QED
      BY <2>1, <3>1, <3>2, <3>3 DEF WorkInv, ThreadInv
  <2>3. \/ /\ CanAppend(thread[t].block, saved)
           /\ thread'[t].at = "append" /\ thread'[t].block = thread[t].block
        \/ thread'[t].at = "idle"
    BY <1>3, <1>8, <2>2, IdleType DEF CheckIndex, Goto, Reject, Locals, CanAppend
  <2>4. ThreadInv(thread[t])'
    BY <2>1, <2>3 DEF ThreadInv, CanAppend, CheckBlockAcceptable
  <2>5. WorkInv'
    BY <2>1, <2>2, <2>3, <2>4, Moved DEF Ahead, Busy
  <2> QED
    BY <1>1, <1>2, <2>1, <2>5, SameDisk
<1>9. ASSUME NEW t \in Threads, AppendBlock(t)
      PROVE  NodeInv'
  <2>1. /\ thread[t].at = "append" /\ up /\ up' /\ WorkInv
        /\ UNCHANGED <<saved, file, acked, signed, early>>
    BY <1>4, <1>9 DEF AppendBlock, At, history
  <2>2. /\ \A u \in Threads \ {t} : thread'[u] = thread[u] /\ ~Busy(u)
        /\ thread'[t].at = "dump" /\ thread'[t].block = thread[t].block
        /\ CanAppend(thread[t].block, saved)
    BY <1>3, <1>9, <2>1 DEF AppendBlock, Goto, Locals, WorkInv, Busy, ThreadInv
  <2>3. \A u \in Threads : ~Ahead(u)
    BY <2>1, <2>2 DEF Ahead, Busy
  <2>4. blocks' = Append(saved, thread[t].block)
    BY <1>9, <2>1, <2>3 DEF AppendBlock, WorkInv
  <2>5. ThreadInv(thread[t])'
    BY <2>1, <2>2, <2>4 DEF ThreadInv
  <2>6. \A u \in Threads : ThreadInv(thread[u])'
    <3>1. SUFFICES ASSUME NEW u \in Threads \ {t} PROVE ThreadInv(thread[u])'
      BY <2>5
    <3>2. ThreadInv(thread[u]) /\ ~Busy(u) /\ thread'[u] = thread[u]
      BY <2>1, <2>2 DEF WorkInv
    <3> QED
      BY <2>1, <3>2 DEF ThreadInv, Busy, Holds
  <2>7. WorkInv'
    BY <2>1, <2>2, <2>6 DEF WorkInv, Ahead, Busy
  <2> QED
    BY <1>1, <1>2, <2>1, <2>7, SameDisk
<1>10. ASSUME NEW t \in Threads, Dump(t)
       PROVE  NodeInv'
  <2>1. /\ thread[t].at = "dump" /\ up /\ up' /\ WorkInv
        /\ UNCHANGED <<blocks, saved, file, acked, signed, early>>
    BY <1>4, <1>10 DEF Dump, At, history
  <2>2. /\ \A u \in Threads \ {t} : thread'[u] = thread[u] /\ ~Busy(u)
        /\ thread'[t].at = "open" /\ thread'[t].block = thread[t].block
        /\ thread'[t].text = blocks
    BY <1>3, <1>10, <2>1 DEF Dump, Locals, WorkInv, Busy
  <2>3. ThreadInv(thread[t])'
    BY <2>1, <2>2 DEF WorkInv, ThreadInv
  <2>4. WorkInv'
    BY <2>1, <2>2, <2>3, Moved DEF Ahead, Busy
  <2> QED
    BY <1>1, <1>2, <2>1, <2>4, SameDisk
<1>11. ASSUME NEW t \in Threads, OpenFile(t)
       PROVE  NodeInv'
  <2>1. /\ thread[t].at = "open" /\ up /\ up' /\ WorkInv /\ file' = Torn
        /\ UNCHANGED <<blocks, saved, acked, signed, early>>
    BY <1>4, <1>11 DEF OpenFile, At, history
  <2>2. /\ \A u \in Threads \ {t} : thread'[u] = thread[u] /\ ~Busy(u)
        /\ thread'[t].at = "write" /\ thread'[t].block = thread[t].block
        /\ thread'[t].text = thread[t].text
    BY <1>3, <1>11, <2>1 DEF OpenFile, Goto, Locals, WorkInv, Busy
  <2>3. ThreadInv(thread[t])'
    BY <2>1, <2>2 DEF WorkInv, ThreadInv
  <2>4. \A u \in Threads : ThreadInv(thread[u])'
    <3>1. SUFFICES ASSUME NEW u \in Threads \ {t} PROVE ThreadInv(thread[u])'
      BY <2>3
    <3>2. ThreadInv(thread[u]) /\ ~Busy(u) /\ thread'[u] = thread[u]
      BY <2>1, <2>2 DEF WorkInv
    <3> QED
      BY <2>1, <3>2 DEF ThreadInv, Busy, Holds
  <2>5. WorkInv'
    BY <2>1, <2>2, <2>4 DEF WorkInv, Ahead, Busy
  <2>6. DiskInv' /\ PromisesInv' /\ WellBuilt(saved)'
    BY <1>2, <2>1 DEF SerialInv, DiskInv, PromisesInv, Holds
  <2> QED
    BY <1>1, <2>1, <2>5, <2>6 DEF NodeInv, SerialInv
<1>12. ASSUME NEW t \in Threads, WriteFile(t)
       PROVE  NodeInv'
  <2>1. /\ thread[t].at = "write" /\ up /\ up' /\ WorkInv /\ file = Torn
        /\ UNCHANGED <<blocks, acked, signed, early>>
    BY <1>4, <1>12 DEF WriteFile, At, WorkInv
  <2>2. /\ thread[t].text = blocks /\ blocks = Append(saved, thread[t].block)
        /\ CanAppend(thread[t].block, saved) /\ saved' = blocks /\ file' = blocks
    BY <1>12, <2>1 DEF WorkInv, ThreadInv, WriteFile
  <2>3. /\ \A u \in Threads \ {t} : thread'[u] = thread[u] /\ ~Busy(u)
        /\ thread'[t].at = "reply" /\ thread'[t].block = thread[t].block
    BY <1>3, <1>12, <2>1 DEF WriteFile, Goto, Locals, WorkInv, Busy
  <2>4. WellBuilt(saved')
    BY <1>2, <1>3, <2>2, AppendWellBuilt DEF SerialInv
  <2>5. /\ Holds(saved', thread[t].block)
        /\ \A x : Holds(saved, x) => Holds(saved', x)
        /\ \A i \in 1..Len(saved) : i \in 1..Len(saved') /\ saved'[i] = saved[i]
    BY <1>3, <2>2, AppendKeepsPromises
  <2>6. PromisesInv'
    BY <1>2, <2>1, <2>5 DEF SerialInv, PromisesInv
  <2>7. \A u \in Threads : ThreadInv(thread[u])'
    <3>1. ThreadInv(thread[t])'
      BY <2>3, <2>5 DEF ThreadInv
    <3>2. ASSUME NEW u \in Threads \ {t} PROVE ThreadInv(thread[u])'
      <4>1. ThreadInv(thread[u]) /\ ~Busy(u) /\ thread'[u] = thread[u]
        BY <2>1, <2>3 DEF WorkInv
      <4> QED
        BY <2>5, <4>1 DEF ThreadInv, Busy
    <3> QED
      BY <3>1, <3>2
  <2>8. file' # Torn
    BY <1>3, <2>2, FileAssumption
  <2>9. WorkInv' /\ DiskInv'
    BY <2>1, <2>2, <2>3, <2>7, <2>8 DEF WorkInv, DiskInv, Ahead, Busy
  <2> QED
    BY <1>1, <2>1, <2>4, <2>6, <2>9 DEF NodeInv, SerialInv
<1>13. ASSUME NEW t \in Threads, Reply(t)
       PROVE  NodeInv'
  <2>1. /\ thread[t].at = "reply" /\ up /\ up' /\ WorkInv
        /\ UNCHANGED <<blocks, saved, file, signed, early>>
        /\ acked' = acked \union {thread[t].block}
    BY <1>4, <1>13 DEF Reply, At, history
  <2>2. /\ \A u \in Threads \ {t} : thread'[u] = thread[u]
        /\ thread'[t].at = "idle"
    BY <1>3, <1>13, IdleType DEF Reply
  <2>3. Holds(saved, thread[t].block)
    BY <2>1 DEF WorkInv, ThreadInv
  <2>4. WorkInv'
    BY <2>1, <2>2, Moved DEF Ahead, Busy, ThreadInv
  <2>5. DiskInv' /\ PromisesInv' /\ WellBuilt(saved)'
    BY <1>2, <2>1, <2>3 DEF SerialInv, DiskInv, PromisesInv, Holds
  <2> QED
    BY <1>1, <2>1, <2>4, <2>5 DEF NodeInv, SerialInv
<1>14. CASE Crash
  BY <1>1, <1>2, <1>14, SameDisk DEF Crash, history
<1>15. CASE Start
  <2>1. /\ up' /\ file # Torn /\ thread' = thread /\ blocks' = saved
        /\ UNCHANGED <<saved, file, acked, signed, early>>
        /\ \A t \in Threads : thread[t].at = "idle"
    BY <1>1, <1>2, <1>3, <1>15, IdleType, FileAssumption
       DEF Start, SerialInv, DiskInv, TypeInv, TypeOK, history
  <2>2. WorkInv'
    BY <2>1 DEF WorkInv, ThreadInv, Busy, Ahead
  <2> QED
    BY <1>1, <1>2, <2>1, <2>2, SameDisk
<1>16. CASE UNCHANGED vars
  <2>1. (IF up THEN WorkInv ELSE blocks = <<Genesis>>)'
    BY <1>2, <1>16 DEF vars, history, SerialInv, WorkInv, ThreadInv, Busy, Ahead, Holds
  <2> QED
    BY <1>1, <1>2, <1>16, <2>1, SameDisk DEF vars, history
<1> QED
  BY <1>5, <1>6, <1>7, <1>8, <1>9, <1>10, <1>11, <1>12, <1>13, <1>14, <1>15, <1>16
     DEF Next, Commit

LEMMA NodeInvariant ==
    ASSUME Persist
    PROVE  Spec => []NodeInv
BY NodeInit, NodeStep, PTL DEF Spec

-----------------------------------------------------------------------------
(* What the invariant is for.                                              *)

LEMMA LoadableIsSaved ==
    ASSUME NodeInv, ~raced, Loadable
    PROVE  Durable = saved
BY FileAssumption, GenesisType DEF NodeInv, SerialInv, DiskInv, Loadable, Durable,
   TypeInv, TypeOK

(* A block in memory that is not written yet passed the tests as well, so  *)
(* the node never holds a chain its own /verify_integrity would refuse.    *)
LEMMA MemoryWellBuilt ==
    ASSUME NodeInv, ~raced
    PROVE  WellBuilt(blocks)
<1>1. SerialInv /\ saved \in Chains /\ \A t \in Threads : thread[t].block \in Blocks
  BY DEF NodeInv, TypeInv, TypeOK, Locals
<1>2. CASE ~up
  BY <1>1, <1>2, GenesisWellBuilt DEF SerialInv
<1>3. CASE up /\ blocks = saved
  BY <1>1, <1>3 DEF SerialInv
<1>4. CASE up /\ blocks # saved
  <2>1. PICK t \in Threads : Ahead(t)
    BY <1>1, <1>4 DEF SerialInv, WorkInv
  <2>2. CanAppend(thread[t].block, saved) /\ blocks = Append(saved, thread[t].block)
    BY <1>1, <1>4, <2>1 DEF SerialInv, WorkInv, ThreadInv, Ahead
  <2> QED
    BY <1>1, <2>1, <2>2, AppendWellBuilt DEF SerialInv
<1> QED
  BY <1>2, <1>3, <1>4

(* With any number of threads, /verify_integrity succeeds, and does after  *)
(* every restart, until two commits have overlapped.                       *)
THEOREM IntegrityCorrect ==
    ASSUME Persist
    PROVE  Spec => []IntegrityHolds
<1>1. NodeInv => IntegrityHolds
  BY LoadableIsSaved, MemoryWellBuilt DEF NodeInv, SerialInv, IntegrityHolds, WellBuilt
<1> QED
  BY <1>1, NodeInvariant, PTL

(* A block the node answered "committed" for is in every file that a       *)
(* restart can load, wherever the kill before it fell and whatever the     *)
(* other threads served, until two commits have overlapped.                *)
THEOREM AckedCorrect ==
    ASSUME Persist
    PROVE  Spec => []AckedSurvive
<1>1. NodeInv => AckedSurvive
  BY LoadableIsSaved DEF NodeInv, SerialInv, PromisesInv, AckedSurvive
<1> QED
  BY <1>1, NodeInvariant, PTL

(* The parent of a block the node signed is still there after a kill, but  *)
(* for the votes that were given while it was not written yet.             *)
THEOREM VotesCorrect ==
    ASSUME Persist
    PROVE  Spec => []VotesSurvive
<1>1. NodeInv => VotesSurvive
  BY LoadableIsSaved DEF NodeInv, SerialInv, PromisesInv, VotesSurvive
<1> QED
  BY <1>1, NodeInvariant, PTL

-----------------------------------------------------------------------------
(* The node implements DurableNode.                                        *)

LEMMA NodeSteps ==
    ASSUME Persist, NodeInv, [Next]_vars, ~Overlapped'
    PROVE  [Node!Next]_(Node!vars)
<1>1. ~raced /\ ~raced' /\ early' = {}
  BY HistoryStep DEF Overlapped, NodeInv
<1>2. /\ TypeInv /\ (up => WorkInv)
      /\ \A t \in Threads : thread[t] \in Locals /\ thread[t].block \in Blocks
  BY <1>1 DEF NodeInv, SerialInv, TypeInv, TypeOK, Locals
<1>3. ASSUME NEW t \in Threads, NEW b \in Requests, Validate(t, b)
      PROVE  Node!Next
  <2>1. \A u \in Threads : ~Ahead(u)
    BY <1>1, <1>3 DEF Validate
  <2>2. blocks = saved
    BY <1>2, <1>3, <2>1 DEF Validate, At, WorkInv
  <2>3. Node!Vote(b)
    BY <1>3, <2>2 DEF Validate, At, history, Node!Vote
  <2> QED
    BY <2>3 DEF Node!Next
<1>4. ASSUME NEW t \in Threads, WriteFile(t)
      PROVE  Node!Next
  <2>1. /\ up /\ CanAppend(thread[t].block, saved)
        /\ saved' = Append(saved, thread[t].block)
        /\ thread[t].block \in Requests
    BY <1>2, <1>4 DEF WriteFile, At, WorkInv, ThreadInv, TypeInv
  <2>2. Node!Serve(thread[t].block)
    BY <1>4, <2>1 DEF WriteFile, Node!Serve
  <2> QED
    BY <2>1, <2>2 DEF Node!Next
<1>5. ASSUME NEW t \in Threads, Reply(t)
      PROVE  Node!Next
  <2>1. up /\ Holds(saved, thread[t].block) /\ thread[t].block \in Requests
    BY <1>2, <1>5 DEF Reply, At, WorkInv, ThreadInv, TypeInv
  <2>2. Node!Answer(thread[t].block)
    BY <1>5, <2>1 DEF Reply, history, Node!Answer, Holds
  <2> QED
    BY <2>1, <2>2 DEF Node!Next
<1>6. CASE Crash
  BY <1>6 DEF Crash, history, Node!Kill, Node!Next
<1>7. CASE Start
  BY <1>7 DEF Start, history, Node!Restart, Node!Next
<1>8. ASSUME NEW t \in Threads, NEW b \in Requests, Receive(t, b)
      PROVE  UNCHANGED Node!vars
  BY <1>8 DEF Receive, history, Node!vars
<1>9. ASSUME NEW t \in Threads,
             CheckRules(t) \/ CheckIndex(t) \/ AppendBlock(t) \/ Dump(t) \/ OpenFile(t)
      PROVE  UNCHANGED Node!vars
  BY <1>9 DEF CheckRules, CheckIndex, AppendBlock, Dump, OpenFile, history, Node!vars
<1>10. CASE UNCHANGED vars
  BY <1>10 DEF vars, history, Node!vars
<1> QED
  BY <1>3, <1>4, <1>5, <1>6, <1>7, <1>8, <1>9, <1>10 DEF Next, Commit

(* Until requests overlap, a node commits atomically and durably, whatever *)
(* its threads do and wherever it is killed: what PoANetwork takes for one *)
(* step is one.                                                            *)
THEOREM NodeImplemented ==
    ASSUME Persist
    PROVE  Spec => ImplementsNode
<1>1. Init => Node!Init
  BY DEF Init, Node!Init
<1>2. NodeInv /\ [Next]_vars => [~Overlapped' => Node!Next]_(Node!vars)
  BY NodeSteps
<1> QED
  BY <1>1, <1>2, NodeInvariant, PTL DEF Spec, ImplementsNode

(* With a single thread no requests overlap.                               *)
LEMMA SerialStep ==
    ASSUME NEW t, Threads = {t}, Persist
    PROVE  NodeInv /\ ~Overlapped /\ [Next]_vars => ~Overlapped'
<1> SUFFICES ASSUME NodeInv, ~Overlapped, [Next]_vars PROVE ~Overlapped'
  OBVIOUS
<1>1. ASSUME NEW b \in Requests, Validate(t, b)
      PROVE  ~Overlapped'
  <2>1. ~Ahead(t)
    BY <1>1 DEF Validate, At, Ahead
  <2> QED
    BY <1>1, <2>1 DEF Validate, Overlapped
<1>2. CASE CheckRules(t)
  BY <1>2 DEF CheckRules, Overlapped
<1> QED
  BY <1>1, <1>2 DEF Overlapped, Next, Commit, vars, history, Receive, CheckIndex,
     AppendBlock, Dump, OpenFile, WriteFile, Reply, Crash, Start

(* A node that serves one request at a time, the one of PoANetwork, is a   *)
(* DurableNode without any condition.                                      *)
THEOREM SerialNodeImplemented ==
    ASSUME NEW CONSTANT t, Threads = {t}, Persist
    PROVE  Spec => Node!Spec
<1>1. Init => Node!Init /\ ~Overlapped
  BY DEF Init, Node!Init, Overlapped
<1>2. NodeInv /\ ~Overlapped /\ [Next]_vars => ~Overlapped' /\ [Node!Next]_(Node!vars)
  BY NodeSteps, SerialStep
<1> QED
  BY <1>1, <1>2, NodeInvariant, PTL DEF Spec, Node!Spec
=============================================================================
