------------------------- MODULE KeyRegistry_proofs -------------------------
(***************************************************************************)
(* For any set of nodes and any number of kills: the types, and that no    *)
(* signature is ever found invalid.                                        *)
(*                                                                         *)
(* The argument: an entry of a node survives a rewriting of the registry   *)
(* because the one process that rewrites it, the holder of the lock, has   *)
(* read it while it held the lock.  So what is to be carried along is the  *)
(* registry together with the copies of the processes about to save one.   *)
(***************************************************************************)
EXTENDS KeyRegistry, TLAPS

(* The entry of node n: in every registry that loads, and in every copy    *)
(* that another node is about to save.                                     *)
Entered(n) ==
    /\ pem[n] \in Keys
    /\ registry # Torn => registry \in Registries /\ registry[n] = pem[n]
    /\ \A p \in Nodes : at[p] \in {"open", "save"} /\ p # n => known[p][n] = pem[n]

(* What a process has of its key file at each place.                       *)
KeyAt(n) ==
    /\ at[n] = "write_key" => pem[n] = Torn
    /\ at[n] = "load_key" => pem[n] # Absent
    /\ at[n] \in {"lock", "read", "open", "save"} => pem[n] \in Keys
    /\ at[n] \in {"unlock", "serving"} => Entered(n)

(* A registry that is torn is being written, or a kill has torn it.        *)
TornByKill == /\ registry = Torn => crashes > 0 \/ \E p \in Nodes : at[p] = "save"
              /\ OnlyKillsTear

RegistryInv ==
    /\ TypeOK
    /\ \A n \in Nodes : KeyAt(n)
    /\ \A s \in signed : Entered(s.node) /\ pem[s.node] = s.key
    /\ NeverMisjudged
    /\ TornByKill

LEMMA InitRegistryInv == Init => RegistryInv
<1> SUFFICES ASSUME Init PROVE RegistryInv
  OBVIOUS
<1> USE RegistryAssumption DEF Init
<1>1. TypeOK
  BY DEF TypeOK, Places, Keys, Registries, Nobody, Unknown, Verdicts
<1>2. (\A n \in Nodes : KeyAt(n)) /\ NeverMisjudged /\ TornByKill
  BY DEF KeyAt, NeverMisjudged, TornByKill, OnlyKillsTear
<1> QED
  BY <1>1, <1>2 DEF RegistryInv

(* The types alone, action by action.                                      *)
LEMMA TypeStep == TypeOK /\ (\A n \in Nodes : KeyAt(n)) /\ [Next]_vars => TypeOK'
<1> SUFFICES ASSUME TypeOK, \A n \in Nodes : KeyAt(n), [Next]_vars PROVE TypeOK'
  OBVIOUS
<1> USE RegistryAssumption
<1> USE DEF TypeOK, Places, Verdicts, Goto
<1>1. ASSUME NEW n \in Nodes, Start(n) PROVE TypeOK'
  BY <1>1 DEF Start
<1>2. ASSUME NEW n \in Nodes, FindKey(n) PROVE TypeOK'
  BY <1>2 DEF FindKey
<1>3. ASSUME NEW n \in Nodes, WriteKey(n) PROVE TypeOK'
  BY <1>3 DEF WriteKey, Keys
<1>4. ASSUME NEW n \in Nodes, LoadKey(n) PROVE TypeOK'
  BY <1>4 DEF LoadKey
<1>5. ASSUME NEW n \in Nodes, Lock(n) PROVE TypeOK'
  BY <1>5 DEF Lock, AcquireLock
<1>6. ASSUME NEW n \in Nodes, Read(n) PROVE TypeOK'
  <2>1. Nobody \in Registries
    BY DEF Nobody, Registries
  <2> QED
    BY <1>6, <2>1 DEF Read
<1>7. ASSUME NEW n \in Nodes, Open(n) PROVE TypeOK'
  BY <1>7 DEF Open
<1>8. ASSUME NEW n \in Nodes, Save(n) PROVE TypeOK'
  <2>1. pem[n] \in Keys /\ known[n] \in Registries
    BY <1>8 DEF Save, KeyAt
  <2>2. registry' \in Registries
    BY <1>8, <2>1 DEF Save, Registries
  <2> QED
    BY <1>8, <2>2 DEF Save
<1>9. ASSUME NEW n \in Nodes, Unlock(n) PROVE TypeOK'
  BY <1>9 DEF Unlock
<1>10. ASSUME NEW n \in Nodes, Crash(n) PROVE TypeOK'
  <2>1. Nobody \in Registries
    BY DEF Nobody, Registries
  <2>2. crashes' \in 0..MaxCrashes
    BY <1>10 DEF Crash
  <2> QED
    BY <1>10, <2>1, <2>2 DEF Crash
<1>11. ASSUME NEW n \in Nodes, Sign(n) PROVE TypeOK'
  BY <1>11 DEF Sign, KeyAt, Entered
<1>12. ASSUME NEW n \in Nodes, NEW s \in signed, Verify(n, s) PROVE TypeOK'
  <2>1. answer' \in [Nodes -> Verdicts]
    BY <1>12 DEF Verify
  <2> QED
    BY <1>12, <2>1 DEF Verify
<1>13. CASE UNCHANGED vars
  BY <1>13 DEF vars
<1> QED
  BY <1>1, <1>2, <1>3, <1>4, <1>5, <1>6, <1>7, <1>8, <1>9, <1>10, <1>11, <1>12, <1>13
  DEF Next, Register

(* The key files: written once, by their node, before it is entered.       *)
LEMMA KeyFileStep ==
    RegistryInv /\ [Next]_vars =>
        \A n \in Nodes : Entered(n) => pem'[n] = pem[n]
<1> SUFFICES ASSUME RegistryInv, [Next]_vars, NEW n \in Nodes, Entered(n)
             PROVE pem'[n] = pem[n]
  OBVIOUS
<1> USE RegistryAssumption DEF RegistryInv, TypeOK, Entered
<1>1. ASSUME NEW p \in Nodes, FindKey(p) PROVE pem'[n] = pem[n]
  BY <1>1 DEF FindKey
<1>2. ASSUME NEW p \in Nodes, WriteKey(p) PROVE pem'[n] = pem[n]
  BY <1>2 DEF WriteKey, KeyAt
<1> QED
  BY <1>1, <1>2 DEF Next, Register, vars, Start, LoadKey, Lock, Read, Open, Save, Unlock,
     Crash, Sign, Verify

(* An entry survives every step: the copy that is saved has been read      *)
(* under the lock, and the lock has one holder.                            *)
LEMMA EnteredStays ==
    RegistryInv /\ [Next]_vars => \A n \in Nodes : Entered(n) => Entered(n)'
<1> SUFFICES ASSUME RegistryInv, [Next]_vars, NEW n \in Nodes, Entered(n)
             PROVE Entered(n)'
  OBVIOUS
<1> USE RegistryAssumption DEF RegistryInv, TypeOK
<1>1. pem'[n] = pem[n]
  BY KeyFileStep
<1>2. ASSUME NEW p \in Nodes, Read(p) PROVE Entered(n)'
  <2>1. CASE registry = Torn
    BY <1>1, <1>2, <2>1 DEF Read, Goto, Entered
  <2>2. CASE registry # Torn
    <3>1. registry \in Registries /\ registry[n] = pem[n] /\ registry # Absent
      BY <2>2 DEF Entered
    <3>2. known' = [known EXCEPT ![p] = registry] /\ at' = [at EXCEPT ![p] = "open"]
      BY <1>2, <2>2, <3>1 DEF Read, Goto
    <3>3. registry' = registry
      BY <1>2 DEF Read
    <3> QED
      BY <1>1, <3>1, <3>2, <3>3 DEF Entered
  <2> QED
    BY <2>1, <2>2
<1>3. ASSUME NEW p \in Nodes, Open(p) PROVE Entered(n)'
  BY <1>1, <1>3 DEF Open, Goto, Entered
<1>4. ASSUME NEW p \in Nodes, Save(p) PROVE Entered(n)'
  <2>1. known[p] \in Registries /\ pem[p] \in Keys
    BY <1>4 DEF Save, KeyAt
  <2>2. registry' = [known[p] EXCEPT ![p] = pem[p]] /\ at' = [at EXCEPT ![p] = "unlock"]
        /\ UNCHANGED known
    BY <1>4 DEF Save, Goto
  <2>3. registry' \in Registries
    BY <2>1, <2>2 DEF Registries
  <2>4. registry'[n] = pem[n]
    BY <1>4, <2>1, <2>2 DEF Save, Entered, Registries
  <2> QED
    BY <1>1, <2>2, <2>3, <2>4 DEF Entered
<1>5. ASSUME NEW p \in Nodes, Crash(p) PROVE Entered(n)'
  BY <1>1, <1>5 DEF Crash, Goto, Entered
<1>6. ASSUME NEW p \in Nodes, \/ Start(p) \/ FindKey(p) \/ WriteKey(p) \/ LoadKey(p)
                              \/ Lock(p) \/ Unlock(p) \/ Sign(p)
                              \/ \E s \in signed : Verify(p, s)
      PROVE Entered(n)'
  <2>1. UNCHANGED <<registry, known>>
    BY <1>6 DEF Start, FindKey, WriteKey, LoadKey, Lock, Unlock, Sign, Verify
  <2>2. \A q \in Nodes : at'[q] \in {"open", "save"} => at[q] \in {"open", "save"}
    BY <1>6 DEF Start, FindKey, WriteKey, LoadKey, Lock, Unlock, Sign, Verify, Goto
  <2> QED
    BY <1>1, <2>1, <2>2 DEF Entered
<1>7. CASE UNCHANGED vars
  BY <1>7 DEF vars, Entered
<1> QED
  BY <1>2, <1>3, <1>4, <1>5, <1>6, <1>7 DEF Next, Register

LEMMA KeyAtStep == RegistryInv /\ [Next]_vars => \A n \in Nodes : KeyAt(n)'
<1> SUFFICES ASSUME RegistryInv, [Next]_vars, NEW n \in Nodes PROVE KeyAt(n)'
  OBVIOUS
<1> USE RegistryAssumption DEF RegistryInv, TypeOK
<1>0. KeyAt(n) /\ (Entered(n) => Entered(n)')
  BY EnteredStays
<1>1. ASSUME NEW p \in Nodes, Save(p) PROVE KeyAt(n)'
  <2>1. CASE p = n
    <3>1. known[n] \in Registries /\ pem[n] \in Keys
      BY <1>1, <2>1 DEF Save, KeyAt
    <3>2. registry' = [known[n] EXCEPT ![n] = pem[n]] /\ at' = [at EXCEPT ![n] = "unlock"]
          /\ UNCHANGED <<known, pem>>
      BY <1>1, <2>1 DEF Save, Goto
    <3>3. registry' \in Registries /\ registry'[n] = pem[n]
      BY <3>1, <3>2 DEF Registries
    <3>4. \A q \in Nodes : q # n => at[q] \notin {"open", "save"}
      BY <1>1, <2>1 DEF Save
    <3> QED
      BY <3>1, <3>2, <3>3, <3>4 DEF KeyAt, Entered
  <2>2. CASE p # n
    BY <1>0, <1>1, <2>2 DEF Save, Goto, KeyAt
  <2> QED
    BY <2>1, <2>2
<1>2. ASSUME NEW p \in Nodes, \/ Start(p) \/ FindKey(p) \/ WriteKey(p) \/ LoadKey(p)
                              \/ Lock(p) \/ Read(p) \/ Open(p) \/ Unlock(p)
                              \/ Crash(p) \/ Sign(p)
                              \/ \E s \in signed : Verify(p, s)
      PROVE KeyAt(n)'
  <2>1. at'[n] = at[n] \/ p = n
    BY <1>2 DEF Start, FindKey, WriteKey, LoadKey, Lock, Read, Open, Unlock, Crash, Sign,
       Verify, Goto
  <2>2. pem'[n] = pem[n] \/ p = n
    BY <1>2 DEF Start, FindKey, WriteKey, LoadKey, Lock, Read, Open, Unlock, Crash, Sign,
       Verify, Goto
  <2>3. CASE p # n
    BY <1>0, <2>1, <2>2, <2>3 DEF KeyAt
  <2>4. CASE p = n
    <3>1. CASE \/ Start(n) \/ Lock(n) \/ Read(n) \/ Open(n) \/ Unlock(n) \/ Crash(n)
               \/ Sign(n) \/ \E s \in signed : Verify(n, s)
      <4>1. CASE Start(n)
        BY <1>0, <4>1 DEF Start, Goto, KeyAt
      <4>2. CASE Lock(n) \/ Read(n) \/ Open(n)
        <5>1. pem'[n] \in Keys
          BY <1>0, <4>2 DEF Lock, AcquireLock, Read, Open, KeyAt
        <5>2. at'[n] \in {"read", "raise", "open", "save"}
          BY <4>2 DEF Lock, Read, Open, Goto
        <5> QED
          BY <5>1, <5>2 DEF KeyAt
      <4>3. CASE Unlock(n)
        <5>1. at[n] = "unlock" => Entered(n)'
          BY <1>0 DEF KeyAt
        <5>2. at'[n] = (IF at[n] = "unlock" THEN "serving" ELSE "down")
          BY <4>3 DEF Unlock, Goto
        <5> QED
          BY <5>1, <5>2 DEF KeyAt
      <4>4. CASE Crash(n)
        BY <4>4 DEF Crash, Goto, KeyAt
      <4>5. CASE Sign(n) \/ \E s \in signed : Verify(n, s)
        BY <1>0, <4>5 DEF Sign, Verify, KeyAt
      <4> QED
        BY <3>1, <4>1, <4>2, <4>3, <4>4, <4>5
    <3>2. CASE FindKey(n)
      BY <1>0, <3>2 DEF FindKey, Goto, KeyAt
    <3>3. CASE WriteKey(n)
      BY <1>0, <3>3 DEF WriteKey, Goto, KeyAt, Keys
    <3>4. CASE LoadKey(n)
      BY <1>0, <3>4 DEF LoadKey, Goto, KeyAt
    <3> QED
      BY <1>2, <2>4, <3>1, <3>2, <3>3, <3>4
  <2> QED
    BY <2>3, <2>4
<1>3. CASE UNCHANGED vars
  BY <1>0, <1>3 DEF vars, KeyAt
<1> QED
  BY <1>1, <1>2, <1>3 DEF Next, Register

LEMMA SignedStep ==
    RegistryInv /\ [Next]_vars => (\A s \in signed : Entered(s.node) /\ pem[s.node] = s.key)'
<1> SUFFICES ASSUME RegistryInv, [Next]_vars, NEW s \in signed'
             PROVE (Entered(s.node) /\ pem[s.node] = s.key)'
  OBVIOUS
<1> USE RegistryAssumption DEF RegistryInv, TypeOK
<1>1. CASE s \in signed
  BY <1>1, EnteredStays, KeyFileStep
<1>2. CASE s \notin signed
  <2>1. PICK n \in Nodes : Sign(n)
    BY <1>2 DEF Next, Register, vars, Start, FindKey, WriteKey, LoadKey, Lock, Read, Open,
       Save, Unlock, Crash, Verify
  <2>2. s = [node |-> n, key |-> pem[n]]
    BY <1>2, <2>1 DEF Sign
  <2>3. Entered(n)
    BY <2>1 DEF Sign, KeyAt
  <2> QED
    BY <2>2, <2>3, EnteredStays, KeyFileStep
<1> QED
  BY <1>1, <1>2

LEMMA JudgedStep == RegistryInv /\ [Next]_vars => NeverMisjudged'
<1> SUFFICES ASSUME RegistryInv, [Next]_vars PROVE NeverMisjudged'
  OBVIOUS
<1> USE RegistryAssumption DEF RegistryInv, TypeOK, NeverMisjudged
<1>1. ASSUME NEW n \in Nodes, NEW s \in signed, Verify(n, s) PROVE NeverMisjudged'
  <2>1. registry # Torn => registry # Absent /\ registry[s.node] = s.key
    BY DEF Entered
  <2>2. answer'[n] # "false"
    BY <1>1, <2>1 DEF Verify
  <2>3. \A m \in Nodes : m # n => answer'[m] = answer[m]
    BY <1>1 DEF Verify
  <2> QED
    BY <2>2, <2>3
<1>2. ASSUME NEW n \in Nodes, Crash(n) PROVE NeverMisjudged'
  BY <1>2 DEF Crash
<1> QED
  BY <1>1, <1>2 DEF Next, Register, vars, Start, FindKey, WriteKey, LoadKey, Lock, Read, Open,
     Save, Unlock, Sign

LEMMA TornStep == RegistryInv /\ [Next]_vars => TornByKill'
<1> SUFFICES ASSUME RegistryInv, [Next]_vars PROVE TornByKill'
  OBVIOUS
<1> USE RegistryAssumption DEF RegistryInv, TypeOK, TornByKill, OnlyKillsTear
<1>1. ASSUME NEW n \in Nodes, Read(n) PROVE TornByKill'
  <2>1. registry = Torn => crashes > 0
    BY <1>1 DEF Read
  <2> QED
    BY <1>1, <2>1 DEF Read, Goto
<1>2. ASSUME NEW n \in Nodes, Open(n) PROVE TornByKill'
  BY <1>2 DEF Open, Goto
<1>3. ASSUME NEW n \in Nodes, Save(n) PROVE TornByKill'
  <2>1. registry' # Torn
    BY <1>3 DEF Save, KeyAt, Registries
  <2> QED
    BY <1>3, <2>1 DEF Save, Goto
<1>4. ASSUME NEW n \in Nodes, Crash(n) PROVE TornByKill'
  <2>1. crashes' > 0
    BY <1>4 DEF Crash
  <2> QED
    BY <2>1
<1>5. ASSUME NEW n \in Nodes, \/ Start(n) \/ FindKey(n) \/ WriteKey(n) \/ LoadKey(n)
                              \/ Lock(n) \/ Unlock(n) \/ Sign(n)
                              \/ \E s \in signed : Verify(n, s)
      PROVE TornByKill'
  <2>1. UNCHANGED <<registry, crashes>>
    BY <1>5 DEF Start, FindKey, WriteKey, LoadKey, Lock, Unlock, Sign, Verify
  <2>2. \A p \in Nodes : /\ at[p] = "save" => at'[p] = "save"
                         /\ at'[p] = "raise" => at[p] = "raise"
    <3>1. CASE Start(n) \/ FindKey(n) \/ WriteKey(n)
      BY <3>1 DEF Start, FindKey, WriteKey, Goto
    <3>2. CASE LoadKey(n) \/ Lock(n)
      BY <3>2 DEF LoadKey, Lock, AcquireLock, Goto
    <3>3. CASE Unlock(n)
      BY <3>3 DEF Unlock, Goto
    <3>4. CASE Sign(n) \/ \E s \in signed : Verify(n, s)
      BY <3>4 DEF Sign, Verify
    <3> QED
      BY <1>5, <3>1, <3>2, <3>3, <3>4
  <2> QED
    BY <2>1, <2>2
<1>6. CASE UNCHANGED vars
  BY <1>6 DEF vars
<1> QED
  BY <1>1, <1>2, <1>3, <1>4, <1>5, <1>6 DEF Next, Register

LEMMA RegistryInvAlways == Spec => []RegistryInv
<1>1. RegistryInv /\ [Next]_vars => RegistryInv'
  BY TypeStep, KeyAtStep, SignedStep, JudgedStep, TornStep DEF RegistryInv
<1> QED
  BY <1>1, InitRegistryInv, PTL DEF Spec

(* Every variable keeps its type, and only the holder of the lock is       *)
(* between lock and unlock in generate_node_keypair.                       *)
THEOREM RegistryTypeCorrect == Spec => []TypeOK
<1>1. RegistryInv => TypeOK
  BY DEF RegistryInv
<1> QED
  BY <1>1, RegistryInvAlways, PTL

(* keys.verify never answers False for a signature that a node has made,   *)
(* although it reads the registry without the lock, and whatever starts,   *)
(* restarts and kills there are.                                           *)
THEOREM SignaturesAreNeverMisjudged == Spec => []NeverMisjudged
<1>1. RegistryInv => NeverMisjudged
  BY DEF RegistryInv
<1> QED
  BY <1>1, RegistryInvAlways, PTL

(* Without a kill, no start of a node fails on a torn registry.            *)
THEOREM StartsFailOnlyAfterKills == Spec => []OnlyKillsTear
<1>1. RegistryInv => OnlyKillsTear
  BY DEF RegistryInv, TornByKill
<1> QED
  BY <1>1, RegistryInvAlways, PTL
=============================================================================
