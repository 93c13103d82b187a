----------------------------- MODULE KeyRegistry -----------------------------
(***************************************************************************)
(* The signing keys of the nodes: src/blockchain/keys.py as the node       *)
(* processes use it.  On its way up a process makes its key unless it has  *)
(* one, and enters its public key into known_nodes.json, which all nodes   *)
(* share; the read-modify-write is guarded by a file lock.  Later, checking*)
(* a block, it reads known_nodes.json for the signers' keys - without the  *)
(* lock.                                                                   *)
(*                                                                         *)
(* write_text and write_bytes truncate a file and then write it: in between*)
(* it is Torn, and a process killed there leaves it so.                    *)
(*                                                                         *)
(* Assumed: POSIX, where flock waits for as long as it takes (on Windows   *)
(* LK_LOCK gives up after about ten seconds and raises); and that nobody   *)
(* runs two processes of one node at a time, which the code does not       *)
(* prevent: the key is made before the port is bound.                      *)
(***************************************************************************)
EXTENDS Integers, FiniteSets

CONSTANTS
    Nodes,          \* keys.ALL_NODE_IDS
    Absent, Torn,   \* no file; a file that cannot be parsed
    Free,           \* nobody holds the file lock
    MaxCrashes      \* bound: kills in a behaviour

VARIABLES
    at,        \* where the process of each node stands
    pem,       \* the private key file of each node: a number stands for a key
    registry,  \* known_nodes.json
    lock,      \* who holds .known_nodes.lock
    known,     \* the copy of the registry each process has read
    signed,    \* the signatures made so far: by which node, with which key
    answer,    \* what each process last found out about a signature
    crashes    \* kills so far

vars == <<at, pem, registry, lock, known, signed, answer, crashes>>

(* generate_node_keypair line by line, then "serving"; "down" is no        *)
(* process, killed or ended by an exception.                               *)
Places == {"down", "key", "write_key", "load_key", "lock", "read", "open", "save",
           "unlock", "raise", "serving"}

Keys == Nat
Unknown == -1

(* A public key for the nodes that are entered, Unknown for the others.    *)
Registries == [Nodes -> Keys \union {Unknown}]
Nobody == [n \in Nodes |-> Unknown]

ASSUME RegistryAssumption ==
    /\ Absent # Torn /\ {Absent, Torn} \cap (Keys \union Registries) = {}
    /\ Free \notin Nodes
    /\ MaxCrashes \in Nat

Verdicts == {"none", "true", "false", "raised"}

Init ==
    /\ at = [n \in Nodes |-> "down"]
    /\ pem = [n \in Nodes |-> Absent]
    /\ registry = Absent
    /\ lock = Free
    /\ known = [n \in Nodes |-> Nobody]
    /\ signed = {}
    /\ answer = [n \in Nodes |-> "none"]
    /\ crashes = 0

-----------------------------------------------------------------------------
Goto(n, place) == at' = [at EXCEPT ![n] = place]

(* Another process of the node: the one before has ended, by assumption.   *)
Start(n) == /\ at[n] = "down"
            /\ Goto(n, "key")
            /\ UNCHANGED <<pem, registry, lock, known, signed, answer, crashes>>

(* A bug: the key is made anew at each start.                              *)
AlwaysNewKey(n) ==
    /\ at[n] = "key"
    /\ pem' = [pem EXCEPT ![n] = Torn]
    /\ Goto(n, "write_key")
    /\ UNCHANGED <<registry, lock, known, signed, answer, crashes>>

(* priv_path.exists(): an existing file is kept, whatever it holds.        *)
FindKey(n) ==
    /\ at[n] = "key"
    /\ IF pem[n] = Absent THEN pem' = [pem EXCEPT ![n] = Torn] /\ Goto(n, "write_key")
                          ELSE UNCHANGED pem /\ Goto(n, "load_key")
    /\ UNCHANGED <<registry, lock, known, signed, answer, crashes>>

(* A fresh key; a key made after another kill is another key.              *)
WriteKey(n) ==
    /\ at[n] = "write_key"
    /\ pem' = [pem EXCEPT ![n] = crashes]
    /\ Goto(n, "load_key")
    /\ UNCHANGED <<registry, lock, known, signed, answer, crashes>>

LoadKey(n) ==
    /\ at[n] = "load_key"
    /\ Goto(n, IF pem[n] = Torn THEN "down" ELSE "lock")
    /\ UNCHANGED <<pem, registry, lock, known, signed, answer, crashes>>

(* A bug: the lock is not exclusive.                                       *)
SharedLock(n) == at[n] = "lock" /\ lock' = n

(* flock with LOCK_EX.                                                     *)
AcquireLock(n) == at[n] = "lock" /\ lock = Free /\ lock' = n

Lock(n) ==
    /\ AcquireLock(n)
    /\ Goto(n, "read")
    /\ UNCHANGED <<pem, registry, known, signed, answer, crashes>>

(* load_known_nodes; json.loads raises on a torn file.                     *)
Read(n) ==
    /\ at[n] = "read"
    /\ IF registry = Torn THEN Goto(n, "raise") /\ UNCHANGED known
       ELSE /\ known' = [known EXCEPT ![n] = IF registry = Absent THEN Nobody ELSE registry]
            /\ Goto(n, "open")
    /\ UNCHANGED <<pem, registry, lock, signed, answer, crashes>>

Open(n) ==
    /\ at[n] = "open"
    /\ registry' = Torn
    /\ Goto(n, "save")
    /\ UNCHANGED <<pem, lock, known, signed, answer, crashes>>

Save(n) ==
    /\ at[n] = "save"
    /\ registry' = [known[n] EXCEPT ![n] = pem[n]]
    /\ Goto(n, "unlock")
    /\ UNCHANGED <<pem, lock, known, signed, answer, crashes>>

(* A bug: the lock is kept when the block of the with statement raises.    *)
UnlockAfterSuccess(n) ==
    /\ at[n] \in {"unlock", "raise"}
    /\ lock' = IF at[n] = "unlock" THEN Free ELSE lock
    /\ Goto(n, IF at[n] = "unlock" THEN "serving" ELSE "down")
    /\ UNCHANGED <<pem, registry, known, signed, answer, crashes>>

(* The finally of the lock, on both ways out of it.                        *)
Unlock(n) ==
    /\ at[n] \in {"unlock", "raise"}
    /\ lock' = Free
    /\ Goto(n, IF at[n] = "unlock" THEN "serving" ELSE "down")
    /\ UNCHANGED <<pem, registry, known, signed, answer, crashes>>

(* A node that serves signs, with the key in its file (keys.sign).         *)
Sign(n) ==
    /\ at[n] = "serving"
    /\ signed' = signed \union {[node |-> n, key |-> pem[n]]}
    /\ UNCHANGED <<at, pem, registry, lock, known, answer, crashes>>

(* keys.verify: False if the signer is not entered or another key is, an   *)
(* exception while the file is torn.  The signer may be down by now.       *)
Verify(n, s) ==
    /\ at[n] = "serving"
    /\ answer' = [answer EXCEPT ![n] =
          CASE registry = Torn -> "raised"
            [] registry = Absent -> "false"
            [] OTHER -> IF registry[s.node] = s.key THEN "true" ELSE "false"]
    /\ UNCHANGED <<at, pem, registry, lock, known, signed, crashes>>

(* Killed anywhere: the operating system drops the lock, the files stay.   *)
Crash(n) ==
    /\ at[n] # "down"
    /\ crashes < MaxCrashes
    /\ crashes' = crashes + 1
    /\ Goto(n, "down")
    /\ lock' = IF lock = n THEN Free ELSE lock
    /\ known' = [known EXCEPT ![n] = Nobody]
    /\ answer' = [answer EXCEPT ![n] = "none"]
    /\ UNCHANGED <<pem, registry, signed>>

Register(n) == \/ FindKey(n) \/ WriteKey(n) \/ LoadKey(n) \/ Lock(n)
               \/ Read(n) \/ Open(n) \/ Save(n) \/ Unlock(n)

Next == \E n \in Nodes : \/ Start(n) \/ Register(n) \/ Crash(n) \/ Sign(n)
                         \/ \E s \in signed : Verify(n, s)

Spec == Init /\ [][Next]_vars

(* A process on its way up runs on; flock is granted to one that waits     *)
(* again and again for a lock that becomes free.                           *)
FairSpec == Spec /\ \A n \in Nodes : WF_vars(Register(n)) /\ SF_vars(Lock(n))
-----------------------------------------------------------------------------
(* Properties.                                                             *)

(* Every variable has its type; a process between lock and unlock has the  *)
(* lock, and nobody else.                                                  *)
TypeOK ==
    /\ at \in [Nodes -> Places]
    /\ pem \in [Nodes -> Keys \union {Absent, Torn}]
    /\ registry \in Registries \union {Absent, Torn}
    /\ lock \in Nodes \union {Free}
    /\ known \in [Nodes -> Registries]
    /\ signed \subseteq [node : Nodes, key : Keys]
    /\ answer \in [Nodes -> Verdicts]
    /\ crashes \in 0..MaxCrashes
    /\ \A n \in Nodes : at[n] \in {"read", "open", "save", "unlock", "raise"} <=> lock = n

(* A signature that a node has once made is never found invalid, whoever   *)
(* starts, restarts or is killed in the meantime: no start drops another   *)
(* node's key from the registry, and no restart changes its own.           *)
NeverMisjudged == \A n \in Nodes : answer[n] # "false"

(* Without a kill every start succeeds: a process that holds the lock does *)
(* not find the registry in the middle of a write.                         *)
OnlyKillsTear == (\E n \in Nodes : at[n] = "raise") => crashes > 0

(* A process on its way up gets there or ends: nobody waits for ever for   *)
(* the lock, whoever is killed or raises while holding it.                 *)
StartEnds == \A n \in Nodes : at[n] \notin {"down", "serving"} ~> at[n] \in {"down", "serving"}
=============================================================================
