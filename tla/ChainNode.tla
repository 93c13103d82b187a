------------------------------ MODULE ChainNode ------------------------------
(***************************************************************************)
(* One blockchain node (src/blockchain/node.py) with the chain it keeps in *)
(* memory and on disk (src/blockchain/chain.py).                           *)
(*                                                                         *)
(* Flask serves every request on a thread of its own and nothing in the    *)
(* handlers is locked, so the steps of try_append and _persist of several  *)
(* /commit requests interleave.  A thread's step reads or writes one       *)
(* shared thing: the tip, the list of blocks, or the file.                 *)
(*                                                                         *)
(* write_text truncates the file and then writes it, so a kill in between, *)
(* or a short text written over a long one, leaves a file that json.loads  *)
(* refuses: the value Torn.                                                *)
(*                                                                         *)
(* Two kinds of overlap break what the texts of node.py and chain.py       *)
(* promise, and two history variables say whether they have happened:      *)
(*   - raced: a /commit has passed the check while another one was between *)
(*     its check and its written file;                                     *)
(*   - early: the blocks that /validate has signed while a block was in    *)
(*     memory and not yet in the file.                                     *)
(* The properties say what holds, with any number of threads, as long as   *)
(* the first has not happened, or for all votes but the second kind; what  *)
(* the first kind does is the run node_race.  A third one, saved, shows    *)
(* that without such overlaps the node implements DurableNode: the text    *)
(* takes effect as a whole in WriteFile.                                   *)
(***************************************************************************)
EXTENDS Block

CONSTANTS
    Self,           \* this node
    Threads,        \* the request threads that can run at once
    Requests,       \* the blocks that clients post to this node
    Persist,        \* FALSE is --no-persist
    Absent, Torn,   \* no file yet; a file that is not JSON
    MaxCrashes      \* bound: kills in a behaviour

ASSUME SelfAssumption == Self \in Nodes
ASSUME RequestsAssumption == Requests \subseteq Blocks
ASSUME FileAssumption == Absent \notin Chains /\ Torn \notin Chains /\ Absent # Torn
ASSUME ModeAssumption == Persist \in BOOLEAN /\ MaxCrashes \in Nat

VARIABLES
    up,         \* the process runs
    blocks,     \* Chain.blocks, the list in memory
    file,       \* chain_data/<node_id>.json
    thread,     \* where each thread stands, and its locals
    signed,     \* blocks this node has signed
    acked,      \* blocks this node has answered "committed" for
    crashes,    \* kills so far
    saved,      \* history: the last text that was written to its end
    raced,      \* history: two commits have overlapped
    early       \* history: votes given before the file held their parent

history == <<saved, raced, early>>
vars == <<up, blocks, file, thread, signed, acked, crashes, history>>

Steps == {"idle", "check", "index", "append", "dump", "open", "write", "reply"}

(* block: the request; text: what json.dumps made of the list of blocks.   *)
Locals == [at : Steps, block : Blocks, text : Chains]

Idle == [at |-> "idle", block |-> Genesis, text |-> <<Genesis>>]

Init ==
    /\ up = TRUE
    /\ blocks = <<Genesis>>
    /\ file = Absent
    /\ thread = [t \in Threads |-> Idle]
    /\ signed = {}
    /\ acked = {}
    /\ crashes = 0
    /\ saved = <<Genesis>>
    /\ raced = FALSE
    /\ early = {}

-----------------------------------------------------------------------------
(* One thread serving POST /commit.                                        *)

At(t, step) == up /\ thread[t].at = step

(* Past the check, the file not yet written; and of these, the ones whose  *)
(* block is in memory.                                                     *)
Busy(t) == thread[t].at \in {"index", "append", "dump", "open", "write"}
Ahead(t) == thread[t].at \in {"dump", "open", "write"}

Goto(t, step) == thread' = [thread EXCEPT ![t].at = step]

Receive(t, b) ==
    /\ At(t, "idle")
    /\ thread' = [thread EXCEPT ![t].at = "check", ![t].block = b]
    /\ UNCHANGED <<up, blocks, file, signed, acked, crashes, history>>

(* The 409 answer: the thread is free again.                               *)
Reject(t) == thread' = [thread EXCEPT ![t] = Idle]

(* check_block_acceptable(block, self.tip.hash)                            *)
CheckRules(t) ==
    /\ At(t, "check")
    /\ IF CheckBlockAcceptable(thread[t].block, Tip(blocks).hash)
       THEN Goto(t, "index") /\ raced' = (raced \/ \E u \in Threads \ {t} : Busy(u))
       ELSE Reject(t) /\ UNCHANGED raced
    /\ UNCHANGED <<up, blocks, file, signed, acked, crashes, saved, early>>

(* block.index != self.tip.index + 1: the tip is read a second time.       *)
CheckIndex(t) ==
    /\ At(t, "index")
    /\ IF thread[t].block.index = Tip(blocks).index + 1
       THEN Goto(t, "append") ELSE Reject(t)
    /\ UNCHANGED <<up, blocks, file, signed, acked, crashes, history>>

(* A bug: the answer is sent before the file is written.                   *)
AppendOnly(t) ==
    /\ At(t, "append")
    /\ blocks' = Append(blocks, thread[t].block)
    /\ Goto(t, "reply")
    /\ UNCHANGED <<up, file, signed, acked, crashes, history>>

(* self.blocks.append(block); without a file the handler is done.          *)
AppendBlock(t) ==
    /\ At(t, "append")
    /\ blocks' = Append(blocks, thread[t].block)
    /\ Goto(t, IF Persist THEN "dump" ELSE "reply")
    /\ UNCHANGED <<up, file, signed, acked, crashes, history>>

(* json.dumps(self.to_list()), the argument of write_text.                 *)
Dump(t) ==
    /\ At(t, "dump")
    /\ thread' = [thread EXCEPT ![t].at = "open", ![t].text = blocks]
    /\ UNCHANGED <<up, blocks, file, signed, acked, crashes, history>>

(* write_text opens the file for writing: it is empty now.                 *)
OpenFile(t) ==
    /\ At(t, "open")
    /\ file' = Torn
    /\ Goto(t, "write")
    /\ UNCHANGED <<up, blocks, signed, acked, crashes, history>>

(* ... and writes from the start of it.  Where another thread has written  *)
(* a longer text since, the rest of that text stays behind the new one.    *)
WriteFile(t) ==
    LET text == thread[t].text IN
    /\ At(t, "write")
    /\ file' = IF file # Torn /\ Len(file) > Len(text) THEN Torn ELSE text
    /\ saved' = text
    /\ Goto(t, "reply")
    /\ UNCHANGED <<up, blocks, signed, acked, crashes, raced, early>>

(* The 200 answer, {"committed": true}.                                    *)
Reply(t) ==
    /\ At(t, "reply")
    /\ acked' = acked \union {thread[t].block}
    /\ thread' = [thread EXCEPT ![t] = Idle]
    /\ UNCHANGED <<up, blocks, file, signed, crashes, history>>

(* POST /validate on a free thread, whatever the others are doing.  It     *)
(* writes nothing that is shared, and the tips that it reads one after the *)
(* other for the hash and the index are the same one if both fit.          *)
Validate(t, b) ==
    /\ At(t, "idle")
    /\ CanSign(b, blocks)
    /\ signed' = signed \union {b}
    /\ early' = IF \E u \in Threads : Ahead(u) THEN early \union {b} ELSE early
    /\ UNCHANGED <<up, blocks, file, thread, acked, crashes, saved, raced>>

-----------------------------------------------------------------------------
(* The process.                                                            *)

(* A bug: what the killed threads were doing is remembered.                *)
CrashKeepsThreads ==
    /\ up
    /\ crashes < MaxCrashes
    /\ crashes' = crashes + 1
    /\ up' = FALSE
    /\ blocks' = <<Genesis>>
    /\ UNCHANGED <<file, thread, signed, acked, history>>

(* Killed at any point: the memory and the threads are gone.               *)
Crash ==
    /\ up
    /\ crashes < MaxCrashes
    /\ crashes' = crashes + 1
    /\ up' = FALSE
    /\ thread' = [t \in Threads |-> Idle]
    /\ blocks' = <<Genesis>>
    /\ UNCHANGED <<file, signed, acked, history>>

(* Chain.__init__: the file if there is one, whatever it holds, else       *)
(* genesis.  json.loads raises on a torn file and the process ends.        *)
Start ==
    /\ ~up
    /\ file # Torn
    /\ up' = TRUE
    /\ blocks' = IF file = Absent THEN <<Genesis>> ELSE file
    /\ UNCHANGED <<file, thread, signed, acked, crashes, history>>

Commit(t) == \/ CheckRules(t) \/ CheckIndex(t) \/ AppendBlock(t)
             \/ Dump(t) \/ OpenFile(t) \/ WriteFile(t) \/ Reply(t)

Next == \/ \E t \in Threads : \/ \E b \in Requests : Receive(t, b) \/ Validate(t, b)
                              \/ Commit(t)
        \/ Crash \/ Start

Spec == Init /\ [][Next]_vars

-----------------------------------------------------------------------------
(* Properties.                                                             *)

(* Every variable has its type, and a process that is down serves nothing. *)
TypeOK ==
    /\ up \in BOOLEAN
    /\ blocks \in Chains
    /\ file \in Chains \union {Absent, Torn}
    /\ thread \in [Threads -> Locals]
    /\ signed \subseteq Requests
    /\ acked \subseteq Requests
    /\ crashes \in 0..MaxCrashes
    /\ saved \in Chains
    /\ raced \in BOOLEAN
    /\ early \subseteq signed
    /\ ~up => thread = [t \in Threads |-> Idle]

(* What the node has once it runs again: its file, or genesis.             *)
Durable == IF file = Absent THEN <<Genesis>> ELSE file

(* The file can be loaded: nothing is in the middle of writing it, and no  *)
(* kill has torn it.  A node whose file is torn does not start again: what *)
(* is said of loadable files says nothing of it.                           *)
Loadable == file # Torn

Holds(c, b) == \E i \in 1..Len(c) : c[i] = b

(* try_append: "Validate `block` against ... the current tip.  Appends ... *)
(* only if valid": a block enters the list on top of the block it was      *)
(* built on.  False as soon as two commits overlap: the run node_race.     *)
AppendsExtendTip ==
    [][\A b \in Requests : up /\ up' /\ blocks' = Append(blocks, b)
                               => b.prev = Tip(blocks).hash]_vars

(* As long as no two commits have overlapped, and whatever else the other  *)
(* threads serve, the chain in memory passes /verify_integrity, and so     *)
(* does the one a restart would load.                                      *)
IntegrityHolds == ~raced => /\ VerifyFullChain(blocks)
                            /\ Loadable => VerifyFullChain(Durable)

(* try_append: "Appends and persists": as long as no two commits have      *)
(* overlapped, a block the node has answered "committed" for is in every   *)
(* file a restart can load.                                                *)
AckedSurvive == ~raced /\ Loadable => \A b \in acked : Holds(Durable, b)

(* A node that signed a block still has that block's parent after a kill,  *)
(* except where /validate answered between another thread's append and its *)
(* written file: it answers from memory, and a kill then loses the parent. *)
(* No other vote is lost, also not one of before such a kill.              *)
VotesSurvive ==
    ~raced /\ Loadable => \A b \in signed \ early :
        b.index \in 1..Len(Durable) /\ Durable[b.index].hash = b.prev

(* Until requests overlap in one of the two ways, the steps of /commit     *)
(* between the check and the written file are one step of a node that      *)
(* cannot lose a block: a kill inside them leaves the chain as it was or   *)
(* ends the node for good.                                                 *)
Overlapped == raced \/ early # {}
Node == INSTANCE DurableNode WITH chain <- saved
ImplementsNode == Node!Init /\ [][~Overlapped' => Node!Next]_(Node!vars)
=============================================================================
