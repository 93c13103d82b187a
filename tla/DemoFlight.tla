------------------------------ MODULE DemoFlight ------------------------------
(***************************************************************************)
(* The whole system at work, as src/demo/run_demo_flight.py composes it:   *)
(* the script starts three nodes that keep their chains in memory, flies   *)
(* (FlightRun with Negotiation), writes its report from what the nodes     *)
(* hold, and stops them.                                                   *)
(*                                                                         *)
(* FlightRun takes one step for a block and its outcome.  Here that step   *)
(* is the end of a proposal to the nodes (PoANetwork), request by request, *)
(* by one client, the script, that always passes the same list of nodes.   *)
(* The flight does not look at the results of the commits: whether a block *)
(* that was returned to it is recorded, its ledger, is seen on the nodes.  *)
(***************************************************************************)
EXTENDS Integers, Sequences, FiniteSets, SequencesExt

CONSTANTS
    Nodes, GenesisPayload, RequiredSignatures, MaxCrashes, MaxUnanswered,
    Actions, ContinuePath, YieldAndPause, CollisionDistance,
    TriggerDistance, Lengths, Speeds, Tolerance, Gap(_, _), StepsPerCycle, MaxCycles,
    Script,     \* the script as a client of the nodes
    Urls        \* node_urls, in the order in which start_nodes started them

(* REQUIRED_SIGNATURES: a majority, more than one, and not all.            *)
ASSUME MajorityAssumption == /\ IsFiniteSet(Nodes)
                             /\ RequiredSignatures \in 2..(Cardinality(Nodes) - 1)
                             /\ 2 * RequiredSignatures > Cardinality(Nodes)
(* One URL for each of ALL_NODE_IDS.                                       *)
ASSUME UrlsAssumption == /\ Urls \in Seq(Nodes) /\ Len(Urls) >= 2 /\ ToSet(Urls) = Nodes
                         /\ \A i, j \in 1..Len(Urls) : Urls[i] = Urls[j] => i = j

VARIABLES
    main,       \* where main() stands
    launching,  \* node processes that were started and do not listen yet
    checked,    \* how many nodes wait_health has found healthy
    first,      \* narrate: the chain of the first node, as it was read
    report      \* what the report says of the chain, <<>> until it is there

VARIABLES chain, up, prop, late, used, crashes, unanswered          \* PoANetwork
VARIABLES pc, remaining, speed, steps, flown, cycles, ledger        \* FlightRun
VARIABLES talk, distance, proposals, decision                       \* Negotiation

mainVars == <<main, launching, checked, first, report>>
netVars == <<chain, up, prop, late, used, crashes, unanswered>>
flightVars == <<pc, remaining, speed, steps, flown, cycles, ledger,
                talk, distance, proposals, decision>>
vars == <<mainVars, netVars, flightVars>>

Flight == INSTANCE FlightRun WITH Outcomes <- {"recorded", "unrecorded", "raised"}

(* What is proposed: the place in the flight and the cycle, which stand    *)
(* for the time in the block, and its data.                                *)
Stamped == (Flight!Places \X Nat) \X Flight!FlightBlocks

Net == INSTANCE PoANetwork WITH
           Payloads <- Stamped,
           Clients <- {Script}, Routes <- {Urls}, Persist <- FALSE

(* What the parts assume of their constants.                               *)
ASSUME NetworkAssumption == /\ GenesisPayload \notin Stamped
                            /\ MaxCrashes \in Nat /\ MaxUnanswered \in Nat
ASSUME FlightAssumption ==
    /\ {ContinuePath, YieldAndPause} \subseteq Actions /\ ContinuePath # YieldAndPause
    /\ CollisionDistance \in Nat /\ TriggerDistance \in Nat
    /\ Lengths \subseteq Nat /\ Speeds \subseteq Nat /\ Tolerance \in Nat
    /\ \A a, b \in Flight!Ways : Gap(a, b) \in Nat
    /\ StepsPerCycle \in Nat /\ MaxCycles \in Nat

Init ==
    /\ main = "start" /\ launching = Nodes /\ checked = 0
    /\ first = <<>> /\ report = <<>>
    /\ chain = [n \in Nodes |-> <<Net!Genesis>>]
    /\ up = [n \in Nodes |-> FALSE]
    /\ prop = [c \in {Script} |-> Net!Raised("idle")]
    /\ late = {} /\ used = {} /\ crashes = 0 /\ unanswered = 0
    /\ Flight!Init

-----------------------------------------------------------------------------
(* start_nodes.                                                            *)

(* A process that was started listens.                                     *)
ComeUp(n) ==
    /\ n \in launching
    /\ launching' = launching \ {n}
    /\ Net!Restart(n)
    /\ UNCHANGED <<main, checked, first, report, flightVars>>

(* It ends before that: free_port gives its port back before the node      *)
(* takes it, so that it may be gone; or its registry is torn.              *)
FailToStart(n) ==
    /\ n \in launching
    /\ launching' = launching \ {n}
    /\ UNCHANGED <<main, checked, first, report, netVars, flightVars>>

(* A bug: the last node is not waited for.                                 *)
AllButOne == checked' + 1 = Len(Urls)

AllHealthy == checked' = Len(Urls)

(* wait_health, one node after the other.                                  *)
WaitHealth ==
    /\ main = "start"
    /\ up[Urls[checked + 1]]
    /\ checked' = checked + 1
    /\ main' = IF AllHealthy THEN "fly" ELSE "start"
    /\ UNCHANGED <<launching, first, report, netVars, flightVars>>

(* TimeoutError leaves start_nodes before main() has come to its try: the  *)
(* script ends, and the nodes that run go on.                              *)
NeverHealthy ==
    /\ main = "start"
    /\ ~up[Urls[checked + 1]]
    /\ main' = "ended"
    /\ UNCHANGED <<launching, checked, first, report, netVars, flightVars>>

-----------------------------------------------------------------------------
(* run_full_flight.                                                        *)

(* What the flight does between two proposals.                             *)
FlyOn ==
    /\ main = "fly"
    /\ UNCHANGED <<mainVars, netVars>>
    /\ \/ Flight!StopLooping \/ Flight!Negotiate \/ Flight!SafetyStop \/ Flight!Talk
       \/ Flight!Move \/ Flight!EndOfCycle

(* The step of the flight that proposes a block, with what comes of it.    *)
RecordBlock ==
    \/ Flight!PreFlight("pre_a", "pre_b") \/ Flight!PreFlight("pre_b", "head")
    \/ Flight!RecordCycle
    \/ Flight!PostFlight("post_a", "post_b") \/ Flight!PostFlight("post_b", "done")

BlockAt == [pre_a |-> [kind |-> "pre_flight"], pre_b |-> [kind |-> "pre_flight"],
            record |-> Flight!InFlight, post_a |-> Flight!Summary, post_b |-> Flight!Summary]

(* propose_and_commit: the call, its requests, and its return.             *)
Propose ==
    /\ main = "fly"
    /\ pc \in DOMAIN BlockAt /\ prop[Script].pc = "idle"
    /\ \/ \E data \in {<<<<pc, Len(cycles)>>, BlockAt[pc]>>} : Net!GetTip(Script, Urls, data)
       \/ Net!GetTipFails(Script, Urls)
    /\ UNCHANGED <<mainVars, flightVars>>

Proceed == main = "fly" /\ Net!Proceed(Script) /\ UNCHANGED <<mainVars, flightVars>>

(* A bug: the exception is caught and the flight goes on.                  *)
NoException == TRUE

Succeeded == prop[Script].pc = "returned"

(* The block is on the chain of a node by now.                             *)
Kept == \E n \in Nodes : \E i \in 2..Len(chain[n]) :
            chain[n][i].hash = prop[Script].block.hash

(* The results of the commits are not looked at, exceptions not caught: a  *)
(* block that no node has taken counts for the flight like any other.      *)
Conclude ==
    /\ main = "fly"
    /\ prop[Script].pc \in {"returned", "failed", "aborted"}
    /\ prop' = [prop EXCEPT ![Script] = Net!Raised("idle")]
    /\ RecordBlock
    /\ (pc' = "raised") = ~Succeeded
    /\ Succeeded => (ledger' # ledger) = Kept
    /\ UNCHANGED <<mainVars, chain, up, late, used, crashes, unanswered>>

FlightOver ==
    /\ main = "fly"
    /\ pc \in {"done", "raised"}
    /\ main' = IF pc = "done" THEN "narrate" ELSE "stop"
    /\ UNCHANGED <<launching, checked, first, report, netVars, flightVars>>

-----------------------------------------------------------------------------
(* narrate, plot_blockchain, and the end.                                  *)

ReadFirst ==
    /\ main = "narrate"
    /\ up[Urls[1]]
    /\ first' = chain[Urls[1]]
    /\ main' = "compare"
    /\ UNCHANGED <<launching, checked, report, netVars, flightVars>>

Hashes(c) == [i \in 1..Len(c) |-> c[i].hash]

(* "All 3 nodes agree on identical history": two of them are asked.        *)
ReadSecond ==
    /\ main = "compare"
    /\ up[Urls[2]]
    /\ report' = [total |-> Len(first), cycles |-> Len(cycles),
                  intact |-> \A i \in 2..Len(first) : first[i].prev = first[i - 1].hash,
                  agree |-> Hashes(first) = Hashes(chain[Urls[2]])]
    /\ main' = "draw"
    /\ UNCHANGED <<launching, checked, first, netVars, flightVars>>

(* The report is on disk; the diagram shows the first node's chain.        *)
Draw ==
    /\ main = "draw"
    /\ up[Urls[1]]
    /\ main' = "stop"
    /\ UNCHANGED <<launching, checked, first, report, netVars, flightVars>>

ReadFails ==
    /\ main \in {"narrate", "compare", "draw"}
    /\ Net!NoAnswer(Urls[IF main = "compare" THEN 2 ELSE 1])
    /\ main' = "stop"
    /\ UNCHANGED <<launching, checked, first, report, chain, up, prop, late, used,
                   crashes, flightVars>>

(* finally: terminate, and kill what is still there after 5 s.             *)
StopNodes ==
    /\ main = "stop"
    /\ up' = [n \in Nodes |-> FALSE]
    /\ late' = {} /\ launching' = {}
    /\ main' = "ended"
    /\ UNCHANGED <<checked, first, report, chain, prop, used, crashes, unanswered, flightVars>>

-----------------------------------------------------------------------------
Main == \/ WaitHealth \/ NeverHealthy
        \/ FlyOn \/ Propose \/ Proceed \/ Conclude \/ FlightOver
        \/ ReadFirst \/ ReadSecond \/ Draw \/ ReadFails \/ StopNodes

(* The nodes.  One that is killed is not started again.                    *)
Around == \/ \E n \in Nodes : ComeUp(n) \/ FailToStart(n)
          \/ (\E m \in late : Net!ServeLate(m)) /\ UNCHANGED <<mainVars, flightVars>>
          \/ (\E n \in Nodes : Net!Crash(n)) /\ UNCHANGED <<mainVars, flightVars>>

Next == Main \/ Around

(* The script runs on: its requests are answered, refused or time out.     *)
Spec == Init /\ [][Next]_vars /\ WF_vars(Main)
-----------------------------------------------------------------------------
(* Properties.                                                             *)

Failures == crashes + unanswered

(* Every variable has its type, and so has the flight on the nodes.        *)
TypeOK ==
    /\ main \in {"start", "fly", "narrate", "compare", "draw", "stop", "ended"}
    /\ launching \subseteq Nodes
    /\ checked \in 0..Len(Urls) /\ (main = "fly" => checked = Len(Urls))
    /\ Net!TypeOK
    /\ Flight!TypeOK

(* The blocks above genesis, without what stands for their time.           *)
Held(n) == [i \in 1..Len(chain[n]) - 1 |-> chain[n][i + 1].data[2]]

BetweenProposals == prop[Script].pc \notin {"committing", "returned"}

(* run_full_flight: "writing the full pre/in-flight/post blockchain record *)
(* as it goes".  Up to one kill or lost answer, at whatever request, never *)
(* makes the nodes a mixed record of the flight: what any of them has      *)
(* taken when its proposal ends, and nothing else, a majority holds, in    *)
(* the order of the flight.                                                *)
FlightIsRecorded ==
    Failures <= 1 /\ BetweenProposals =>
        Cardinality({n \in Nodes : Held(n) = ledger}) >= RequiredSignatures

(* What the flight has done, the chain of this node shows: a block for     *)
(* every cycle, summaries that count the blocks below them, and, if the    *)
(* flight came to its end, all of its blocks.                              *)
ShowsFlight(n) ==
    /\ Cardinality(Flight!CyclesIn(Held(n))) = Len(cycles)
    /\ Flight!SummedUp(Held(n))
    /\ pc = "done" => Len(Held(n)) = 2 + Len(cycles) + 2

(* "full": the results of the commits are not looked at, and still no      *)
(* cycle that the flight went on from is missing on the nodes, with up to  *)
(* one kill or lost answer, also when an exception ends the flight: a      *)
(* majority holds it, and summaries that are right about what it holds.    *)
RecordIsComplete ==
    Failures <= 1 /\ BetweenProposals =>
        Cardinality({n \in Nodes : ShowsFlight(n)}) >= RequiredSignatures

(* Where the report says that the nodes agree, it counts what it says it   *)
(* counts, "genesis + 2 pre-flight + in-flight + 2 post-flight", and the   *)
(* first node, which is only compared with the second, holds the whole     *)
(* flight and nothing else.  That is all such a report shows: the third    *)
(* node has not been asked (AllThreeAgree).                                *)
AgreementCountsFlight ==
    report # <<>> /\ Failures <= 1 /\ report.agree =>
        /\ report.intact
        /\ report.total = 1 + 2 + report.cycles + 2
        /\ Held(Urls[1]) = ledger

(* narrate: "All 3 nodes agree on identical history".                      *)
AllThreeAgree ==
    report # <<>> /\ report.agree =>
        \A n, m \in Nodes : Hashes(chain[n]) = Hashes(chain[m])

(* The script ends, whatever the agents and the nodes do.                  *)
DemoEnds == <>(main = "ended")
=============================================================================
