------------------------------ MODULE FlightRun ------------------------------
(***************************************************************************)
(* A whole flight: run_full_flight of src/simulation/flight_runner.py over *)
(* run_flight_cycle of src/simulation/flight_cycle.py, the safety net of   *)
(* src/simulation/safety.py, the negotiation (module Negotiation) and the  *)
(* simulated drones of src/simulation/sim_drones.py.                       *)
(*                                                                         *)
(* The flight is one sequential program.  Around it are the agents, which  *)
(* answer anything, and propose_and_commit, of which it sees one of three  *)
(* outcomes (module PoANetwork): the block is on the chain, the block was  *)
(* returned although every node rejected it, or an exception.              *)
(*                                                                         *)
(* Space is what the safety net and the negotiation see of it: how far     *)
(* each drone has yet to go and, for each pair of these, the distance      *)
(* between the drones, in units finer than the thresholds.  The ways lead  *)
(* from one point of the room to another, so bounds.clamp changes nothing; *)
(* the readings of the proximity sensor are the distances themselves.      *)
(***************************************************************************)
EXTENDS Negotiation, FiniteSets

CONSTANTS
    TriggerDistance,   \* safety.TRIGGER_DISTANCE_M
    Lengths,           \* how long each drone's way may be
    Speeds,            \* how far a drone may get in one sim.step()
    Tolerance,         \* has_arrived: tol, how near the destination is enough
    Gap(_, _),         \* the distance, from what A and B have yet to go
    StepsPerCycle,     \* steps_per_cycle
    MaxCycles,         \* max_cycles
    Outcomes           \* of propose_and_commit

Drones == {"drone_a", "drone_b"}

(* How far a drone may have yet to go.                                     *)
Ways == UNION {0..l : l \in Lengths}

ASSUME FlightAssumption ==
    /\ TriggerDistance \in Nat
    /\ Lengths \subseteq Nat /\ Speeds \subseteq Nat /\ Tolerance \in Nat
    /\ \A a, b \in Ways : Gap(a, b) \in Nat
    /\ StepsPerCycle \in Nat /\ MaxCycles \in Nat
    /\ Outcomes \subseteq {"recorded", "unrecorded", "raised"}

VARIABLES
    pc,         \* where the program stands
    remaining,  \* how far each drone has yet to go
    speed,      \* max_speed of each drone
    steps,      \* sim.step() still to make in this cycle
    flown,      \* what both had yet to go, simulation step by step
    cycles,     \* cycle_blocks, the in-flight blocks returned to the flight
    ledger      \* the blocks of this flight on the chain

flightVars == <<pc, remaining, speed, steps, flown, cycles, ledger>>
vars == <<flightVars, talkVars>>

(* pre_a .. post_b: about to propose that block.                           *)
Places == {"pre_a", "pre_b", "head", "talk", "record", "move", "post_a", "post_b",
           "done", "raised"}

Init ==
    /\ pc = "pre_a"
    /\ remaining \in [Drones -> Lengths]
    /\ speed \in [Drones -> Speeds]
    /\ steps = 0
    /\ flown = <<remaining>>
    /\ cycles = <<>>
    /\ ledger = <<>>
    /\ TalkInit

HasArrived(d) == remaining[d] <= Tolerance

AllArrived == \A d \in Drones : HasArrived(d)

Separation(r) == Gap(r["drone_a"], r["drone_b"])

(* A bug: the trigger distance itself counts as too near.                  *)
TriggeredAt(reading) == reading <= TriggerDistance

(* evaluate_safety_net: its only input is the proximity reading.           *)
Triggered(reading) == reading < TriggerDistance

SafetyOverride == [method |-> "safety_override", event |-> "safety_stop_triggered",
                   a |-> YieldAndPause, b |-> YieldAndPause]

(* A bug: a proposal is tried again although it has been recorded.         *)
RecordTwice(block, next) == ledger' = ledger \o <<block, block>> /\ pc' = next

(* propose_and_commit, and where the program stands when it returns.       *)
Record(block, next) ==
    \/ "recorded" \in Outcomes /\ ledger' = Append(ledger, block) /\ pc' = next
    \/ "unrecorded" \in Outcomes /\ UNCHANGED ledger /\ pc' = next
    \/ "raised" \in Outcomes /\ UNCHANGED ledger /\ pc' = "raised"

-----------------------------------------------------------------------------
PreFlight(place, next) ==
    /\ pc = place
    /\ Record([kind |-> "pre_flight"], next)
    /\ UNCHANGED <<remaining, speed, steps, flown, cycles, talkVars>>

(* The head of the loop.                                                   *)
StopLooping ==
    /\ pc = "head"
    /\ AllArrived \/ Len(cycles) >= MaxCycles
    /\ pc' = "post_a"
    /\ UNCHANGED <<remaining, speed, steps, flown, cycles, ledger, talkVars>>

Looping == pc = "head" /\ ~AllArrived /\ Len(cycles) < MaxCycles

(* The safety net is clear: the agents are asked.                          *)
Negotiate ==
    /\ Looping
    /\ ~Triggered(Separation(remaining))
    /\ StartTalk(Separation(remaining))
    /\ pc' = "talk"
    /\ UNCHANGED <<remaining, speed, steps, flown, cycles, ledger>>

(* The safety net fires: the agents are not asked.                         *)
SafetyStop ==
    /\ Looping
    /\ Triggered(Separation(remaining))
    /\ decision' = SafetyOverride /\ distance' = Separation(remaining)
    /\ talk' = "decided" /\ proposals' = <<>>
    /\ pc' = "record"
    /\ UNCHANGED <<remaining, speed, steps, flown, cycles, ledger>>

(* One answer of an agent.                                                 *)
Talk ==
    /\ pc = "talk"
    /\ \/ \E action \in Actions : ProposeA(action) \/ ProposeB(action)
       \/ AgentFails
    /\ \/ talk' = "on" /\ UNCHANGED pc
       \/ talk' = "decided" /\ pc' = "record"
       \/ talk' = "error" /\ pc' = "raised"
    /\ UNCHANGED <<remaining, speed, steps, flown, cycles, ledger>>

InFlight == [kind |-> "in_flight", distance |-> distance, decision |-> decision]

(* A bug: the cycle is counted before its block is recorded.               *)
CountFirst ==
    /\ pc = "record"
    /\ Record(InFlight, "move")
    /\ cycles' = Append(cycles, InFlight)
    /\ steps' = StepsPerCycle
    /\ EndTalk
    /\ UNCHANGED <<remaining, speed, flown>>

RecordCycle ==
    /\ pc = "record"
    /\ Record(InFlight, "move")
    /\ cycles' = IF pc' = "raised" THEN cycles ELSE Append(cycles, InFlight)
    /\ steps' = StepsPerCycle
    /\ EndTalk
    /\ UNCHANGED <<remaining, speed, flown>>

(* A bug: a drone flies past its destination.                              *)
Overshoot(d) == remaining[d] - speed[d]

(* SimDrone.step: min(speed, what is left), and none by an arrived drone.  *)
Nearer(d) == IF HasArrived(d) THEN remaining[d]
             ELSE IF remaining[d] > speed[d] THEN remaining[d] - speed[d] ELSE 0

(* sim.step(): both drones move on their way, whatever was decided.  The   *)
(* places of both are written down at every step: the path_history of a    *)
(* drone is its part of flown up to its arrival, after which it grows no   *)
(* longer.                                                                 *)
Move ==
    /\ pc = "move"
    /\ steps > 0 /\ ~AllArrived
    /\ remaining' = [d \in Drones |-> Nearer(d)]
    /\ flown' = Append(flown, remaining')
    /\ steps' = steps - 1
    /\ UNCHANGED <<pc, speed, cycles, ledger, talkVars>>

EndOfCycle ==
    /\ pc = "move"
    /\ steps = 0 \/ AllArrived
    /\ pc' = "head"
    /\ UNCHANGED <<remaining, speed, steps, flown, cycles, ledger, talkVars>>

(* Which blocks hold a decision with this value in this field.             *)
Having(blocks, field, value) ==
    {i \in 1..Len(blocks) :
        blocks[i].kind = "in_flight" /\ blocks[i].decision[field] = value}

Replans(blocks) == Cardinality(Having(blocks, "event", "replanned"))
Stops(blocks) == Cardinality(Having(blocks, "event", "safety_stop_triggered"))
Ties(blocks) == Cardinality(Having(blocks, "method", "tie_breaker_fixed_priority"))

(* Counted over the blocks that were returned to the flight.               *)
Summary == [kind |-> "post_flight", replans |-> Replans(cycles),
            stops |-> Stops(cycles), ties |-> Ties(cycles)]

PostFlight(place, next) ==
    /\ pc = place
    /\ Record(Summary, next)
    /\ UNCHANGED <<remaining, speed, steps, flown, cycles, talkVars>>

-----------------------------------------------------------------------------
Next == \/ PreFlight("pre_a", "pre_b") \/ PreFlight("pre_b", "head")
        \/ StopLooping \/ Negotiate \/ SafetyStop \/ Talk \/ RecordCycle
        \/ Move \/ EndOfCycle
        \/ PostFlight("post_a", "post_b") \/ PostFlight("post_b", "done")

Spec == Init /\ [][Next]_vars

(* The program runs on; the agents and the nodes answer or time out.       *)
FairSpec == Spec /\ WF_vars(Next)
-----------------------------------------------------------------------------
(* Properties.                                                             *)

CycleBlocks == [kind : {"in_flight"}, distance : Nat, decision : Decisions]
FlightBlocks ==
    [kind : {"pre_flight"}] \cup CycleBlocks
        \cup [kind : {"post_flight"}, replans : Nat, stops : Nat, ties : Nat]

(* Every variable has its type, and the agents are asked only in a cycle.  *)
TypeOK ==
    /\ pc \in Places
    /\ remaining \in [Drones -> Ways]
    /\ speed \in [Drones -> Speeds]
    /\ steps \in 0..StepsPerCycle
    /\ flown \in Seq([Drones -> Ways]) /\ flown[Len(flown)] = remaining
    /\ cycles \in Seq(CycleBlocks) /\ Len(cycles) <= MaxCycles
    /\ ledger \in Seq(FlightBlocks)
    /\ TalkTypeOK
    /\ talk = "on" <=> pc = "talk"

IsStop(block) == block.decision.event = "safety_stop_triggered"

(* Where the drones were, by their path_history, when cycle i was decided. *)
At(i) == flown[(i - 1) * StepsPerCycle + 1]

(* The record of a flight fits the path flown: a cycle is a safety stop    *)
(* exactly when the drones were nearer than the trigger distance at that   *)
(* point of their paths, whatever the agents said and however many         *)
(* simulation steps lie between two cycles.                                *)
StopsMatchPath ==
    \A i \in 1..Len(cycles) :
        IsStop(cycles[i]) <=> Separation(At(i)) < TriggerDistance

(* No decision of the record lets both drones hold their course at a point *)
(* of their paths within the collision-risk distance: the rounds and the   *)
(* tie-break always come to something else.                                *)
NoHeadOnDecision ==
    \A i \in 1..Len(cycles) :
        Separation(At(i)) < CollisionDistance
            => cycles[i].decision.a # ContinuePath \/ cycles[i].decision.b # ContinuePath

(* The post-flight blocks of this record count what lies below them in it. *)
SummedUp(record) ==
    \A i \in 1..Len(record) : LET below == SubSeq(record, 1, i) IN
        record[i].kind = "post_flight" =>
            /\ record[i].replans = Replans(below)
            /\ record[i].stops = Stops(below)
            /\ record[i].ties = Ties(below)

CyclesIn(record) == {i \in 1..Len(record) : record[i].kind = "in_flight"}

(* A post-flight block counts what the chain below it holds: the replans,  *)
(* stops and tie-breaks it reports are those recorded before it.           *)
SummaryMatchesRecord == SummedUp(ledger)

(* run_flight_cycle: "Run exactly one flight cycle and commit exactly one  *)
(* in_flight block": as many cycles as in-flight blocks on the chain, also *)
(* when an exception ends the flight in the middle of a cycle.             *)
OneBlockPerCycle == Len(cycles) = Cardinality(CyclesIn(ledger))

(* A flight comes to its end, with both post-flight blocks or with an      *)
(* exception, also when a drone cannot arrive: negotiations are bounded,   *)
(* and so are cycles.                                                      *)
FlightEnds == <>(pc \in {"done", "raised"})
=============================================================================
