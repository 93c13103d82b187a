----------------------------- MODULE Negotiation -----------------------------
(***************************************************************************)
(* One negotiation cycle between the agents of the two drones:             *)
(* negotiate_cycle of src/agent/coordinator.py.  The agents propose in     *)
(* turn, drone A first, for at most two rounds; then the cycle is decided. *)
(*                                                                         *)
(* What an agent proposes is the choice of a language model, so any action *)
(* may come back, or an exception: of the API, or the AgentError of        *)
(* DroneAgent._parse_proposal (src/agent/base.py).                         *)
(***************************************************************************)
EXTENDS Integers, Sequences

CONSTANTS
    Actions,           \* base.ACTIONS
    ContinuePath,      \* "continue_path"
    YieldAndPause,     \* "yield_and_pause"
    CollisionDistance  \* COLLISION_DISTANCE_THRESHOLD_M

ASSUME ActionsAssumption == /\ {ContinuePath, YieldAndPause} \subseteq Actions
                            /\ ContinuePath # YieldAndPause
ASSUME CollisionAssumption == CollisionDistance \in Nat

VARIABLES
    talk,       \* "off"; "on" while agents are asked; "decided"; "error"
    distance,   \* the distance between the drones that the cycle goes by
    proposals,  \* what was proposed so far, A and B in turn
    decision    \* the joint decision, once there is one

talkVars == <<talk, distance, proposals, decision>>

RoundCap == 2

Methods == {"converged", "tie_breaker_fixed_priority", "safety_override"}
Events == {"normal", "replanned", "safety_stop_triggered"}
Decisions == [method : Methods, event : Events, a : Actions, b : Actions]

(* What stands in for a decision that was not made.                        *)
Undecided == [method |-> "converged", event |-> "normal",
              a |-> ContinuePath, b |-> ContinuePath]

TalkInit == talk = "off" /\ distance = 0 /\ proposals = <<>> /\ decision = Undecided

(* Both hold their course although they are within the risk distance.      *)
Conflicts(a, b, d) == a = ContinuePath /\ b = ContinuePath /\ d < CollisionDistance

StartTalk(d) ==
    /\ talk = "off"
    /\ talk' = "on" /\ distance' = d /\ proposals' = <<>> /\ decision' = Undecided

(* Drone A opens each round, seeing what B proposed last.                  *)
ProposeA(action) ==
    /\ talk = "on" /\ Len(proposals) % 2 = 0
    /\ proposals' = Append(proposals, action)
    /\ UNCHANGED <<talk, distance, decision>>

(* A bug: the last proposals stand, whatever they are.                     *)
DecideByLast(a, b) == [method |-> "converged", event |-> "replanned", a |-> a, b |-> b]

(* B has answered A's proposal of this round, and no round is left or none *)
(* is needed: what they agree on, or A's proposal and a pause for B.       *)
Decide(a, b) ==
    IF ~Conflicts(a, b, distance)
    THEN [method |-> "converged", a |-> a, b |-> b,
          event |-> IF Len(proposals) < RoundCap THEN "normal" ELSE "replanned"]
    ELSE [method |-> "tie_breaker_fixed_priority", event |-> "replanned",
          a |-> a, b |-> YieldAndPause]

(* A bug: no round is the last one, and only two of them are kept.         *)
ProposeOnAndOn(action) ==
    LET a == proposals[Len(proposals)] IN
    /\ talk = "on" /\ Len(proposals) % 2 = 1
    /\ IF Conflicts(a, action, distance)
       THEN /\ UNCHANGED <<talk, decision>>
            /\ proposals' = IF Len(proposals) + 1 = 2 * RoundCap THEN <<>>
                            ELSE Append(proposals, action)
       ELSE /\ talk' = "decided" /\ decision' = Decide(a, action)
            /\ proposals' = Append(proposals, action)
    /\ UNCHANGED distance

ProposeB(action) ==
    LET a == proposals[Len(proposals)] IN
    /\ talk = "on" /\ Len(proposals) % 2 = 1
    /\ proposals' = Append(proposals, action)
    /\ IF Conflicts(a, action, distance) /\ Len(proposals') < 2 * RoundCap
       THEN UNCHANGED <<talk, decision>>
       ELSE talk' = "decided" /\ decision' = Decide(a, action)
    /\ UNCHANGED distance

(* No handler on the way up: the exception leaves negotiate_cycle.         *)
AgentFails == /\ talk = "on"
              /\ talk' = "error"
              /\ UNCHANGED <<distance, proposals, decision>>

EndTalk == talk' = "off" /\ UNCHANGED <<distance, proposals, decision>>

TalkTypeOK == /\ talk \in {"off", "on", "decided", "error"}
              /\ distance \in Nat
              /\ proposals \in Seq(Actions) /\ Len(proposals) <= 2 * RoundCap
              /\ decision \in Decisions
=============================================================================
