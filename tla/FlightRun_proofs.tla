--------------------------- MODULE FlightRun_proofs ---------------------------
(***************************************************************************)
(* For paths of any shape and length, any speeds, any number of cycles and *)
(* of steps in a cycle: the record of a flight fits the path that was      *)
(* flown, and its summaries fit the record.                                *)
(*                                                                         *)
(* The argument: a cycle that is not cut short by the arrival of both      *)
(* drones takes StepsPerCycle steps, and after an arrival there is no more *)
(* cycle.  So at the head of each cycle the length of the paths is known   *)
(* from the number of cycles, and what was decided at a point of the paths *)
(* can be found there for ever, since paths only grow.                     *)
(***************************************************************************)
EXTENDS FlightRun, FiniteSetTheorems, FunctionTheorems, SequenceTheorems, TLAPS

(* What a decision at this distance owes the safety net and the coordinator. *)
Fits(block, d) ==
    /\ block.event = "safety_stop_triggered" <=> d < TriggerDistance
    /\ d < CollisionDistance => block.a # ContinuePath \/ block.b # ContinuePath

(* The point of the paths at which the cycle that follows c cycles begins. *)
PathAt(c) == c * StepsPerCycle + 1

(* How long the paths are, wherever the program stands.                    *)
PathLength ==
    /\ pc \in {"pre_a", "pre_b"} => cycles = <<>> /\ Len(flown) = 1
    /\ pc = "head" => AllArrived \/ Len(flown) = PathAt(Len(cycles))
    /\ pc \in {"talk", "record"} =>
           Len(flown) = PathAt(Len(cycles)) /\ Len(cycles) < MaxCycles
    /\ pc = "move" => AllArrived \/ Len(flown) + steps = PathAt(Len(cycles))

(* What the cycle under way goes by, and what it has decided.              *)
CycleFits ==
    /\ pc = "talk" =>
           /\ distance = Separation(remaining) /\ ~(distance < TriggerDistance)
           /\ Len(proposals) < 2 * RoundCap
    /\ pc = "record" => distance = Separation(remaining) /\ Fits(decision, distance)

(* Every cycle of the record fits its point of the paths.                  *)
RecordFits ==
    \A i \in 1..Len(cycles) :
        /\ PathAt(i - 1) \in 1..Len(flown)
        /\ Fits(cycles[i].decision, Separation(flown[PathAt(i - 1)]))

FlightInv == TypeOK /\ PathLength /\ CycleFits /\ RecordFits

-----------------------------------------------------------------------------
(* The distance is a distance at every point of the two paths.             *)
LEMMA SeparationType == \A r \in [Drones -> Ways] : Separation(r) \in Nat
  BY FlightAssumption DEF Separation, Drones

LEMMA WaysAreNaturals == Ways \subseteq Nat
  BY FlightAssumption DEF Ways

(* min(speed, what is left) leaves what is left within the way.            *)
LEMMA NearerType ==
    ASSUME remaining \in [Drones -> Ways], speed \in [Drones -> Speeds]
    PROVE  [d \in Drones |-> Nearer(d)] \in [Drones -> Ways]
<1> SUFFICES ASSUME NEW d \in Drones PROVE Nearer(d) \in Ways
  OBVIOUS
<1>1. PICK l \in Lengths : remaining[d] \in 0..l
  BY DEF Ways
<1>2. l \in Nat /\ speed[d] \in Nat
  BY FlightAssumption
<1>3. Nearer(d) \in 0..l
  BY <1>1, <1>2, FlightAssumption DEF Nearer, HasArrived
<1> QED
  BY <1>3 DEF Ways

LEMMA SafetyOverrideType == SafetyOverride \in Decisions
  BY ActionsAssumption DEF SafetyOverride, Decisions, Methods, Events

LEMMA DecideType ==
    ASSUME NEW a \in Actions, NEW b \in Actions PROVE Decide(a, b) \in Decisions
  BY ActionsAssumption DEF Decide, Decisions, Methods, Events

(* Each block that the flight proposes has the type of a block.            *)
LEMMA BlockTypes ==
    ASSUME TypeOK
    PROVE  [kind |-> "pre_flight"] \in FlightBlocks /\ InFlight \in CycleBlocks
  BY DEF TypeOK, TalkTypeOK, InFlight, CycleBlocks, FlightBlocks

LEMMA SummaryType == ASSUME TypeOK PROVE Summary \in FlightBlocks
<1>1. \A field, value : Cardinality(Having(cycles, field, value)) \in Nat
  <2> SUFFICES ASSUME NEW field, NEW value
               PROVE Cardinality(Having(cycles, field, value)) \in Nat
    OBVIOUS
  <2>1. IsFiniteSet(1..Len(cycles))
    BY FS_Interval DEF TypeOK
  <2>2. Having(cycles, field, value) \in SUBSET (1..Len(cycles))
    BY DEF Having
  <2> QED
    BY <2>1, <2>2, FS_Subset, FS_CardinalityType
<1> QED
  BY <1>1 DEF Summary, Replans, Stops, Ties, FlightBlocks

-----------------------------------------------------------------------------
LEMMA InitFlightInv == Init => FlightInv
<1> SUFFICES ASSUME Init PROVE FlightInv
  OBVIOUS
<1> USE DEF Init, TalkInit
<1>1. remaining \in [Drones -> Ways]
  <2>1. \A l \in Lengths : l \in 0..l
    BY FlightAssumption
  <2> QED
    BY <2>1 DEF Ways
<1>2. TypeOK
  <2>1. Undecided \in Decisions
    BY ActionsAssumption DEF Undecided, Decisions, Methods, Events
  <2>2. flown \in Seq([Drones -> Ways]) /\ flown[Len(flown)] = remaining
    BY <1>1
  <2> QED
    BY <1>1, <2>1, <2>2, FlightAssumption
    DEF TypeOK, Places, TalkTypeOK, RoundCap
<1>3. PathLength /\ CycleFits /\ RecordFits
  BY DEF PathLength, CycleFits, RecordFits
<1> QED
  BY <1>2, <1>3 DEF FlightInv

-----------------------------------------------------------------------------
(* The types alone, action by action.                                      *)
LEMMA ProposedType ==
    ASSUME TypeOK, NEW block \in FlightBlocks, NEW next \in Places, Record(block, next)
    PROVE  ledger' \in Seq(FlightBlocks) /\ pc' \in Places
<1>1. "raised" \in Places
  BY DEF Places
<1>2. ledger \in Seq(FlightBlocks) /\ Append(ledger, block) \in Seq(FlightBlocks)
  BY DEF TypeOK
<1> QED
  BY <1>1, <1>2 DEF Record

LEMMA TalkTypeStep ==
    ASSUME TypeOK, CycleFits, Talk
    PROVE  TypeOK' /\ talk' # "off" /\ (talk' = "on" => Len(proposals') < 2 * RoundCap)
<1>1. UNCHANGED <<remaining, speed, steps, flown, cycles, ledger>>
  BY DEF Talk
<1>2. /\ pc' \in Places
      /\ (talk' = "on" <=> pc' = "talk")
  BY DEF Talk, Places
<1>3. /\ proposals \in Seq(Actions) /\ Len(proposals) \in Nat /\ Len(proposals) < 4
      /\ talk \in {"off", "on", "decided", "error"}
      /\ distance \in Nat /\ decision \in Decisions
  BY DEF TypeOK, CycleFits, TalkTypeOK, Talk, RoundCap
<1> DEFINE Goes == /\ TalkTypeOK' /\ talk' # "off"
                   /\ talk' = "on" => Len(proposals') < 2 * RoundCap
<1>4. Goes
  <2>1. ASSUME NEW action \in Actions, ProposeA(action) PROVE Goes
    BY <2>1, <1>3 DEF ProposeA, TalkTypeOK, RoundCap
  <2>2. ASSUME NEW action \in Actions, ProposeB(action) PROVE Goes
    <3>1. proposals[Len(proposals)] \in Actions
      BY <2>2, <1>3 DEF ProposeB
    <3>2. Decide(proposals[Len(proposals)], action) \in Decisions
      BY <3>1, DecideType
    <3> QED
      BY <2>2, <1>3, <3>2 DEF ProposeB, TalkTypeOK, RoundCap
  <2>3. CASE AgentFails
    BY <2>3, <1>3 DEF AgentFails, TalkTypeOK, RoundCap
  <2> QED
    BY <2>1, <2>2, <2>3 DEF Talk
<1> QED
  BY <1>1, <1>2, <1>4 DEF TypeOK

(* What the program's variables other than those of the talk become.       *)
LEMMA TypeStep == FlightInv /\ [Next]_vars => TypeOK'
<1> SUFFICES ASSUME FlightInv, [Next]_vars PROVE TypeOK'
  OBVIOUS
<1> USE FlightAssumption
<1>0. TypeOK /\ PathLength /\ CycleFits
  BY DEF FlightInv
<1>1. ASSUME NEW place \in {"pre_a", "pre_b"}, NEW next \in {"pre_b", "head"},
             PreFlight(place, next)
      PROVE TypeOK'
  <2>1. ledger' \in Seq(FlightBlocks) /\ pc' \in {next, "raised"}
    BY <1>0, <1>1, BlockTypes, ProposedType DEF PreFlight, Places, Record
  <2> QED
    BY <1>0, <1>1, <2>1 DEF PreFlight, TypeOK, Places, talkVars, TalkTypeOK
<1>2. ASSUME NEW place \in {"post_a", "post_b"}, NEW next \in {"post_b", "done"},
             PostFlight(place, next), place = "post_a" <=> next = "post_b"
      PROVE TypeOK'
  <2>1. ledger' \in Seq(FlightBlocks) /\ pc' \in {next, "raised"}
    BY <1>0, <1>2, SummaryType, ProposedType DEF PostFlight, Places, Record
  <2> QED
    BY <1>0, <1>2, <2>1 DEF PostFlight, TypeOK, Places, talkVars, TalkTypeOK
<1>3. CASE StopLooping
  BY <1>0, <1>3 DEF StopLooping, TypeOK, Places, talkVars, TalkTypeOK
<1>4. CASE Negotiate
  <2>1. Separation(remaining) \in Nat /\ Undecided \in Decisions
    BY <1>0, SeparationType, ActionsAssumption
    DEF TypeOK, Undecided, Decisions, Methods, Events
  <2> QED
    BY <1>0, <1>4, <2>1
    DEF Negotiate, StartTalk, TypeOK, Places, TalkTypeOK, RoundCap
<1>5. CASE SafetyStop
  <2>1. Separation(remaining) \in Nat
    BY <1>0, SeparationType DEF TypeOK
  <2> QED
    BY <1>0, <1>5, <2>1, SafetyOverrideType
    DEF SafetyStop, Looping, TypeOK, Places, TalkTypeOK, RoundCap
<1>6. CASE Talk
  BY <1>0, <1>6, TalkTypeStep
<1>7. CASE RecordCycle
  <2>1. InFlight \in CycleBlocks /\ InFlight \in FlightBlocks
    BY <1>0, BlockTypes DEF FlightBlocks
  <2>2. ledger' \in Seq(FlightBlocks) /\ pc' \in {"move", "raised"}
    BY <1>0, <1>7, <2>1, ProposedType DEF RecordCycle, Places, Record
  <2>3. cycles' \in Seq(CycleBlocks) /\ Len(cycles') <= MaxCycles
    BY <1>0, <1>7, <2>1 DEF RecordCycle, TypeOK, PathLength
  <2> QED
    BY <1>0, <1>7, <2>2, <2>3 DEF RecordCycle, EndTalk, TypeOK, Places, TalkTypeOK
<1>8. CASE Move
  <2>1. remaining' \in [Drones -> Ways]
    BY <1>0, <1>8, NearerType DEF Move, TypeOK
  <2>2. flown' \in Seq([Drones -> Ways]) /\ flown'[Len(flown')] = remaining'
    BY <1>0, <1>8, <2>1 DEF Move, TypeOK
  <2> QED
    BY <1>0, <1>8, <2>1, <2>2 DEF Move, TypeOK, Places, talkVars, TalkTypeOK
<1>9. CASE EndOfCycle
  BY <1>0, <1>9 DEF EndOfCycle, TypeOK, Places, talkVars, TalkTypeOK
<1>10. CASE UNCHANGED vars
  BY <1>0, <1>10 DEF vars, flightVars, TypeOK, talkVars, TalkTypeOK
<1> QED
  BY <1>1, <1>2, <1>3, <1>4, <1>5, <1>6, <1>7, <1>8, <1>9, <1>10 DEF Next

-----------------------------------------------------------------------------
(* A cycle takes StepsPerCycle steps of the paths.                         *)
LEMMA PathAtNext ==
    ASSUME NEW c \in Nat
    PROVE  PathAt(c) \in Nat /\ PathAt(c) >= 1 /\ PathAt(c + 1) = PathAt(c) + StepsPerCycle
<1>1. c * StepsPerCycle \in Nat /\ (c + 1) * StepsPerCycle = c * StepsPerCycle + StepsPerCycle
  BY FlightAssumption
<1> QED
  BY <1>1, FlightAssumption DEF PathAt

LEMMA PathLengthStep == FlightInv /\ [Next]_vars => PathLength'
<1> SUFFICES ASSUME FlightInv, [Next]_vars PROVE PathLength'
  OBVIOUS
<1> USE FlightAssumption DEF PathLength
<1>0. /\ TypeOK /\ PathLength
      /\ Len(cycles) \in Nat /\ Len(flown) \in Nat /\ steps \in Nat
      /\ PathAt(0) = 1
  BY DEF FlightInv, TypeOK, PathAt
<1>1. CASE PreFlight("pre_a", "pre_b") \/ PreFlight("pre_b", "head")
  <2>1. cycles = <<>> /\ Len(cycles) = 0 /\ Len(flown) = 1
    BY <1>0, <1>1 DEF PreFlight
  <2>2. UNCHANGED <<cycles, flown>> /\ pc' \in {"pre_b", "head", "raised"}
    BY <1>1 DEF PreFlight, Record
  <2> QED
    BY <1>0, <2>1, <2>2
<1>2. CASE PostFlight("post_a", "post_b") \/ PostFlight("post_b", "done")
  BY <1>0, <1>2 DEF PostFlight, Record
<1>3. CASE StopLooping
  BY <1>0, <1>3 DEF StopLooping
<1>4. CASE Negotiate \/ SafetyStop
  BY <1>0, <1>4 DEF Negotiate, SafetyStop, Looping
<1>6. CASE Talk
  BY <1>0, <1>6 DEF Talk
<1>7. CASE RecordCycle
  <2>1. CASE pc' = "raised"
    BY <1>7, <2>1 DEF RecordCycle
  <2>2. CASE pc' = "move"
    <3>1. Len(cycles') = Len(cycles) + 1
      BY <1>0, <1>7, <2>2 DEF RecordCycle, TypeOK
    <3>2. PathAt(Len(cycles) + 1) = PathAt(Len(cycles)) + StepsPerCycle
      BY <1>0, PathAtNext
    <3> QED
      BY <1>0, <1>7, <2>2, <3>1, <3>2 DEF RecordCycle
  <2> QED
    BY <1>7, <2>1, <2>2 DEF RecordCycle, Record
<1>8. CASE Move
  <2>1. Len(flown') = Len(flown) + 1
    BY <1>0, <1>8 DEF Move, TypeOK
  <2> QED
    BY <1>0, <1>8, <2>1 DEF Move, AllArrived, HasArrived
<1>9. CASE EndOfCycle
  BY <1>0, <1>9 DEF EndOfCycle, AllArrived, HasArrived
<1>10. CASE UNCHANGED vars
  BY <1>0, <1>10 DEF vars, flightVars, AllArrived, HasArrived
<1> HIDE DEF PathLength
<1> QED
  BY <1>1, <1>2, <1>3, <1>4, <1>6, <1>7, <1>8, <1>9, <1>10 DEF Next

-----------------------------------------------------------------------------
(* What the rounds come to: never a stop, and never two held courses.      *)
LEMMA DecideFits ==
    ASSUME NEW a \in Actions, NEW b \in Actions, NEW d \in Nat, distance = d,
           ~(d < TriggerDistance)
    PROVE  Fits(Decide(a, b), d)
  BY ActionsAssumption, CollisionAssumption, FlightAssumption DEF Fits, Decide, Conflicts

LEMMA OverrideFits ==
    ASSUME NEW d \in Nat, d < TriggerDistance PROVE Fits(SafetyOverride, d)
  BY ActionsAssumption DEF Fits, SafetyOverride

LEMMA CycleFitsStep == FlightInv /\ [Next]_vars => CycleFits'
<1> SUFFICES ASSUME FlightInv, [Next]_vars PROVE CycleFits'
  OBVIOUS
<1>0. TypeOK /\ CycleFits /\ Separation(remaining) \in Nat
  BY SeparationType DEF FlightInv, TypeOK
<1>1. CASE pc' \notin {"talk", "record"}
  BY <1>1 DEF CycleFits
<1>2. CASE Negotiate
  BY <1>0, <1>2 DEF Negotiate, StartTalk, CycleFits, Triggered, RoundCap, Separation
<1>3. CASE SafetyStop
  <2>1. Fits(SafetyOverride, Separation(remaining))
    BY <1>0, <1>3, OverrideFits DEF SafetyStop, Triggered
  <2> QED
    BY <1>3, <2>1 DEF SafetyStop, CycleFits, Separation
<1>4. CASE Talk
  <2>1. /\ distance = Separation(remaining) /\ ~(distance < TriggerDistance)
        /\ remaining' = remaining /\ talk = "on"
        /\ proposals \in Seq(Actions)
    BY <1>0, <1>4 DEF Talk, CycleFits, TypeOK, TalkTypeOK
  <2>2. distance' = distance
    BY <1>4 DEF Talk, ProposeA, ProposeB, AgentFails
  <2>3. Separation(remaining)' = Separation(remaining)
    BY <2>1 DEF Separation
  <2>4. pc' = "talk" => Len(proposals') < 2 * RoundCap
    BY <1>0, <1>4, TalkTypeStep DEF Talk
  <2>5. ASSUME pc' = "record" PROVE Fits(decision', distance)
    <3>1. talk' = "decided"
      BY <1>0, <1>4, <2>5 DEF Talk
    <3>2. PICK action \in Actions : ProposeB(action)
      BY <1>4, <2>1, <3>1 DEF Talk, ProposeA, AgentFails
    <3>3. /\ decision' = Decide(proposals[Len(proposals)], action)
          /\ proposals[Len(proposals)] \in Actions
      BY <2>1, <3>1, <3>2 DEF ProposeB
    <3> QED
      BY <1>0, <2>1, <3>3, DecideFits
  <2> QED
    BY <2>1, <2>2, <2>3, <2>4, <2>5 DEF CycleFits
<1>5. CASE UNCHANGED vars
  BY <1>0, <1>5 DEF vars, flightVars, talkVars, CycleFits, Separation
<1>6. Next => Negotiate \/ SafetyStop \/ Talk \/ pc' \notin {"talk", "record"}
  BY DEF Next, PreFlight, PostFlight, Record, StopLooping, RecordCycle, Move, EndOfCycle
<1> QED
  BY <1>1, <1>2, <1>3, <1>4, <1>5, <1>6

LEMMA RecordFitsStep == FlightInv /\ [Next]_vars => RecordFits'
<1> SUFFICES ASSUME FlightInv, [Next]_vars PROVE RecordFits'
  OBVIOUS
<1>0. TypeOK /\ PathLength /\ CycleFits /\ RecordFits
  BY DEF FlightInv
<1>1. ASSUME UNCHANGED <<cycles, flown>> PROVE RecordFits'
  BY <1>0, <1>1 DEF RecordFits
<1>2. CASE RecordCycle
  <2>1. CASE pc' = "raised"
    BY <1>1, <1>2, <2>1 DEF RecordCycle
  <2>2. CASE pc' # "raised"
    <3> DEFINE n == Len(cycles)
    <3>1. /\ n \in Nat /\ cycles' = Append(cycles, InFlight) /\ flown' = flown
          /\ Len(cycles') = n + 1 /\ cycles'[n + 1].decision = decision
          /\ \A i \in 1..n : cycles'[i] = cycles[i]
      BY <1>0, <1>2, <2>2, BlockTypes DEF RecordCycle, TypeOK, InFlight
    <3>2. /\ PathAt(n) = Len(flown) /\ Len(flown) \in 1..Len(flown)
          /\ flown[Len(flown)] = remaining
          /\ Fits(decision, Separation(remaining))
      <4>1. pc = "record"
        BY <1>2 DEF RecordCycle
      <4>2. PathAt(n) >= 1
        BY <3>1, PathAtNext
      <4> QED
        BY <1>0, <4>1, <4>2 DEF TypeOK, PathLength, CycleFits
    <3>3. ASSUME NEW i \in 1..(n + 1)
          PROVE /\ PathAt(i - 1) \in 1..Len(flown)
                /\ Fits(cycles'[i].decision, Separation(flown[PathAt(i - 1)]))
      <4>1. CASE i = n + 1
        <5>1. i - 1 = n
          BY <4>1, <3>1
        <5> QED
          BY <4>1, <5>1, <3>1, <3>2
      <4>2. CASE i \in 1..n
        BY <1>0, <4>2, <3>1 DEF RecordFits
      <4> QED
        BY <3>1, <4>1, <4>2
    <3> QED
      BY <3>1, <3>3 DEF RecordFits
  <2> QED
    BY <2>1, <2>2
<1>3. CASE Move
  <2>1. /\ cycles' = cycles /\ Len(flown) \in Nat /\ Len(flown') = Len(flown) + 1
        /\ \A j \in 1..Len(flown) : flown'[j] = flown[j]
    BY <1>0, <1>3 DEF Move, TypeOK
  <2> QED
    BY <1>0, <2>1 DEF RecordFits
<1>4. Next => RecordCycle \/ Move \/ UNCHANGED <<cycles, flown>>
  BY DEF Next, PreFlight, PostFlight, StopLooping, Negotiate, SafetyStop, Talk, EndOfCycle
<1>5. UNCHANGED vars => UNCHANGED <<cycles, flown>>
  BY DEF vars, flightVars
<1> QED
  BY <1>1, <1>2, <1>3, <1>4, <1>5

-----------------------------------------------------------------------------
LEMMA FlightInvStep == FlightInv /\ [Next]_vars => FlightInv'
  BY TypeStep, PathLengthStep, CycleFitsStep, RecordFitsStep DEF FlightInv

LEMMA FlightInvAlways == Spec => []FlightInv
  BY InitFlightInv, FlightInvStep, PTL DEF Spec

(* Every variable keeps its type, and the agents are asked only while a    *)
(* cycle waits for them.                                                   *)
THEOREM FlightTypeCorrect == Spec => []TypeOK
<1>1. FlightInv => TypeOK
  BY DEF FlightInv
<1> QED
  BY <1>1, FlightInvAlways, PTL

(* A cycle of the record is a safety stop exactly when the drones were     *)
(* nearer than the trigger distance at its point of the paths, whatever    *)
(* the shape of the paths and however many steps a cycle takes.            *)
THEOREM StopsAlwaysMatchPath == Spec => []StopsMatchPath
<1>1. FlightInv => StopsMatchPath
  BY DEF FlightInv, RecordFits, Fits, StopsMatchPath, IsStop, At, PathAt
<1> QED
  BY <1>1, FlightInvAlways, PTL

(* No decision lets both drones hold their course within the risk          *)
(* distance, whatever the agents propose.                                  *)
THEOREM NeverHeadOn == Spec => []NoHeadOnDecision
<1>1. FlightInv => NoHeadOnDecision
  BY DEF FlightInv, RecordFits, Fits, NoHeadOnDecision, At, PathAt
<1> QED
  BY <1>1, FlightInvAlways, PTL

-----------------------------------------------------------------------------
(* The chain below the first summary: two blocks, then those of the cycles. *)
Below(blocks) ==
    /\ Len(blocks) >= Len(cycles) + 2
    /\ blocks[1].kind = "pre_flight" /\ blocks[2].kind = "pre_flight"
    /\ \A i \in 1..Len(cycles) : blocks[i + 2] = cycles[i]
    /\ \A i \in (Len(cycles) + 3)..Len(blocks) : blocks[i].kind = "post_flight"

LedgerFits ==
    /\ pc = "pre_a" => ledger = <<>>
    /\ pc = "pre_b" => Len(ledger) = 1 /\ ledger[1].kind = "pre_flight"
    /\ pc \in {"head", "talk", "record", "move", "post_a"} =>
           Below(ledger) /\ Len(ledger) = Len(cycles) + 2
    /\ pc = "post_b" => Below(ledger) /\ Len(ledger) = Len(cycles) + 3
    /\ pc = "done" => Below(ledger) /\ Len(ledger) = Len(cycles) + 4

LedgerInv == FlightInv /\ LedgerFits /\ SummaryMatchesRecord

(* What is in such a chain is what is in the cycles, two places further on. *)
LEMMA SameCount ==
    ASSUME TypeOK, NEW blocks \in Seq(FlightBlocks), Below(blocks), NEW field, NEW value
    PROVE  Cardinality(Having(blocks, field, value))
               = Cardinality(Having(cycles, field, value))
<1> DEFINE S == Having(cycles, field, value)
           T == Having(blocks, field, value)
           f == [i \in S |-> i + 2]
<1>1. S \in SUBSET (1..Len(cycles)) /\ Len(cycles) \in Nat /\ Len(blocks) \in Nat
  BY DEF TypeOK, Having
<1>2. IsFiniteSet(S)
  <2>1. IsFiniteSet(1..Len(cycles))
    BY <1>1, FS_Interval
  <2> HIDE DEF S
  <2> QED
    BY <1>1, <2>1, FS_Subset
<1>3. \A i \in 1..Len(cycles) : cycles[i].kind = "in_flight" /\ blocks[i + 2] = cycles[i]
  <2>1. \A i \in 1..Len(cycles) : cycles[i] \in CycleBlocks
    BY DEF TypeOK
  <2> QED
    BY <2>1 DEF CycleBlocks, Below
<1>4. ASSUME NEW i \in S PROVE i + 2 \in T
  BY <1>1, <1>3, <1>4 DEF Having, Below
<1>5. ASSUME NEW j \in T PROVE j - 2 \in S
  <2>1. j \in 1..Len(blocks) /\ blocks[j].kind = "in_flight"
    BY DEF Having
  <2>2. j \in 3..(Len(cycles) + 2)
    BY <1>1, <2>1 DEF Below
  <2>3. (j - 2) + 2 = j /\ j - 2 \in 1..Len(cycles)
    BY <1>1, <2>2
  <2>4. blocks[j] = cycles[j - 2]
    BY <1>3, <2>3
  <2> QED
    BY <1>5, <2>3, <2>4 DEF Having
<1>6. f \in Bijection(S, T)
  <2>1. f \in [S -> T] /\ \A i, j \in S : f[i] = f[j] => i = j
    BY <1>1, <1>4
  <2>2. \A j \in T : j - 2 \in S /\ f[j - 2] = j
    BY <1>5 DEF Having
  <2> HIDE DEF S, T, f
  <2> QED
    BY <2>1, <2>2, Fun_IsBij
<1> HIDE DEF S, T, f
<1>7. Cardinality(T) = Cardinality(S)
  BY <1>2, <1>6, FS_Bijection DEF ExistsBijection
<1> QED
  BY <1>7 DEF S, T

(* The step that goes on from a block that is on no chain.                 *)
Unrecorded ==
    /\ pc \in {"pre_a", "pre_b", "record", "post_a", "post_b"}
    /\ pc' \notin {pc, "raised"} /\ ledger' = ledger

LEMMA Recorded ==
    ASSUME ~Unrecorded, NEW block, NEW next, Record(block, next), next \notin {pc, "raised"},
           pc \in {"pre_a", "pre_b", "record", "post_a", "post_b"}
    PROVE  \/ pc' = "raised" /\ UNCHANGED ledger
           \/ pc' = next /\ ledger' = Append(ledger, block)
  BY DEF Unrecorded, Record

(* Without such an outcome there is no such step.                          *)
LEMMA NoneUnrecorded ==
    ASSUME TypeOK, "unrecorded" \notin Outcomes, [Next]_vars PROVE ~Unrecorded
<1>1. ASSUME NEW block, NEW next, Record(block, next) PROVE ~Unrecorded
  <2>1. ledger' = Append(ledger, block) => ledger' # ledger
    <3>1. ledger \in Seq(FlightBlocks \cup {block})
      <4>1. ledger \in Seq(FlightBlocks)
        BY DEF TypeOK
      <4> QED
        BY <4>1, SeqMonotonic
    <3>2. Len(Append(ledger, block)) = Len(ledger) + 1 /\ Len(ledger) \in Nat
      BY <3>1
    <3> QED
      BY <3>2
  <2> QED
    BY <1>1, <2>1 DEF Record, Unrecorded
<1>2. CASE UNCHANGED pc
  BY <1>2 DEF Unrecorded
<1>3. CASE StopLooping \/ Negotiate \/ SafetyStop \/ Talk \/ Move \/ EndOfCycle
  BY <1>3 DEF StopLooping, Negotiate, SafetyStop, Looping, Talk, Move, EndOfCycle, Unrecorded
<1> QED
  BY <1>1, <1>2, <1>3 DEF Next, PreFlight, PostFlight, RecordCycle, vars, flightVars

(* What a block has counted below it stays so when the chain grows.        *)
Counts(block, below) ==
    block.kind = "post_flight" =>
        /\ block.replans = Replans(below)
        /\ block.stops = Stops(below)
        /\ block.ties = Ties(below)

LEMMA GrownChain ==
    ASSUME TypeOK, SummaryMatchesRecord, NEW block \in FlightBlocks,
           ledger' = Append(ledger, block), Counts(block, Append(ledger, block))
    PROVE  SummaryMatchesRecord'
<1> DEFINE n == Len(ledger)
<1>1. ledger \in Seq(FlightBlocks) /\ n \in Nat /\ ledger' \in Seq(FlightBlocks)
      /\ Len(ledger') = n + 1 /\ ledger'[n + 1] = block
      /\ \A i \in 1..n : ledger'[i] = ledger[i]
  BY DEF TypeOK
<1>2. SUFFICES ASSUME NEW i \in 1..(n + 1) PROVE Counts(ledger'[i], SubSeq(ledger', 1, i))
  BY <1>1 DEF SummaryMatchesRecord, SummedUp, Counts
<1>3. CASE i = n + 1
  <2>1. SubSeq(ledger', 1, i) = ledger'
    BY <1>1, <1>3, SubSeqFull
  <2> QED
    BY <1>1, <1>3, <2>1
<1>4. CASE i \in 1..n
  <2>1. SubSeq(ledger', 1, i) = SubSeq(ledger, 1, i)
    BY <1>1, <1>4
  <2>2. Counts(ledger[i], SubSeq(ledger, 1, i))
    BY <1>4 DEF SummaryMatchesRecord, SummedUp, Counts
  <2> QED
    BY <1>1, <1>4, <2>1, <2>2
<1> QED
  BY <1>1, <1>3, <1>4

LEMMA SummaryCounts ==
    ASSUME TypeOK, NEW blocks \in Seq(FlightBlocks), Below(blocks)
    PROVE  Counts(Summary, blocks)
  BY SameCount DEF Counts, Summary, Replans, Stops, Ties

(* A chain that holds the cycles goes on to do so under one more block.    *)
LEMMA BelowGrows ==
    ASSUME TypeOK, Below(ledger), NEW block \in FlightBlocks, block.kind = "post_flight"
    PROVE  Below(Append(ledger, block))
<1> DEFINE n == Len(ledger)
           grown == Append(ledger, block)
<1>1. /\ n \in Nat /\ Len(cycles) \in Nat /\ Len(grown) = n + 1 /\ grown[n + 1] = block
      /\ \A i \in 1..n : grown[i] = ledger[i]
  BY DEF TypeOK
<1> HIDE DEF grown
<1>2. /\ n >= Len(cycles) + 2
      /\ grown[1].kind = "pre_flight" /\ grown[2].kind = "pre_flight"
  BY <1>1 DEF Below
<1>3. ASSUME NEW i \in 1..Len(cycles) PROVE grown[i + 2] = cycles[i]
  BY <1>1, <1>2 DEF Below
<1>4. ASSUME NEW i \in (Len(cycles) + 3)..(n + 1) PROVE grown[i].kind = "post_flight"
  <2>1. CASE i = n + 1
    BY <1>1, <2>1
  <2>2. CASE i \in (Len(cycles) + 3)..n
    BY <1>1, <2>2 DEF Below
  <2> QED
    BY <1>1, <2>1, <2>2
<1>5. Below(grown)
  BY <1>1, <1>2, <1>3, <1>4 DEF Below
<1> QED
  BY <1>5 DEF grown

(* Steps that write nothing on the chain and end no cycle.                 *)
LEMMA QuietStep ==
    ASSUME LedgerInv, UNCHANGED <<cycles, ledger>>,
           \/ pc' = pc \/ pc' = "raised"
           \/ /\ pc \in {"head", "talk", "move"}
              /\ pc' \in {"head", "talk", "record", "post_a"}
    PROVE  LedgerFits' /\ SummaryMatchesRecord'
<1>1. LedgerFits /\ SummaryMatchesRecord /\ ledger' = ledger /\ cycles' = cycles
  BY DEF LedgerInv
<1>2. SummaryMatchesRecord'
  BY <1>1 DEF SummaryMatchesRecord, SummedUp
<1>3. CASE pc' = pc
  BY <1>1, <1>2, <1>3 DEF LedgerFits, Below
<1>4. CASE pc' = "raised"
  BY <1>2, <1>4 DEF LedgerFits
<1>5. CASE /\ pc \in {"head", "talk", "move"}
           /\ pc' \in {"head", "talk", "record", "post_a"}
  BY <1>1, <1>2, <1>5 DEF LedgerFits, Below
<1> QED
  BY <1>3, <1>4, <1>5

LEMMA RecordCycleLedger ==
    ASSUME LedgerInv, ~Unrecorded, RecordCycle
    PROVE  LedgerFits' /\ SummaryMatchesRecord'
<1>0. TypeOK /\ Below(ledger) /\ Len(ledger) = Len(cycles) + 2 /\ SummaryMatchesRecord
  BY DEF LedgerInv, FlightInv, LedgerFits, RecordCycle
<1>1. InFlight \in CycleBlocks /\ InFlight \in FlightBlocks /\ InFlight.kind = "in_flight"
  BY <1>0, BlockTypes DEF FlightBlocks, InFlight
<1>2. CASE pc' = "raised" /\ UNCHANGED ledger
  <2>1. UNCHANGED cycles
    BY <1>2 DEF RecordCycle
  <2> QED
    BY <1>2, <2>1, QuietStep
<1>3. CASE pc' = "move" /\ ledger' = Append(ledger, InFlight)
  <2>1. SummaryMatchesRecord'
    BY <1>0, <1>1, <1>3, GrownChain DEF Counts
  <2>2. /\ Len(cycles') = Len(cycles) + 1 /\ cycles'[Len(cycles) + 1] = InFlight
        /\ \A i \in 1..Len(cycles) : cycles'[i] = cycles[i]
        /\ Len(ledger') = Len(ledger) + 1 /\ ledger'[Len(ledger) + 1] = InFlight
        /\ \A i \in 1..Len(ledger) : ledger'[i] = ledger[i]
        /\ Len(cycles) \in Nat
    BY <1>0, <1>1, <1>3 DEF RecordCycle, TypeOK
  <2>3. ASSUME NEW i \in 1..Len(cycles') PROVE ledger'[i + 2] = cycles'[i]
    BY <1>0, <2>2 DEF Below
  <2>4. Below(ledger)'
    BY <1>0, <2>2, <2>3 DEF Below
  <2> QED
    BY <1>0, <1>3, <2>1, <2>2, <2>4 DEF LedgerFits
<1> QED
  BY <1>2, <1>3, Recorded DEF RecordCycle

LEMMA LedgerStep ==
    ASSUME LedgerInv, ~Unrecorded, [Next]_vars
    PROVE  LedgerFits' /\ SummaryMatchesRecord'
<1>0. TypeOK /\ PathLength /\ LedgerFits /\ SummaryMatchesRecord
  BY DEF LedgerInv, FlightInv
<1>1. ASSUME NEW place \in {"pre_a", "pre_b"}, NEW next \in {"pre_b", "head"},
             PreFlight(place, next), place = "pre_a" <=> next = "pre_b"
      PROVE LedgerFits' /\ SummaryMatchesRecord'
  <2> DEFINE block == [kind |-> "pre_flight"]
  <2>1. CASE pc' = "raised" /\ UNCHANGED ledger
    BY <1>1, <2>1, QuietStep DEF PreFlight
  <2>2. CASE pc' = next /\ ledger' = Append(ledger, block)
    <3>1. block \in FlightBlocks /\ block.kind = "pre_flight"
      BY <1>0, BlockTypes
    <3>2. SummaryMatchesRecord'
      BY <1>0, <2>2, <3>1, GrownChain DEF Counts
    <3>3. /\ cycles' = <<>> /\ Len(cycles') = 0
          /\ Len(ledger') = Len(ledger) + 1 /\ ledger'[Len(ledger) + 1] = block
          /\ \A i \in 1..Len(ledger) : ledger'[i] = ledger[i]
      BY <1>0, <1>1, <2>2, <3>1 DEF PreFlight, PathLength, TypeOK
    <3>4. CASE place = "pre_a"
      BY <1>0, <1>1, <2>2, <3>1, <3>2, <3>3, <3>4 DEF PreFlight, LedgerFits
    <3>5. CASE place = "pre_b"
      <4>1. Len(ledger) = 1 /\ ledger[1].kind = "pre_flight"
        BY <1>0, <1>1, <3>5 DEF PreFlight, LedgerFits
      <4>2. Below(ledger)' /\ Len(ledger') = Len(cycles') + 2
        BY <3>1, <3>3, <4>1 DEF Below
      <4> QED
        BY <1>1, <2>2, <3>2, <3>5, <4>2 DEF LedgerFits
    <3> QED
      BY <3>4, <3>5
  <2> QED
    BY <1>1, <2>1, <2>2, Recorded DEF PreFlight
<1>2. ASSUME NEW place \in {"post_a", "post_b"}, NEW next \in {"post_b", "done"},
             PostFlight(place, next), place = "post_a" <=> next = "post_b"
      PROVE LedgerFits' /\ SummaryMatchesRecord'
  <2>1. CASE pc' = "raised" /\ UNCHANGED ledger
    BY <1>2, <2>1, QuietStep DEF PostFlight
  <2>2. CASE pc' = next /\ ledger' = Append(ledger, Summary)
    <3>1. Summary \in FlightBlocks /\ Summary.kind = "post_flight" /\ Below(ledger)
      BY <1>0, <1>2, SummaryType DEF PostFlight, LedgerFits, Summary
    <3>2. /\ Below(ledger') /\ ledger' \in Seq(FlightBlocks) /\ cycles' = cycles
          /\ Len(ledger') = Len(ledger) + 1 /\ Len(cycles) \in Nat
      BY <1>0, <1>2, <2>2, <3>1, BelowGrows DEF PostFlight, TypeOK
    <3>3. SummaryMatchesRecord'
      BY <1>0, <2>2, <3>1, <3>2, SummaryCounts, GrownChain
    <3>4. Below(ledger)'
      BY <3>2 DEF Below
    <3>5. Len(ledger') = Len(cycles') + (IF next = "post_b" THEN 3 ELSE 4)
      BY <1>0, <1>2, <3>2 DEF PostFlight, LedgerFits
    <3> QED
      BY <1>2, <2>2, <3>3, <3>4, <3>5 DEF LedgerFits
  <2> QED
    BY <1>2, <2>1, <2>2, Recorded DEF PostFlight
<1>3. CASE RecordCycle
  BY <1>3, RecordCycleLedger
<1>4. CASE StopLooping \/ Negotiate \/ SafetyStop \/ Talk \/ Move \/ EndOfCycle
  <2>1. UNCHANGED <<cycles, ledger>>
    BY <1>4 DEF StopLooping, Negotiate, SafetyStop, Talk, Move, EndOfCycle
  <2>2. \/ pc' = pc \/ pc' = "raised"
        \/ /\ pc \in {"head", "talk", "move"}
           /\ pc' \in {"head", "talk", "record", "post_a"}
    BY <1>4 DEF StopLooping, Negotiate, SafetyStop, Looping, Talk, Move, EndOfCycle
  <2> QED
    BY <2>1, <2>2, QuietStep
<1>5. CASE UNCHANGED vars
  BY <1>5, QuietStep DEF vars, flightVars
<1> QED
  BY <1>1, <1>2, <1>3, <1>4, <1>5 DEF Next

LEMMA LedgerInit == Init => LedgerInv
<1> SUFFICES ASSUME Init PROVE LedgerInv
  OBVIOUS
<1>1. LedgerFits /\ SummaryMatchesRecord
  BY DEF Init, LedgerFits, SummaryMatchesRecord, SummedUp
<1> QED
  BY <1>1, InitFlightInv DEF LedgerInv

LEMMA LedgerInvStep == LedgerInv /\ ~Unrecorded /\ [Next]_vars => LedgerInv'
  BY FlightInvStep, LedgerStep DEF LedgerInv

(* If what is returned as recorded is recorded, both post-flight blocks    *)
(* count what the chain below them holds, also when the flight ends in     *)
(* an exception between two blocks.                                        *)
THEOREM SummariesMatchRecord ==
    ASSUME "unrecorded" \notin Outcomes PROVE Spec => []SummaryMatchesRecord
<1>1. LedgerInv => SummaryMatchesRecord
  BY DEF LedgerInv
<1>2. LedgerInv /\ [Next]_vars => LedgerInv'
  BY LedgerInvStep, NoneUnrecorded DEF LedgerInv, FlightInv
<1> QED
  BY <1>1, <1>2, LedgerInit, PTL DEF Spec

-----------------------------------------------------------------------------
(* One more block on the chain.                                            *)
LEMMA OneMore ==
    ASSUME NEW blocks \in Seq(FlightBlocks), NEW block \in FlightBlocks
    PROVE  /\ IsFiniteSet(CyclesIn(blocks)) /\ Cardinality(CyclesIn(blocks)) \in Nat
           /\ Cardinality(CyclesIn(Append(blocks, block))) =
                  IF block.kind = "in_flight" THEN Cardinality(CyclesIn(blocks)) + 1
                  ELSE Cardinality(CyclesIn(blocks))
<1> DEFINE n == Len(blocks)
           grown == Append(blocks, block)
<1>1. /\ n \in Nat /\ Len(grown) = n + 1 /\ grown[n + 1] = block
      /\ \A i \in 1..n : grown[i] = blocks[i]
  OBVIOUS
<1>2. IsFiniteSet(CyclesIn(blocks)) /\ Cardinality(CyclesIn(blocks)) \in Nat
  <2>1. IsFiniteSet(1..n) /\ CyclesIn(blocks) \in SUBSET (1..n)
    BY <1>1, FS_Interval DEF CyclesIn
  <2> QED
    BY <2>1, FS_Subset, FS_CardinalityType
<1> HIDE DEF grown
<1>3. CyclesIn(grown) = CyclesIn(blocks) \cup
                        IF block.kind = "in_flight" THEN {n + 1} ELSE {}
  BY <1>1 DEF CyclesIn
<1>4. n + 1 \notin CyclesIn(blocks)
  BY <1>1 DEF CyclesIn
<1>5. CASE block.kind = "in_flight"
  BY <1>2, <1>3, <1>4, <1>5, FS_AddElement DEF grown
<1>6. CASE block.kind # "in_flight"
  BY <1>2, <1>3, <1>6 DEF grown
<1> QED
  BY <1>2, <1>5, <1>6

LEMMA OneBlockStep ==
    ASSUME TypeOK, OneBlockPerCycle, ~Unrecorded, [Next]_vars
    PROVE  OneBlockPerCycle'
<1> DEFINE Same(c, l) == Len(c) = Cardinality(CyclesIn(l))
<1>1. OneBlockPerCycle <=> Same(cycles, ledger)
  BY DEF OneBlockPerCycle
<1>2. OneBlockPerCycle' <=> Same(cycles', ledger')
  BY DEF OneBlockPerCycle
<1>3. ledger \in Seq(FlightBlocks) /\ cycles \in Seq(CycleBlocks) /\ Len(cycles) \in Nat
  BY DEF TypeOK
<1> HIDE DEF Same
<1>4. CASE UNCHANGED <<cycles, ledger>>
  BY <1>1, <1>2, <1>4
<1>5. ASSUME NEW block \in FlightBlocks, block.kind # "in_flight",
             ledger' = Append(ledger, block), UNCHANGED cycles
      PROVE  OneBlockPerCycle'
  BY <1>1, <1>2, <1>3, <1>5, OneMore DEF Same
<1>6. CASE PreFlight("pre_a", "pre_b") \/ PreFlight("pre_b", "head")
  <2>1. [kind |-> "pre_flight"] \in FlightBlocks
    BY BlockTypes
  <2> QED
    BY <1>4, <1>5, <1>6, <2>1, Recorded DEF PreFlight
<1>7. CASE PostFlight("post_a", "post_b") \/ PostFlight("post_b", "done")
  <2>1. Summary \in FlightBlocks /\ Summary.kind # "in_flight"
    BY SummaryType DEF Summary
  <2> QED
    BY <1>4, <1>5, <1>7, <2>1, Recorded DEF PostFlight
<1>8. CASE RecordCycle
  <2>1. InFlight \in FlightBlocks /\ InFlight \in CycleBlocks /\ InFlight.kind = "in_flight"
    BY BlockTypes DEF FlightBlocks, InFlight
  <2>2. CASE ledger' = Append(ledger, InFlight) /\ cycles' = Append(cycles, InFlight)
    <3>1. Len(cycles') = Len(cycles) + 1
      BY <1>3, <2>1, <2>2
    <3> QED
      BY <1>1, <1>2, <1>3, <2>1, <2>2, <3>1, OneMore DEF Same
  <2> QED
    BY <1>4, <1>8, <2>2, Recorded DEF RecordCycle
<1>9. CASE StopLooping \/ Negotiate \/ SafetyStop \/ Talk \/ Move \/ EndOfCycle \/ UNCHANGED vars
  BY <1>4, <1>9
  DEF StopLooping, Negotiate, SafetyStop, Talk, Move, EndOfCycle, vars, flightVars
<1> QED
  BY <1>6, <1>7, <1>8, <1>9 DEF Next

LEMMA OneBlockInit == Init => OneBlockPerCycle
<1> SUFFICES ASSUME Init PROVE OneBlockPerCycle
  OBVIOUS
<1>1. Len(cycles) = 0 /\ Len(ledger) = 0
  BY DEF Init
<1>2. CyclesIn(ledger) = {}
  BY <1>1 DEF CyclesIn
<1> QED
  BY <1>1, <1>2, FS_EmptySet DEF OneBlockPerCycle

(* run_flight_cycle: "commit exactly one in_flight block", if no block is  *)
(* returned that is on no chain: a flight counts as many cycles as there   *)
(* are in-flight blocks on the chain, whichever exception ends it.         *)
THEOREM OneBlockEachCycle ==
    ASSUME "unrecorded" \notin Outcomes PROVE Spec => []OneBlockPerCycle
<1>1. TypeOK /\ OneBlockPerCycle /\ [Next]_vars => OneBlockPerCycle'
  BY OneBlockStep, NoneUnrecorded
<1> QED
  BY <1>1, OneBlockInit, FlightTypeCorrect, PTL DEF Spec
=============================================================================
