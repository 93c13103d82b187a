-------------------------- MODULE DemoFlight_proofs --------------------------
(***************************************************************************)
(* With at most one failure, at whatever request, a majority of the nodes  *)
(* holds all that the flight has done and nothing else, and a report that  *)
(* finds two nodes in agreement counts it.                                 *)
(*                                                                         *)
(* The argument: the failure exempts at most one node.  The others have    *)
(* the same chain between two proposals, so that they all sign, and all    *)
(* take, what is proposed on top of it: no block is returned to the flight *)
(* that is on no chain, and what FlightRun promises of such flights holds  *)
(* of the chain they share.                                                *)
(***************************************************************************)
EXTENDS DemoFlight, FiniteSetTheorems, SequenceTheorems, TLAPS

(* A process on its way up does not answer /health yet.                    *)
StartInv ==
    /\ launching \subseteq Nodes
    /\ up \in [Nodes -> BOOLEAN]
    /\ \A n \in launching : ~up[n]

(* Those that were found healthy were started; the flight comes after all. *)
WaitInv ==
    /\ checked \in 0..Len(Urls)
    /\ \A i \in 1..checked : Urls[i] \notin launching
    /\ main = "start" => checked < Len(Urls)
    /\ main \notin {"start", "ended"} => checked = Len(Urls)

UpInv == StartInv /\ WaitInv

LEMMA UrlsAreNodes ==
    /\ Len(Urls) \in Nat /\ Len(Urls) >= 2
    /\ \A i \in 1..Len(Urls) : Urls[i] \in Nodes
    /\ \A n \in Nodes : \E i \in 1..Len(Urls) : Urls[i] = n
  BY UrlsAssumption DEF ToSet

LEMMA UpInit == Init => UpInv
  BY UrlsAreNodes DEF Init, UpInv, StartInv, WaitInv

(* What the flight and its proposals do, and what the report is made of,   *)
(* starts and stops no node.                                               *)
LEMMA Elsewhere ==
    ASSUME UpInv, UNCHANGED <<launching, checked, up>>,
           UNCHANGED main \/ {main, main'} \cap {"start", "ended"} = {}
    PROVE  UpInv'
  BY DEF UpInv, StartInv, WaitInv

LEMMA KilledIsDown ==
    ASSUME UpInv, UNCHANGED <<main, launching, checked>>,
           NEW n \in Nodes, up' = [up EXCEPT ![n] = FALSE]
    PROVE  UpInv'
  BY DEF UpInv, StartInv, WaitInv

LEMMA UpNext == UpInv /\ [Next]_vars => UpInv'
<1> SUFFICES ASSUME UpInv, [Next]_vars
             PROVE  UpInv'
  OBVIOUS
<1> USE DEF mainVars, netVars
<1>1. CASE WaitHealth
  <2>1. /\ checked + 1 \in 1..Len(Urls)
        /\ Urls[checked + 1] \in Nodes /\ up[Urls[checked + 1]]
        /\ checked' = checked + 1
        /\ UNCHANGED <<launching, up>>
    BY <1>1, UrlsAreNodes DEF WaitHealth, UpInv, WaitInv
  <2>2. Urls[checked + 1] \notin launching
    BY <2>1 DEF UpInv, StartInv
  <2>3. \A i \in 1..checked' : Urls[i] \notin launching'
    BY <2>1, <2>2, UrlsAreNodes DEF UpInv, WaitInv
  <2>4. WaitInv'
    BY <1>1, <2>1, <2>3, UrlsAreNodes DEF WaitHealth, AllHealthy, UpInv, WaitInv
  <2>5. main' # "ended"
    BY <1>1 DEF WaitHealth
  <2> QED
    BY <2>1, <2>4, <2>5 DEF UpInv, StartInv
<1>2. CASE NeverHealthy
  BY <1>2, UrlsAreNodes DEF NeverHealthy, UpInv, StartInv, WaitInv
<1>3. CASE FlyOn
  BY <1>3, Elsewhere DEF FlyOn
<1>4. CASE Propose
  BY <1>4, Elsewhere DEF Propose, Net!GetTip, Net!GetTipFails
<1>5. CASE Proceed
  BY <1>5, Elsewhere DEF Proceed, Net!Proceed, Net!RequestSignature,
     Net!SignatureRequestFails, Net!RequestCommit, Net!CommitRequestFails
<1>6. CASE Conclude
  BY <1>6, Elsewhere DEF Conclude
<1>7. CASE FlightOver \/ ReadFirst \/ ReadSecond \/ Draw
  BY <1>7, Elsewhere DEF FlightOver, ReadFirst, ReadSecond, Draw
<1>8. CASE ReadFails
  BY <1>8, Elsewhere DEF ReadFails
<1>9. CASE StopNodes
  <2>1. WaitInv'
    BY <1>9, UrlsAreNodes DEF StopNodes, UpInv, WaitInv
  <2> QED
    BY <1>9, <2>1 DEF StopNodes, UpInv, StartInv
<1>10. ASSUME NEW n \in Nodes, ComeUp(n) \/ FailToStart(n)
       PROVE  UpInv'
  <2>1. /\ n \in launching /\ launching' = launching \ {n}
        /\ UNCHANGED <<main, checked>>
        /\ up' = up \/ up' = [up EXCEPT ![n] = TRUE]
    BY <1>10 DEF ComeUp, FailToStart, Net!Restart
  <2>2. checked # Len(Urls)
    BY <2>1, UrlsAreNodes DEF UpInv, StartInv, WaitInv
  <2> QED
    BY <2>1, <2>2 DEF UpInv, StartInv, WaitInv
<1>11. CASE (\E m \in late : Net!ServeLate(m)) /\ UNCHANGED <<mainVars, flightVars>>
  BY <1>11, Elsewhere DEF Net!ServeLate
<1>12. ASSUME NEW n \in Nodes, Net!Crash(n), UNCHANGED <<mainVars, flightVars>>
       PROVE  UpInv'
  BY <1>12, KilledIsDown DEF Net!Crash
<1>13. CASE UNCHANGED vars
  BY <1>13, Elsewhere DEF vars
<1> QED
  BY <1>1, <1>2, <1>3, <1>4, <1>5, <1>6, <1>7, <1>8, <1>9, <1>10, <1>11, <1>12, <1>13
  DEF Next, Main, Around

-----------------------------------------------------------------------------
LEMMA FlightStarts == Init => Flight!Init
  BY DEF Init

(* A proposal shows in the flight as one step, taken when it has ended.    *)
LEMMA FlightNext == [Next]_vars => [Flight!Next]_(Flight!vars)
<1> SUFFICES ASSUME [Next]_vars
             PROVE  Flight!Next \/ UNCHANGED Flight!vars
  OBVIOUS
<1>1. UNCHANGED flightVars => UNCHANGED Flight!vars
  BY DEF flightVars, Flight!vars, Flight!flightVars, Flight!talkVars
<1>2. CASE FlyOn
  BY <1>2 DEF FlyOn, Flight!Next
<1>3. CASE Conclude
  BY <1>3 DEF Conclude, RecordBlock, Flight!Next
<1>4. CASE UNCHANGED flightVars
  BY <1>1, <1>4
<1>5. CASE ~FlyOn /\ ~Conclude
  BY <1>4, <1>5
  DEF Next, Main, Around, vars, WaitHealth, NeverHealthy, Propose, Proceed, FlightOver,
      ReadFirst, ReadSecond, Draw, ReadFails, StopNodes, ComeUp, FailToStart
<1> QED
  BY <1>2, <1>3, <1>5

-----------------------------------------------------------------------------
(* What is proved of a flight holds of this one.                           *)

(* The theorems of FlightRun, for these outcomes.  The instance brings its *)
(* own copy of every definition; the copies are equal.                     *)
FlightP == INSTANCE FlightRun_proofs WITH Outcomes <- {"recorded", "unrecorded", "raised"}

LEMMA FlightConstants ==
    /\ FlightP!FlightAssumption /\ FlightP!ActionsAssumption /\ FlightP!CollisionAssumption
  BY FlightAssumption
  DEF FlightP!FlightAssumption, FlightP!ActionsAssumption, FlightP!CollisionAssumption,
      FlightP!Ways, Flight!Ways

LEMMA SameFlight ==
    /\ Flight!vars = FlightP!vars
    /\ Flight!Separation(remaining) = FlightP!Separation(remaining)
    /\ Flight!AllArrived = FlightP!AllArrived
    /\ Flight!Looping = FlightP!Looping
    /\ Flight!SafetyOverride = FlightP!SafetyOverride
    /\ Flight!InFlight = FlightP!InFlight
    /\ Flight!Drones = FlightP!Drones
    /\ \A d : /\ Flight!Triggered(d) = FlightP!Triggered(d)
              /\ Flight!Nearer(d) = FlightP!Nearer(d)
  BY DEF Flight!vars, FlightP!vars, Flight!flightVars, FlightP!flightVars, Flight!talkVars,
         FlightP!talkVars, Flight!Separation, FlightP!Separation, Flight!AllArrived,
         FlightP!AllArrived, Flight!Looping, FlightP!Looping, Flight!Triggered,
         FlightP!Triggered, Flight!SafetyOverride, FlightP!SafetyOverride, Flight!InFlight,
         FlightP!InFlight, Flight!Drones, FlightP!Drones, Flight!Nearer, FlightP!Nearer,
         Flight!HasArrived, FlightP!HasArrived

LEMMA SameSummary == Flight!Summary = FlightP!Summary
  BY DEF Flight!Summary, FlightP!Summary, Flight!Replans, FlightP!Replans, Flight!Stops,
         FlightP!Stops, Flight!Ties, FlightP!Ties, Flight!Having, FlightP!Having,
         Flight!Cardinality, FlightP!Cardinality

LEMMA SameRecord == \A b, n : Flight!Record(b, n) <=> FlightP!Record(b, n)
  BY DEF Flight!Record, FlightP!Record

LEMMA SameInit == Flight!Init => FlightP!Init
  BY DEF Flight!Init, FlightP!Init, Flight!TalkInit, FlightP!TalkInit, Flight!Drones,
         FlightP!Drones, Flight!Undecided, FlightP!Undecided

LEMMA SameNext == Flight!Next => FlightP!Next
<1> USE SameFlight, SameSummary, SameRecord
<1>1. ASSUME NEW p, NEW n
      PROVE  /\ Flight!PreFlight(p, n) => FlightP!PreFlight(p, n)
             /\ Flight!PostFlight(p, n) => FlightP!PostFlight(p, n)
  BY DEF Flight!PreFlight, FlightP!PreFlight, Flight!PostFlight, FlightP!PostFlight,
         Flight!talkVars, FlightP!talkVars
<1>2. /\ Flight!StopLooping => FlightP!StopLooping
      /\ Flight!Negotiate => FlightP!Negotiate
      /\ Flight!SafetyStop => FlightP!SafetyStop
      /\ Flight!EndOfCycle => FlightP!EndOfCycle
      /\ Flight!RecordCycle => FlightP!RecordCycle
  BY DEF Flight!StopLooping, FlightP!StopLooping, Flight!Negotiate, FlightP!Negotiate,
         Flight!SafetyStop, FlightP!SafetyStop, Flight!EndOfCycle, FlightP!EndOfCycle,
         Flight!RecordCycle, FlightP!RecordCycle, Flight!StartTalk, FlightP!StartTalk,
         Flight!EndTalk, FlightP!EndTalk, Flight!Undecided, FlightP!Undecided,
         Flight!talkVars, FlightP!talkVars
<1>3. Flight!Move => FlightP!Move
  BY DEF Flight!Move, FlightP!Move, Flight!talkVars, FlightP!talkVars
<1>4. Flight!Talk => FlightP!Talk
  <2>1. \A a : Flight!ProposeA(a) => FlightP!ProposeA(a)
    BY DEF Flight!ProposeA, FlightP!ProposeA
  <2>2. \A a : Flight!ProposeB(a) => FlightP!ProposeB(a)
    BY DEF Flight!ProposeB, FlightP!ProposeB, Flight!Decide, FlightP!Decide,
           Flight!Conflicts, FlightP!Conflicts, Flight!RoundCap, FlightP!RoundCap
  <2> QED
    BY <2>1, <2>2 DEF Flight!Talk, FlightP!Talk, Flight!AgentFails, FlightP!AgentFails
<1> QED
  BY <1>1, <1>2, <1>3, <1>4 DEF Flight!Next, FlightP!Next

LEMMA FlightPInit == Init => FlightP!Init
  BY FlightStarts, SameInit

LEMMA FlightPNext == [Next]_vars => [FlightP!Next]_(FlightP!vars)
<1>1. UNCHANGED Flight!vars => UNCHANGED FlightP!vars
  BY DEF Flight!vars, FlightP!vars, Flight!flightVars, FlightP!flightVars, Flight!talkVars,
         FlightP!talkVars
<1> QED
  BY <1>1, FlightNext, SameNext

LEMMA SameTypes == FlightP!TypeOK <=> Flight!TypeOK
  BY DEF FlightP!TypeOK, Flight!TypeOK, FlightP!Places, Flight!Places, FlightP!Drones,
         Flight!Drones, FlightP!Ways, Flight!Ways, FlightP!CycleBlocks, Flight!CycleBlocks,
         FlightP!FlightBlocks, Flight!FlightBlocks, FlightP!TalkTypeOK, Flight!TalkTypeOK,
         FlightP!Decisions, Flight!Decisions, FlightP!Methods, Flight!Methods,
         FlightP!Events, Flight!Events, FlightP!RoundCap, Flight!RoundCap

-----------------------------------------------------------------------------
(* Types, and what the nodes hold.                                         *)

(* The lemmas of PoANetwork, for one client and one route.                 *)
NetP == INSTANCE PoANetwork_proofs WITH
            Payloads <- Stamped,
            Clients <- {Script}, Routes <- {Urls}, Persist <- FALSE

LEMMA NetConstants ==
    /\ NetP!NodesAssumption /\ NetP!MajorityAssumption /\ NetP!PayloadAssumption
    /\ NetP!RoutesAssumption /\ NetP!PersistAssumption /\ NetP!BoundsAssumption
<1>1. Nodes # {} /\ Urls \in Seq(Nodes) /\ Urls # <<>>
  BY UrlsAssumption, UrlsAreNodes
<1>2. NetP!NodesAssumption /\ NetP!RoutesAssumption
  BY <1>1, MajorityAssumption 
  DEF NetP!NodesAssumption, NetP!RoutesAssumption, NetP!IsFiniteSet, IsFiniteSet
<1>3. NetP!Cardinality(Nodes) = Cardinality(Nodes)
  BY DEF NetP!Cardinality, Cardinality
<1>4. NetP!MajorityAssumption
  BY <1>3, MajorityAssumption, FS_CardinalityType DEF NetP!MajorityAssumption
<1> QED
  BY <1>2, <1>4, NetworkAssumption
  DEF NetP!PayloadAssumption, NetP!PersistAssumption, NetP!BoundsAssumption

LEMMA SameBlocks ==
    /\ Net!Genesis = NetP!Genesis
    /\ Net!Blocks = NetP!Blocks /\ Net!Chains = NetP!Chains
    /\ Net!LateRequests = NetP!LateRequests /\ Net!Proposals = NetP!Proposals
    /\ Net!Finished = NetP!Finished /\ Net!Running = NetP!Running
    /\ \A o : Net!Raised(o) = NetP!Raised(o)
    /\ \A i, d, h : Net!NewBlock(i, d, h) = NetP!NewBlock(i, d, h)
    /\ \A c : Net!Tip(c) = NetP!Tip(c)
    /\ \A n, b : Net!AddSignature(b, Net!Sign(n, b)) = NetP!AddSignature(b, NetP!Sign(n, b))
    /\ \A b : Net!HasMajority(b) <=> NetP!HasMajority(b)
    /\ \A b : Net!HashIsValid(b) <=> NetP!HashIsValid(b)
  BY DEF Net!Genesis, NetP!Genesis, Net!NewBlock, NetP!NewBlock, Net!ComputeHash, NetP!ComputeHash,
     Net!Blocks, NetP!Blocks, Net!Digests, NetP!Digests, Net!Signatures, NetP!Signatures,
     Net!Chains, NetP!Chains, Net!LateRequests, NetP!LateRequests, Net!Proposals, NetP!Proposals,
     Net!Finished, NetP!Finished, Net!Running, NetP!Running, Net!CommitResults, NetP!CommitResults,
     Net!Raised, NetP!Raised, Net!NoResults, NetP!NoResults, Net!Tip, NetP!Tip,
     Net!AddSignature, NetP!AddSignature, Net!Sign, NetP!Sign, Net!HasMajority, NetP!HasMajority,
     Net!ValidSigners, NetP!ValidSigners, Net!Cardinality, NetP!Cardinality,
     Net!HashIsValid, NetP!HashIsValid

LEMMA SameTests ==
    /\ \A b, c : Net!CanAppend(b, c) <=> NetP!CanAppend(b, c)
    /\ \A b, c : Net!CanSign(b, c) <=> NetP!CanSign(b, c)
    /\ \A c : Net!VerifyFullChain(c) <=> NetP!VerifyFullChain(c)
  BY SameBlocks DEF Net!CanAppend, NetP!CanAppend, Net!CheckBlockAcceptable, NetP!CheckBlockAcceptable,
     Net!CanSign, NetP!CanSign, Net!VerifyFullChain, NetP!VerifyFullChain

LEMMA SameTurns ==
    /\ \A p, r : Net!AfterCommit(p, r) = NetP!AfterCommit(p, r)
    /\ \A p, b : Net!AfterSignature(p, b) = NetP!AfterSignature(p, b)
    /\ \A n : Net!NoAnswer(n) <=> NetP!NoAnswer(n)
    /\ Net!Target(Script) = NetP!Target(Script)
  BY SameBlocks DEF Net!AfterCommit, NetP!AfterCommit, Net!Returned, NetP!Returned,
     Net!AfterSignature, NetP!AfterSignature, Net!NoAnswer, NetP!NoAnswer, Net!Target, NetP!Target

LEMMA SameRequests ==
    /\ \A b : Net!GetTip(Script, Urls, b) <=> NetP!GetTip(Script, Urls, b)
    /\ Net!GetTipFails(Script, Urls) <=> NetP!GetTipFails(Script, Urls)
    /\ Net!Proceed(Script) <=> NetP!Proceed(Script)
    /\ \A m : Net!ServeLate(m) <=> NetP!ServeLate(m)
    /\ \A n : Net!Crash(n) <=> NetP!Crash(n)
    /\ \A n : Net!Restart(n) <=> NetP!Restart(n)
<1> USE SameBlocks, SameTests, SameTurns
<1>1. /\ \A b : Net!GetTip(Script, Urls, b) <=> NetP!GetTip(Script, Urls, b)
      /\ Net!GetTipFails(Script, Urls) <=> NetP!GetTipFails(Script, Urls)
  BY DEF Net!GetTip, NetP!GetTip, Net!GetTipFails, NetP!GetTipFails, Net!NoResults, NetP!NoResults
<1>2. Net!RequestSignature(Script) <=> NetP!RequestSignature(Script)
  BY DEF Net!RequestSignature, NetP!RequestSignature
<1>3. Net!SignatureRequestFails(Script) <=> NetP!SignatureRequestFails(Script)
  BY DEF Net!SignatureRequestFails, NetP!SignatureRequestFails
<1>4. Net!RequestCommit(Script) <=> NetP!RequestCommit(Script)
  BY DEF Net!RequestCommit, NetP!RequestCommit
<1>5. Net!CommitRequestFails(Script) <=> NetP!CommitRequestFails(Script)
  BY DEF Net!CommitRequestFails, NetP!CommitRequestFails
<1>6. \A m : Net!ServeLate(m) <=> NetP!ServeLate(m)
  BY DEF Net!ServeLate, NetP!ServeLate
<1>7. \A n : /\ Net!Crash(n) <=> NetP!Crash(n)
             /\ Net!Restart(n) <=> NetP!Restart(n)
  BY DEF Net!Crash, NetP!Crash, Net!Restart, NetP!Restart
<1> QED
  BY <1>1, <1>2, <1>3, <1>4, <1>5, <1>6, <1>7 DEF Net!Proceed, NetP!Proceed

LEMMA SameNetTypes == Net!TypeOK <=> NetP!TypeOK
  BY SameBlocks DEF Net!TypeOK, NetP!TypeOK

(* What is proposed has the type of a payload.                             *)
LEMMA BlockAtType ==
    ASSUME FlightP!TypeOK, pc \in DOMAIN BlockAt
    PROVE  <<<<pc, Len(cycles)>>, BlockAt[pc]>> \in Stamped
<1>1. FlightP!FlightBlocks = Flight!FlightBlocks /\ FlightP!InFlight = Flight!InFlight
  BY SameFlight DEF FlightP!FlightBlocks, Flight!FlightBlocks, FlightP!CycleBlocks, Flight!CycleBlocks,
     FlightP!Decisions, Flight!Decisions, FlightP!Methods, Flight!Methods, FlightP!Events, Flight!Events
<1>2. Flight!Summary \in FlightP!FlightBlocks
  BY FlightConstants, SameSummary, FlightP!SummaryType
<1>3. [kind |-> "pre_flight"] \in FlightP!FlightBlocks
  BY FlightConstants, FlightP!BlockTypes
<1>4. pc = "record" => Flight!InFlight \in FlightP!FlightBlocks
  <2>1. FlightP!InFlight \in FlightP!CycleBlocks
    BY FlightConstants, FlightP!BlockTypes
  <2>2. FlightP!CycleBlocks \subseteq FlightP!FlightBlocks
    BY DEF FlightP!FlightBlocks
  <2> QED
    BY <1>1, <2>1, <2>2
<1>5. BlockAt[pc] \in FlightP!FlightBlocks
  BY <1>2, <1>3, <1>4 DEF BlockAt
<1>6. pc \in Flight!Places /\ Len(cycles) \in Nat
  BY DEF FlightP!TypeOK, FlightP!Places, Flight!Places
<1> QED
  BY <1>1, <1>5, <1>6 DEF Stamped

(* The chains verify, and the index of a block is its height: inductive    *)
(* here too, although the script also starts, stops and reads the nodes.   *)
NetInv == NetP!IntegrityInv

LEMMA NetInit == Init => NetInv
<1> SUFFICES ASSUME Init
             PROVE  NetInv
  OBVIOUS
<1>1. /\ chain = [n \in Nodes |-> <<NetP!Genesis>>] /\ up = [n \in Nodes |-> FALSE]
      /\ prop = [c \in {Script} |-> NetP!Raised("idle")]
      /\ late = {} /\ used = {} /\ crashes = 0 /\ unanswered = 0
  BY SameBlocks DEF Init
<1>2. <<NetP!Genesis>> \in NetP!Chains
  BY NetConstants, NetP!GenesisType
<1>3. "idle" \in NetP!Finished
  BY DEF NetP!Finished
<1>4. NetP!Raised("idle") \in NetP!Proposals /\ NetP!Raised("idle").pc = "idle"
  BY <1>3, NetConstants, NetP!RaisedType
<1>5. NetP!TypeOK
  BY <1>1, <1>2, <1>4, NetworkAssumption DEF NetP!TypeOK, NetP!Running
<1>6. NetP!Genesis.index = 0
  BY DEF NetP!Genesis, NetP!NewBlock
<1> QED
  BY <1>1, <1>5, <1>6
  DEF NetInv, NetP!IntegrityInv, NetP!IndexIsHeight, NetP!IntegrityHolds, NetP!VerifyFullChain

(* A step that writes no chain.                                            *)
LEMMA NetKept ==
    ASSUME NetInv, UNCHANGED chain, NetP!TypeOK'
    PROVE  NetInv'
  BY DEF NetInv, NetP!IntegrityInv, NetP!IndexIsHeight, NetP!IntegrityHolds,
         NetP!VerifyFullChain, NetP!HashIsValid, NetP!ComputeHash, NetP!HasMajority, NetP!ValidSigners

LEMMA NetNext == NetInv /\ FlightP!TypeOK /\ [Next]_vars => NetInv'
<1> SUFFICES ASSUME NetInv, FlightP!TypeOK, [Next]_vars
             PROVE  NetInv'
  OBVIOUS
<1>1. ASSUME NetP!Next
      PROVE  NetInv'
  BY <1>1, NetConstants, NetP!IntegrityStep DEF NetInv
<1>2. NetP!TypeOK
  BY DEF NetInv, NetP!IntegrityInv
<1>3. CASE Propose
  <2>1. pc \in DOMAIN BlockAt
    BY <1>3 DEF Propose
  <2>2. PICK d \in Stamped : d = <<<<pc, Len(cycles)>>, BlockAt[pc]>>
    BY <2>1, BlockAtType
  <2>3. NetP!GetTip(Script, Urls, d) \/ NetP!GetTipFails(Script, Urls)
    BY <1>3, <2>2, SameRequests DEF Propose
  <2> QED
    BY <1>1, <2>3 DEF NetP!Next, NetP!Propose
<1>4. CASE Proceed
  <2>1. NetP!Proceed(Script)
    BY <1>4, SameRequests DEF Proceed
  <2> QED
    BY <1>1, <2>1 DEF NetP!Next
<1>5. CASE Conclude
  <2>1. UNCHANGED <<chain, up, late, used, crashes, unanswered>>
    BY <1>5 DEF Conclude
  <2>2. prop' = [prop EXCEPT ![Script] = NetP!Raised("idle")]
    BY <1>5, SameBlocks DEF Conclude
  <2>3. "idle" \in NetP!Finished
    BY DEF NetP!Finished
  <2>4. NetP!Raised("idle") \in NetP!Proposals /\ NetP!Raised("idle").pc = "idle"
    BY <2>3, NetConstants, NetP!RaisedType
  <2>5. NetP!TypeOK'
    BY <1>2, <2>1, <2>2, <2>4 DEF NetP!TypeOK, NetP!Running
  <2> QED
    BY <2>1, <2>5, NetKept
<1>6. CASE ReadFails
  <2>1. PICK n \in Nodes : Net!NoAnswer(n)
    BY <1>6, UrlsAreNodes DEF ReadFails
  <2>2. UNCHANGED <<chain, up, prop, late, used, crashes>>
    BY <1>6 DEF ReadFails
  <2>3. unanswered' \in 0..MaxUnanswered
    BY <1>2, <2>1, NetworkAssumption DEF NetP!TypeOK, Net!NoAnswer
  <2>4. NetP!TypeOK'
    BY <1>2, <2>2, <2>3 DEF NetP!TypeOK
  <2> QED
    BY <2>2, <2>4, NetKept
<1>7. CASE StopNodes
  <2>1. NetP!TypeOK'
    BY <1>2, <1>7 DEF StopNodes, NetP!TypeOK
  <2> QED
    BY <1>7, <2>1, NetKept DEF StopNodes
<1>8. CASE UNCHANGED netVars
  <2>1. NetP!TypeOK'
    BY <1>2, <1>8 DEF netVars, NetP!TypeOK
  <2> QED
    BY <1>8, <2>1, NetKept DEF netVars
<1>9. ASSUME NEW n \in Nodes, ComeUp(n)
      PROVE  NetInv'
  <2>1. NetP!Restart(n)
    BY <1>9, SameRequests DEF ComeUp
  <2> QED
    BY <1>1, <2>1 DEF NetP!Next
<1>10. ASSUME NEW n \in Nodes, Net!Crash(n)
       PROVE  NetInv'
  <2>1. NetP!Crash(n)
    BY <1>10, SameRequests
  <2> QED
    BY <1>1, <2>1 DEF NetP!Next
<1>11. ASSUME NEW m \in late, Net!ServeLate(m)
       PROVE  NetInv'
  <2>1. NetP!ServeLate(m)
    BY <1>11, SameRequests
  <2> QED
    BY <1>1, <2>1 DEF NetP!Next
<1>12. CASE \/ WaitHealth \/ NeverHealthy \/ FlyOn \/ FlightOver \/ ReadFirst \/ ReadSecond
            \/ Draw \/ UNCHANGED vars \/ \E n \in Nodes : FailToStart(n)
  BY <1>8, <1>12 DEF WaitHealth, NeverHealthy, FlyOn, FlightOver, ReadFirst, ReadSecond, Draw,
                     FailToStart, vars
<1> QED
  BY <1>3, <1>4, <1>5, <1>6, <1>7, <1>9, <1>10, <1>11, <1>12 DEF Next, Main, Around

(* The flight keeps its own invariant; the two need each other in one way: *)
(* what is proposed to the nodes is a block of the flight.                 *)
PartsInv == FlightP!FlightInv /\ NetInv

LEMMA PartsInit == Init => PartsInv
  BY NetInit, FlightPInit, FlightConstants, FlightP!InitFlightInv DEF PartsInv

LEMMA PartsNext == PartsInv /\ [Next]_vars => PartsInv'
<1> SUFFICES ASSUME PartsInv, [Next]_vars
             PROVE  PartsInv'
  OBVIOUS
<1>1. FlightP!FlightInv'
  BY FlightPNext, FlightConstants, FlightP!FlightInvStep DEF PartsInv
<1>2. FlightP!TypeOK
  BY DEF PartsInv, FlightP!FlightInv
<1> QED
  BY <1>1, <1>2, NetNext DEF PartsInv

(* Every variable of the demo keeps its type, the flight's and the nodes'  *)
(* included; the flight begins when all the nodes were found healthy.      *)
THEOREM DemoTypeCorrect == Spec => []TypeOK
<1> DEFINE MainType == main \in {"start", "fly", "narrate", "compare", "draw", "stop", "ended"}
<1>1. Init => MainType
  BY DEF Init
<1>2. MainType /\ [Next]_vars => MainType'
  BY DEF Next, Main, Around, vars, mainVars, WaitHealth, NeverHealthy, FlyOn, Propose, Proceed,
         Conclude, FlightOver, ReadFirst, ReadSecond, Draw, ReadFails, StopNodes, ComeUp, FailToStart
<1>3. UpInv /\ PartsInv /\ MainType => TypeOK
  <2>1. PartsInv => Flight!TypeOK /\ Net!TypeOK
    BY SameTypes, SameNetTypes
    DEF PartsInv, NetInv, FlightP!FlightInv, NetP!IntegrityInv
  <2>2. UpInv => /\ launching \subseteq Nodes /\ checked \in 0..Len(Urls)
                 /\ main = "fly" => checked = Len(Urls)
    BY DEF UpInv, StartInv, WaitInv
  <2> QED
    BY <2>1, <2>2 DEF TypeOK
<1> HIDE DEF MainType
<1> QED
  BY <1>1, <1>2, <1>3, UpInit, UpNext, PartsInit, PartsNext, PTL DEF Spec

-----------------------------------------------------------------------------
(* One failure and the record.                                             *)

(* A sequence, of whatever.                                                *)
Sequence(s) == s \in Seq({s[i] : i \in DOMAIN s})

LEMMA SequenceFacts ==
    ASSUME NEW s, Sequence(s)
    PROVE  Len(s) \in Nat /\ DOMAIN s = 1..Len(s)
  BY DEF Sequence

LEMMA AppendFacts ==
    ASSUME NEW s, Sequence(s), NEW e
    PROVE  /\ Sequence(Append(s, e))
           /\ Len(Append(s, e)) = Len(s) + 1
           /\ \A i \in 1..Len(s) : Append(s, e)[i] = s[i]
           /\ Append(s, e)[Len(s) + 1] = e
<1> DEFINE R == {s[i] : i \in DOMAIN s} \cup {e}
           a == Append(s, e)
<1>1. s \in Seq(R)
  BY DEF Sequence
<1>2. /\ a \in Seq(R) /\ Len(a) = Len(s) + 1
      /\ \A i \in 1..Len(s) : a[i] = s[i]
      /\ a[Len(s) + 1] = e
  BY <1>1
<1>3. a \in Seq({a[i] : i \in DOMAIN a})
  BY <1>2
<1> QED
  BY <1>2, <1>3 DEF Sequence

LEMMA FunctionIsSequence ==
    ASSUME NEW k \in Nat, NEW f, f = [i \in 1..k |-> f[i]]
    PROVE  Sequence(f) /\ Len(f) = k
<1>1. f \in [1..k -> {f[i] : i \in DOMAIN f}]
  OBVIOUS
<1>2. f \in Seq({f[i] : i \in DOMAIN f})
  BY <1>1
<1> QED
  BY <1>1, <1>2 DEF Sequence

LEMMA EqualSequences ==
    ASSUME NEW s, Sequence(s), NEW r, Sequence(r), Len(s) = Len(r),
           \A i \in 1..Len(s) : s[i] = r[i]
    PROVE  s = r
<1> DEFINE S == {s[i] : i \in DOMAIN s}
           R == {r[i] : i \in DOMAIN r}
<1>1. s \in Seq(S \cup R) /\ r \in Seq(S \cup R)
  BY SeqMonotonic DEF Sequence
<1> HIDE DEF S, R
<1> QED
  BY <1>1, SeqEqual

(* The blocks above genesis in a chain.                                    *)
HeldIn(c) == [i \in 1..Len(c) - 1 |-> c[i + 1].data[2]]

LEMMA HeldFacts ==
    ASSUME NEW c, Sequence(c), Len(c) >= 1
    PROVE  /\ Sequence(HeldIn(c)) /\ Len(HeldIn(c)) = Len(c) - 1
           /\ \A i \in 1..Len(c) - 1 : HeldIn(c)[i] = c[i + 1].data[2]
<1>1. Len(c) - 1 \in Nat
  BY SequenceFacts
<1>2. HeldIn(c) = [i \in 1..Len(c) - 1 |-> HeldIn(c)[i]]
  BY DEF HeldIn
<1>3. Sequence(HeldIn(c)) /\ Len(HeldIn(c)) = Len(c) - 1
  <2> DEFINE f == HeldIn(c)
  <2>1. f = [i \in 1..Len(c) - 1 |-> f[i]]
    BY <1>2
  <2> HIDE DEF f
  <2>2. Sequence(f) /\ Len(f) = Len(c) - 1
    BY <1>1, <2>1, FunctionIsSequence
  <2> QED
    BY <2>2 DEF f
<1>4. \A i \in 1..Len(c) - 1 : HeldIn(c)[i] = c[i + 1].data[2]
  BY DEF HeldIn
<1> QED
  BY <1>3, <1>4

LEMMA HeldAppend ==
    ASSUME NEW c, Sequence(c), Len(c) >= 1, NEW b
    PROVE  HeldIn(Append(c, b)) = Append(HeldIn(c), b.data[2])
<1> DEFINE l == HeldIn(Append(c, b))
           r == Append(HeldIn(c), b.data[2])
<1>1. Len(c) \in Nat /\ Sequence(Append(c, b)) /\ Len(Append(c, b)) = Len(c) + 1
  BY SequenceFacts, AppendFacts
<1>2. /\ Sequence(l) /\ Len(l) = Len(c)
      /\ \A i \in 1..Len(c) : l[i] = Append(c, b)[i + 1].data[2]
  <2> DEFINE d == Append(c, b)
  <2>1. Len(c) \in Nat /\ Len(c) >= 1 /\ Sequence(d) /\ Len(d) = Len(c) + 1
    BY <1>1
  <2> HIDE DEF d
  <2>2. /\ Sequence(HeldIn(d)) /\ Len(HeldIn(d)) = Len(c)
        /\ \A i \in 1..Len(c) : HeldIn(d)[i] = d[i + 1].data[2]
    BY <2>1, HeldFacts
  <2> QED
    BY <2>2 DEF d
<1>3. /\ Sequence(r) /\ Len(r) = Len(c)
      /\ \A i \in 1..Len(c) - 1 : r[i] = HeldIn(c)[i]
      /\ r[Len(c)] = b.data[2]
  BY <1>1, HeldFacts, AppendFacts
<1> HIDE DEF l, r
<1>4. ASSUME NEW i \in 1..Len(c)
      PROVE  l[i] = r[i]
  <2>1. CASE i = Len(c)
    BY <1>1, <1>2, <1>3, <2>1, AppendFacts
  <2>2. CASE i \in 1..Len(c) - 1
    <3>1. Append(c, b)[i + 1] = c[i + 1]
      BY <1>1, <2>2, AppendFacts
    <3>2. HeldIn(c)[i] = c[i + 1].data[2]
      BY <2>2, HeldFacts
    <3> QED
      BY <1>2, <1>3, <2>2, <3>1, <3>2
  <2> QED
    BY <1>1, <2>1, <2>2
<1>5. l = r
  BY <1>2, <1>3, <1>4, EqualSequences
<1> QED
  BY <1>5 DEF l, r

(* A proposal goes through the list, on behalf of the block that is next.  *)
Shape ==
    LET p == prop[Script] IN
    /\ crashes \in Nat /\ unanswered \in Nat
    /\ DOMAIN chain = Nodes /\ DOMAIN prop = {Script}
    /\ DOMAIN p = {"pc", "route", "pos", "block", "result"}
    /\ DOMAIN p.block = {"index", "data", "prev", "hash", "sigs"}
    /\ p.pc \in {"idle", "failed", "aborted", "validating", "committing", "returned"}
    /\ p.pc \in {"validating", "committing"} => p.route = Urls /\ p.pos \in 1..Len(Urls)
    /\ p.pc \in {"validating", "committing", "returned"} => p.block.data[2] = BlockAt[pc]
    /\ p.pc # "idle" => main = "fly" /\ pc \in DOMAIN BlockAt

(* Before the last node is healthy nothing has been recorded.              *)
Fresh == checked < Len(Urls) => late = {} /\ \A n \in Nodes : chain[n] = <<Net!Genesis>>

LEMMA BlockAtSame ==
    ASSUME UNCHANGED flightVars
    PROVE  BlockAt' = BlockAt /\ pc' = pc
  BY DEF flightVars, BlockAt, Flight!InFlight, Flight!Summary, Flight!Replans, Flight!Stops,
         Flight!Ties, Flight!Having

LEMMA BlockPlaces == DOMAIN BlockAt = {"pre_a", "pre_b", "record", "post_a", "post_b"}
  BY DEF BlockAt

LEMMA FlyingOn ==
    ASSUME FlyOn
    PROVE  pc \notin DOMAIN BlockAt /\ UNCHANGED ledger
  BY BlockPlaces
  DEF FlyOn, Flight!StopLooping, Flight!Negotiate, Flight!SafetyStop, Flight!Talk, Flight!Move,
      Flight!EndOfCycle, Flight!Looping

LEMMA Recording ==
    ASSUME RecordBlock
    PROVE  /\ pc' # "raised" /\ ledger' # ledger => ledger' = Append(ledger, BlockAt[pc])
           /\ pc' = "raised" => UNCHANGED ledger
<1>1. ASSUME NEW block, NEW next, next # "raised", Flight!Record(block, next)
      PROVE  /\ pc' # "raised" /\ ledger' # ledger => ledger' = Append(ledger, block)
             /\ pc' = "raised" => UNCHANGED ledger
  BY <1>1 DEF Flight!Record
<1>2. CASE Flight!PreFlight("pre_a", "pre_b")
  BY <1>1, <1>2 DEF Flight!PreFlight, BlockAt
<1>3. CASE Flight!PreFlight("pre_b", "head")
  BY <1>1, <1>3 DEF Flight!PreFlight, BlockAt
<1>4. CASE Flight!RecordCycle
  BY <1>1, <1>4 DEF Flight!RecordCycle, BlockAt
<1>5. CASE Flight!PostFlight("post_a", "post_b")
  BY <1>1, <1>5 DEF Flight!PostFlight, BlockAt
<1>6. CASE Flight!PostFlight("post_b", "done")
  BY <1>1, <1>6 DEF Flight!PostFlight, BlockAt
<1> QED
  BY <1>2, <1>3, <1>4, <1>5, <1>6 DEF RecordBlock

LEMMA PropUpdate ==
    ASSUME Shape, NEW q, prop' = [prop EXCEPT ![Script] = q]
    PROVE  prop'[Script] = q /\ DOMAIN prop' = {Script}
  BY DEF Shape

(* What a proposal becomes when it ends without a block.                   *)
LEMMA RaisedShape ==
    ASSUME NEW outcome
    PROVE  LET p == Net!Raised(outcome) IN
           /\ DOMAIN p = {"pc", "route", "pos", "block", "result"} /\ p.pc = outcome
           /\ DOMAIN p.block = {"index", "data", "prev", "hash", "sigs"}
  BY DEF Net!Raised, Net!Genesis, Net!NewBlock

(* The same proposal goes on: its block may gain signatures.               *)
GoesOn(p, q) ==
    /\ DOMAIN q = DOMAIN p /\ DOMAIN q.block = DOMAIN p.block
    /\ q.block.data = p.block.data
    /\ q.pc \in {"validating", "committing"} => q.route = p.route /\ q.pos \in 1..Len(q.route)
    /\ q.pc \in {"validating", "committing", "returned"}

LEMMA SignatureShape ==
    ASSUME Shape, prop[Script].pc = "validating", Net!RequestSignature(Script)
    PROVE  \/ GoesOn(prop[Script], prop'[Script])
           \/ prop'[Script] = Net!Raised("failed")
<1> DEFINE p == prop[Script]
<1>1. PICK b : /\ prop' = [prop EXCEPT ![Script] = Net!AfterSignature(p, b)]
               /\ b = p.block \/ b = Net!AddSignature(p.block, Net!Sign(Net!Target(Script), p.block))
  BY DEF Net!RequestSignature
<1>2. DOMAIN b = DOMAIN p.block /\ b.data = p.block.data
  BY <1>1 DEF Net!AddSignature, Shape
<1>3. prop'[Script] = Net!AfterSignature(p, b)
  BY <1>1, PropUpdate
<1>4. p.route = Urls /\ p.pos \in 1..Len(Urls) /\ Len(Urls) \in Nat /\ Len(Urls) >= 2
  BY UrlsAreNodes DEF Shape
<1>5. DOMAIN p = {"pc", "route", "pos", "block", "result"}
  BY DEF Shape
<1> QED
  BY <1>2, <1>3, <1>4, <1>5 DEF Net!AfterSignature, GoesOn

LEMMA CommitShape ==
    ASSUME Shape, prop[Script].pc = "committing",
           Net!RequestCommit(Script) \/ Net!CommitRequestFails(Script)
    PROVE  GoesOn(prop[Script], prop'[Script])
<1> DEFINE p == prop[Script]
<1>1. PICK r : prop' = [prop EXCEPT ![Script] = Net!AfterCommit(p, r)]
  BY DEF Net!RequestCommit, Net!CommitRequestFails
<1>2. prop'[Script] = Net!AfterCommit(p, r)
  BY <1>1, PropUpdate
<1>3. p.route = Urls /\ p.pos \in 1..Len(Urls) /\ Len(Urls) \in Nat /\ Len(Urls) >= 2
  BY UrlsAreNodes DEF Shape
<1>4. DOMAIN p = {"pc", "route", "pos", "block", "result"}
  BY DEF Shape
<1> QED
  BY <1>2, <1>3, <1>4 DEF Net!AfterCommit, Net!Returned, GoesOn

LEMMA ChainDomain ==
    ASSUME DOMAIN chain = Nodes, [Next]_vars
    PROVE  DOMAIN chain' = Nodes
  BY DEF Next, Main, Around, vars, netVars, WaitHealth, NeverHealthy, FlyOn, Propose, Proceed, Conclude,
         FlightOver, ReadFirst, ReadSecond, Draw, ReadFails, StopNodes, ComeUp, FailToStart,
         Net!GetTip, Net!GetTipFails, Net!Proceed, Net!RequestSignature, Net!SignatureRequestFails,
         Net!RequestCommit, Net!CommitRequestFails, Net!ServeLate, Net!Crash, Net!Restart

LEMMA Counters ==
    ASSUME crashes \in Nat, unanswered \in Nat, [Next]_vars
    PROVE  crashes' \in Nat /\ unanswered' \in Nat /\ Failures <= Failures'
  BY DEF Next, Main, Around, vars, netVars, WaitHealth, NeverHealthy, FlyOn, Propose, Proceed, Conclude,
         FlightOver, ReadFirst, ReadSecond, Draw, ReadFails, StopNodes, ComeUp, FailToStart,
         Net!GetTip, Net!GetTipFails, Net!Proceed, Net!RequestSignature, Net!SignatureRequestFails,
         Net!RequestCommit, Net!CommitRequestFails, Net!ServeLate, Net!Crash, Net!Restart,
         Net!NoAnswer, Failures

(* What a proposal needs of its client holds as long as it goes on.        *)
LEMMA ProposalShape ==
    ASSUME Shape, [Next]_vars, DOMAIN prop' = {Script}, main = "fly", UNCHANGED <<main, flightVars>>,
           pc \in DOMAIN BlockAt,
           \/ prop[Script].pc \in {"validating", "committing"} /\ GoesOn(prop[Script], prop'[Script])
           \/ \E outcome \in {"idle", "failed", "aborted"} : prop'[Script] = Net!Raised(outcome)
    PROVE  Shape'
<1>1. /\ crashes' \in Nat /\ unanswered' \in Nat /\ DOMAIN chain' = Nodes
      /\ BlockAt' = BlockAt /\ pc' = pc
  BY Counters, ChainDomain, BlockAtSame DEF Shape
<1>2. CASE prop[Script].pc \in {"validating", "committing"} /\ GoesOn(prop[Script], prop'[Script])
  BY <1>1, <1>2 DEF Shape, GoesOn
<1>3. ASSUME NEW outcome \in {"idle", "failed", "aborted"}, prop'[Script] = Net!Raised(outcome)
      PROVE  Shape'
  BY <1>1, <1>3, RaisedShape DEF Shape
<1> QED
  BY <1>2, <1>3

LEMMA ShapeNext == Shape /\ [Next]_vars => Shape'
<1> SUFFICES ASSUME Shape, [Next]_vars
             PROVE  Shape'
  OBVIOUS
<1>1. crashes' \in Nat /\ unanswered' \in Nat /\ DOMAIN chain' = Nodes
  BY Counters, ChainDomain DEF Shape
<1>2. ASSUME UNCHANGED <<prop, flightVars>>, UNCHANGED main \/ prop[Script].pc = "idle"
      PROVE  Shape'
  BY <1>1, <1>2, BlockAtSame DEF Shape
<1>3. CASE FlyOn
  <2>1. prop[Script].pc = "idle" /\ UNCHANGED prop
    BY <1>3, FlyingOn DEF Shape, FlyOn, netVars
  <2> QED
    BY <1>1, <2>1 DEF Shape
<1>4. CASE Propose
  <2>1. main = "fly" /\ UNCHANGED <<main, flightVars>> /\ pc \in DOMAIN BlockAt
    BY <1>4 DEF Propose, mainVars
  <2>2. ASSUME NEW b \in {<<<<pc, Len(cycles)>>, BlockAt[pc]>>}, Net!GetTip(Script, Urls, b)
        PROVE  Shape'
    <3> DEFINE tip == Net!Tip(chain[Urls[1]])
               q == [pc |-> "validating", route |-> Urls, pos |-> 1,
                     block |-> Net!NewBlock(tip.index + 1, b, tip.hash), result |-> Net!NoResults]
    <3>1. /\ prop' = [prop EXCEPT ![Script] = q]
          /\ DOMAIN q = {"pc", "route", "pos", "block", "result"}
          /\ DOMAIN q.block = {"index", "data", "prev", "hash", "sigs"}
          /\ q.pc = "validating" /\ q.route = Urls /\ q.pos = 1
          /\ q.block.data[2] = BlockAt[pc]
      BY <2>2 DEF Net!GetTip, Net!NewBlock
    <3> HIDE DEF q
    <3>2. prop'[Script] = q /\ DOMAIN prop' = {Script}
      BY <3>1, PropUpdate
    <3> QED
      BY <1>1, <2>1, <3>1, <3>2, BlockAtSame, UrlsAreNodes DEF Shape
  <2>3. CASE Net!GetTipFails(Script, Urls)
    BY <2>1, <2>3, PropUpdate, ProposalShape DEF Net!GetTipFails
  <2> QED
    BY <1>4, <2>2, <2>3 DEF Propose
<1>5. CASE Proceed
  <2>1. main = "fly" /\ UNCHANGED <<main, flightVars>>
    BY <1>5 DEF Proceed, mainVars
  <2>2. prop[Script].pc \in {"validating", "committing"} /\ pc \in DOMAIN BlockAt
    BY <1>5 DEF Proceed, Shape, Net!Proceed, Net!RequestSignature, Net!SignatureRequestFails,
                Net!RequestCommit, Net!CommitRequestFails
  <2>3. DOMAIN prop' = {Script}
    BY <1>5 DEF Proceed, Shape, Net!Proceed, Net!RequestSignature, Net!SignatureRequestFails,
                Net!RequestCommit, Net!CommitRequestFails
  <2>4. CASE Net!RequestSignature(Script)
    <3>1. prop[Script].pc = "validating"
      BY <2>4 DEF Net!RequestSignature
    <3> QED
      BY <2>1, <2>2, <2>3, <2>4, <3>1, SignatureShape, ProposalShape
  <2>5. CASE Net!SignatureRequestFails(Script)
    BY <2>1, <2>2, <2>3, <2>5, PropUpdate, ProposalShape DEF Net!SignatureRequestFails
  <2>6. CASE Net!RequestCommit(Script) \/ Net!CommitRequestFails(Script)
    <3>1. prop[Script].pc = "committing"
      BY <2>6 DEF Net!RequestCommit, Net!CommitRequestFails
    <3> QED
      BY <2>1, <2>2, <2>3, <2>6, <3>1, CommitShape, ProposalShape
  <2> QED
    BY <1>5, <2>4, <2>5, <2>6 DEF Proceed, Net!Proceed
<1>6. CASE Conclude
  <2>1. prop' = [prop EXCEPT ![Script] = Net!Raised("idle")]
    BY <1>6 DEF Conclude
  <2> QED
    BY <1>1, <2>1, PropUpdate, RaisedShape DEF Shape
<1>7. CASE FlightOver
  <2>1. pc \notin DOMAIN BlockAt /\ UNCHANGED <<prop, flightVars>>
    BY <1>7, BlockPlaces DEF FlightOver, netVars
  <2> QED
    BY <1>2, <2>1 DEF Shape
<1>8. CASE WaitHealth \/ NeverHealthy \/ ReadFirst \/ ReadSecond \/ Draw \/ ReadFails \/ StopNodes
  <2>1. main # "fly" /\ UNCHANGED <<prop, flightVars>>
    BY <1>8 DEF WaitHealth, NeverHealthy, ReadFirst, ReadSecond, Draw, ReadFails, StopNodes, netVars
  <2> QED
    BY <1>2, <2>1 DEF Shape
<1>9. CASE Around \/ UNCHANGED vars
  <2>1. UNCHANGED <<prop, flightVars, main>>
    BY <1>9 DEF Around, ComeUp, FailToStart, Net!ServeLate, Net!Crash, Net!Restart,
                vars, mainVars, netVars
  <2> QED
    BY <1>2, <2>1
<1> QED
  BY <1>3, <1>4, <1>5, <1>6, <1>7, <1>8, <1>9 DEF Next, Main

LEMMA FreshNext == UpInv /\ Shape /\ Fresh /\ [Next]_vars => Fresh'
<1> SUFFICES ASSUME UpInv, Shape, Fresh, [Next]_vars, checked' < Len(Urls)
             PROVE  late' = {} /\ \A n \in Nodes : chain'[n] = <<Net!Genesis>>
  BY DEF Fresh
<1>1. checked < Len(Urls)
  BY UrlsAreNodes DEF Next, Main, Around, vars, mainVars, WaitHealth, NeverHealthy, FlyOn, Propose, Proceed,
     Conclude, FlightOver, ReadFirst, ReadSecond, Draw, ReadFails, StopNodes, ComeUp, FailToStart,
     UpInv, WaitInv
<1>2. main \in {"start", "ended"} /\ late = {} /\ \A n \in Nodes : chain[n] = <<Net!Genesis>>
  BY <1>1, UrlsAreNodes DEF Fresh, UpInv, WaitInv
<1>3. CASE UNCHANGED <<chain, late>>
  BY <1>2, <1>3
<1>4. ASSUME NEW n \in Nodes, ComeUp(n)
      PROVE  late' = {} /\ \A m \in Nodes : chain'[m] = <<Net!Genesis>>
  BY <1>2, <1>4 DEF ComeUp, Net!Restart, Shape
<1>5. ASSUME NEW n \in Nodes, Net!Crash(n)
      PROVE  late' = {} /\ \A m \in Nodes : chain'[m] = <<Net!Genesis>>
  BY <1>2, <1>5 DEF Net!Crash
<1>6. CASE WaitHealth \/ NeverHealthy \/ UNCHANGED vars
  BY <1>3, <1>6 DEF WaitHealth, NeverHealthy, netVars, vars
<1>7. ASSUME NEW n \in Nodes, FailToStart(n)
      PROVE  UNCHANGED <<chain, late>>
  BY <1>7 DEF FailToStart, netVars
<1> QED
  BY <1>2, <1>3, <1>4, <1>5, <1>6, <1>7
  DEF Next, Main, Around, FlyOn, Propose, Proceed, Conclude, FlightOver, ReadFirst, ReadSecond,
      Draw, ReadFails, StopNodes

(* At most one node is exempt, and none before the first failure.          *)
Small(X) == X \subseteq Nodes /\ (Failures = 0 => X = {}) /\ \A x, y \in X : x = y

(* c is a chain with the flight's ledger.                                  *)
OnRecord(c) == /\ Sequence(c) /\ Len(c) >= 1
               /\ Net!Tip(c).index = Len(c) - 1
               /\ HeldIn(c) = ledger

(* The commit request for the block under way has been made to this node.  *)
Served(n) == LET p == prop[Script] IN
    p.pc = "returned" \/ (p.pc = "committing" /\ \E i \in 1..(p.pos - 1) : Urls[i] = n)

Holding(X, c) ==
    \A n \in Nodes \ X : chain[n] = IF Served(n) THEN Append(c, prop[Script].block) ELSE c

(* The other nodes voted for a block on top of c ...                       *)
VotesFor(X, c) ==
    prop[Script].pc = "validating" =>
        \A n \in Net!ValidSigners(prop[Script].block) \ X : Net!CanSign(prop[Script].block, c)

(* ... so that a block that found its majority fits there.                 *)
Fits(c) == prop[Script].pc \in {"committing", "returned"} => Net!CanAppend(prop[Script].block, c)

(* Only an exempt node has died, and only it may have missed a request; no *)
(* request that comes late is for a block above those of the flight.       *)
Alive(X) == main \in {"start", "fly"} => \A i \in 1..checked : Urls[i] \in X \/ up[Urls[i]]
LastIndex == Len(ledger) + (IF prop[Script].pc \in {"committing", "returned"} THEN 1 ELSE 0)
Missed(X) == \A m \in late : m.node \in X /\ m.block.index \in 0..LastIndex

(* What was read of the first node it still holds, if it is not exempt or  *)
(* had the whole record then.                                              *)
ReadSoFar(X) ==
    main = "compare" /\ (Urls[1] \notin X \/ Len(first) > Len(ledger)) => first = chain[Urls[1]]

Good(X, c) == /\ Small(X) /\ OnRecord(c) /\ Holding(X, c)
              /\ VotesFor(X, c) /\ Fits(c) /\ Alive(X) /\ Missed(X) /\ ReadSoFar(X)

(* No block that was returned to the flight is missing in its ledger.      *)
Complete == FlightP!LedgerInv /\ FlightP!OneBlockPerCycle

RecordInv == /\ UpInv /\ PartsInv /\ Shape /\ Fresh
             /\ Failures <= 1 => Complete /\ \E X, c : Good(X, c)

LEMMA LedgerLength ==
    ASSUME NEW X, NEW c, Good(X, c)
    PROVE  /\ Sequence(c) /\ Len(c) \in Nat /\ Len(c) >= 1
           /\ Len(ledger) = Len(c) - 1 /\ Len(ledger) \in Nat
  BY SequenceFacts, HeldFacts DEF Good, OnRecord

LEMMA SignaturesAside ==
    ASSUME NEW b, DOMAIN b = {"index", "data", "prev", "hash", "sigs"}, NEW n, NEW c
    PROVE  LET s == Net!AddSignature(b, Net!Sign(n, b)) IN
           /\ Net!CanSign(s, c) <=> Net!CanSign(b, c)
           /\ Net!ValidSigners(s) \subseteq Net!ValidSigners(b) \cup {n}
<1> DEFINE s == Net!AddSignature(b, Net!Sign(n, b))
<1>1. /\ s.index = b.index /\ s.data = b.data /\ s.prev = b.prev /\ s.hash = b.hash
      /\ s.sigs = b.sigs \cup {[node |-> n, over |-> b.hash]}
  BY DEF Net!AddSignature, Net!Sign
<1> HIDE DEF s
<1>2. Net!CanSign(s, c) <=> Net!CanSign(b, c)
  BY <1>1 DEF Net!CanSign, Net!HashIsValid
<1>3. Net!ValidSigners(s) \subseteq Net!ValidSigners(b) \cup {n}
  BY <1>1 DEF Net!ValidSigners
<1> QED
  BY <1>2, <1>3 DEF s

(* The instance brings its own name for the size of a set.                 *)
LEMMA SameSize ==
    ASSUME NEW S
    PROVE  Net!Cardinality(S) = Cardinality(S)
  BY DEF Cardinality, Net!Cardinality

LEMMA MajorityReaches ==
    ASSUME NEW X, \A x, y \in X : x = y, NEW b, Net!HasMajority(b)
    PROVE  \E n \in Net!ValidSigners(b) : n \notin X
<1> DEFINE V == Net!ValidSigners(b)
<1>1. Cardinality(V) >= 2 /\ V \subseteq Nodes
  <2>1. V \subseteq Nodes /\ IsFiniteSet(V) /\ Cardinality(V) \in Nat
    BY MajorityAssumption, FS_Subset, FS_CardinalityType DEF Net!ValidSigners
  <2>2. RequiredSignatures \in Nat /\ RequiredSignatures >= 2
    BY MajorityAssumption, FS_CardinalityType
  <2>3. Cardinality(V) >= RequiredSignatures
    BY SameSize DEF Net!HasMajority
  <2> QED
    BY <2>1, <2>2, <2>3
<1>2. ASSUME V \subseteq X
      PROVE  FALSE
  <2>1. V # {}
    BY <1>1, FS_EmptySet
  <2>2. PICK v \in V : V = {v}
    BY <1>2, <2>1
  <2> QED
    BY <1>1, <2>2, FS_Singleton
<1> QED
  BY <1>2

LEMMA HoldersAreMany ==
    ASSUME NEW X, X \subseteq Nodes, \A x, y \in X : x = y,
           NEW S, Nodes \ X \subseteq S, S \subseteq Nodes
    PROVE  Cardinality(S) >= RequiredSignatures
<1>1. /\ IsFiniteSet(S) /\ IsFiniteSet(Nodes \ X)
      /\ Cardinality(Nodes \ X) <= Cardinality(S)
      /\ Cardinality(S) \in Nat /\ Cardinality(Nodes) \in Nat /\ Cardinality(Nodes \ X) \in Nat
  BY MajorityAssumption, FS_Subset, FS_CardinalityType
<1>2. Cardinality(Nodes \ X) >= Cardinality(Nodes) - 1
  <2>1. CASE X = {}
    BY <1>1, <2>1
  <2>2. CASE X # {}
    <3>1. PICK x \in Nodes : Nodes \ X = Nodes \ {x}
      BY <2>2
    <3> QED
      BY <1>1, <3>1, MajorityAssumption, FS_RemoveElement
  <2> QED
    BY <2>1, <2>2
<1> QED
  BY <1>1, <1>2, MajorityAssumption

(* Nothing was read, or what was read has not changed since.               *)
LEMMA ReadKept ==
    ASSUME NEW X, NEW Y, X \subseteq Y, NEW c, Good(X, c),
           \/ main' # "compare"
           \/ UNCHANGED <<main, first, ledger>> /\ chain'[Urls[1]] = chain[Urls[1]]
    PROVE  ReadSoFar(Y)'
  BY DEF Good, ReadSoFar

(* A step that leaves the proposal and the chains that count alone.        *)
LEMMA GoodMoves ==
    ASSUME NEW X, NEW Y, X \subseteq Y, NEW c, Good(X, c), UNCHANGED <<prop, ledger>>,
           Small(Y)', Alive(Y)', Missed(Y)', ReadSoFar(Y)',
           \A n \in Nodes \ Y : chain'[n] = chain[n]
    PROVE  Good(Y, c)'
<1>1. OnRecord(c)' /\ VotesFor(Y, c)' /\ Fits(c)'
  BY DEF Good, OnRecord, VotesFor, Fits, Net!ValidSigners, Net!CanSign, Net!CanAppend
<1>2. \A n : Served(n)' <=> Served(n)
  BY DEF Served
<1>3. Holding(Y, c)'
  BY <1>2 DEF Good, Holding
<1> QED
  BY <1>1, <1>3 DEF Good

LEMMA GoodStays ==
    ASSUME NEW X, NEW c, Good(X, c), Shape, [Next]_vars, UNCHANGED <<prop, ledger>>,
           late' \subseteq late, Alive(X)', ReadSoFar(X)',
           \A n \in Nodes \ X : chain'[n] = chain[n]
    PROVE  Good(X, c)'
<1>1. Small(X)'
  BY Counters DEF Good, Small, Failures, Shape
<1>2. Missed(X)'
  BY DEF Good, Missed, LastIndex
<1> QED
  BY <1>1, <1>2, GoodMoves

(* The one failure there may be falls on n.                                *)
LEMMA FirstFailure ==
    ASSUME NEW X, NEW c, Good(X, c), Shape, NEW n \in Nodes,
           Failures' = Failures + 1, Failures' <= 1
    PROVE  X = {} /\ Small({n})'
<1>1. Failures \in Nat
  BY DEF Failures, Shape
<1>2. Failures = 0
  BY <1>1
<1> QED
  BY <1>2 DEF Good, Small

(* A proposal that is no longer, or not yet, about to commit.              *)
LEMMA GoodWithout ==
    ASSUME NEW X, NEW c, Good(X, c), Shape, [Next]_vars, UNCHANGED <<ledger, chain, late, up, main, checked>>,
           prop[Script].pc \notin {"committing", "returned"},
           prop'[Script].pc \notin {"committing", "returned"},
           VotesFor(X, c)', main # "compare"
    PROVE  Good(X, c)'
<1>1. Small(X)'
  BY Counters DEF Good, Small, Failures, Shape
<1>2. OnRecord(c)' /\ Fits(c)' /\ Missed(X)' /\ Alive(X)' /\ ReadSoFar(X)'
  BY DEF Good, OnRecord, Fits, Missed, LastIndex, Alive, ReadSoFar
<1>3. Holding(X, c)'
  BY DEF Good, Holding, Served
<1> QED
  BY <1>1, <1>2, <1>3 DEF Good

LEMMA GoodRaised ==
    ASSUME NEW X, NEW c, Good(X, c), Shape, [Next]_vars, UNCHANGED <<ledger, chain, late, up, main, checked>>,
           prop[Script].pc \notin {"committing", "returned"}, main # "compare",
           NEW outcome \in {"failed", "aborted"}, prop'[Script] = Net!Raised(outcome)
    PROVE  Good(X, c)'
<1>1. prop'[Script].pc = outcome
  BY RaisedShape
<1> QED
  BY <1>1, GoodWithout DEF VotesFor

LEMMA GoodTip ==
    ASSUME NEW X, NEW c, Good(X, c), Shape, [Next]_vars, main = "fly", UNCHANGED <<main, checked, ledger>>,
           NEW b, Net!GetTip(Script, Urls, b), prop[Script].pc = "idle"
    PROVE  Good(X, c)'
<1> DEFINE tip == Net!Tip(chain[Urls[1]])
           q == [pc |-> "validating", route |-> Urls, pos |-> 1,
                 block |-> Net!NewBlock(tip.index + 1, b, tip.hash), result |-> Net!NoResults]
<1>1. prop' = [prop EXCEPT ![Script] = q] /\ q.pc = "validating" /\ q.block.sigs = {}
  BY DEF Net!GetTip, Net!NewBlock
<1> HIDE DEF q
<1>2. prop'[Script] = q
  BY <1>1, PropUpdate
<1>3. VotesFor(X, c)'
  BY <1>1, <1>2 DEF VotesFor, Net!ValidSigners
<1>4. UNCHANGED <<chain, late, up>>
  BY DEF Net!GetTip
<1> QED
  BY <1>1, <1>2, <1>3, <1>4, GoodWithout

LEMMA AfterSignatureFacts ==
    ASSUME NEW p, DOMAIN p = {"pc", "route", "pos", "block", "result"}, NEW b
    PROVE  LET q == Net!AfterSignature(p, b) IN
           /\ p.pos < Len(p.route) => q.block = b /\ q.pc = p.pc
           /\ ~(p.pos < Len(p.route)) /\ Net!HasMajority(b) =>
                  q.block = b /\ q.pc = "committing" /\ q.pos = 1
           /\ ~(p.pos < Len(p.route)) /\ ~Net!HasMajority(b) => q = Net!Raised("failed")
  BY DEF Net!AfterSignature

(* A vote is given on what the node holds; the last one may make a majority*)
LEMMA GoodSignature ==
    ASSUME NEW X, NEW c, Good(X, c), Shape, [Next]_vars, UNCHANGED <<main, checked, ledger>>,
           Net!RequestSignature(Script)
    PROVE  Good(X, c)'
<1> DEFINE p == prop[Script]
           n == Net!Target(Script)
           CanSign == Net!CanSign(p.block, chain[n])
           b == IF CanSign THEN Net!AddSignature(p.block, Net!Sign(n, p.block)) ELSE p.block
<1>1. /\ p.pc = "validating" /\ UNCHANGED <<chain, late, up>> /\ main # "compare"
      /\ prop' = [prop EXCEPT ![Script] = Net!AfterSignature(p, b)]
  BY DEF Net!RequestSignature, Shape
<1>2. /\ n \in Nodes /\ DOMAIN p = {"pc", "route", "pos", "block", "result"}
      /\ DOMAIN p.block = {"index", "data", "prev", "hash", "sigs"}
  BY <1>1, UrlsAreNodes DEF Shape, Net!Target
<1>3. n \notin X => chain[n] = c
  BY <1>1, <1>2 DEF Good, Holding, Served
<1>4. \A m \in Net!ValidSigners(b) \ X : Net!CanSign(b, c)
  <2>1. \A m \in Net!ValidSigners(p.block) \ X : Net!CanSign(p.block, c)
    BY <1>1 DEF Good, VotesFor
  <2>2. CASE CanSign
    <3>1. Net!CanSign(b, c) <=> Net!CanSign(p.block, c)
      BY <1>2, <2>2, SignaturesAside
    <3>2. Net!ValidSigners(b) \subseteq Net!ValidSigners(p.block) \cup {n}
      BY <1>2, <2>2, SignaturesAside
    <3> QED
      BY <1>3, <2>1, <2>2, <3>1, <3>2
  <2> QED
    BY <2>1, <2>2
<1>5. prop'[Script] = Net!AfterSignature(p, b)
  BY <1>1, PropUpdate
<1> HIDE DEF b
<1>9. /\ p.pos < Len(p.route) => prop'[Script].block = b /\ prop'[Script].pc = "validating"
      /\ ~(p.pos < Len(p.route)) /\ Net!HasMajority(b) =>
             prop'[Script].block = b /\ prop'[Script].pc = "committing" /\ prop'[Script].pos = 1
      /\ ~(p.pos < Len(p.route)) /\ ~Net!HasMajority(b) => prop'[Script] = Net!Raised("failed")
  <2> DEFINE q == prop[Script]
  <2>1. DOMAIN q = {"pc", "route", "pos", "block", "result"} /\ q.pc = "validating"
    BY <1>1, <1>2
  <2>2. prop'[Script] = Net!AfterSignature(q, b)
    BY <1>5
  <2> HIDE DEF q
  <2>3. /\ q.pos < Len(q.route) => prop'[Script].block = b /\ prop'[Script].pc = "validating"
        /\ ~(q.pos < Len(q.route)) /\ Net!HasMajority(b) =>
               prop'[Script].block = b /\ prop'[Script].pc = "committing" /\ prop'[Script].pos = 1
        /\ ~(q.pos < Len(q.route)) /\ ~Net!HasMajority(b) => prop'[Script] = Net!Raised("failed")
    BY <2>1, <2>2, AfterSignatureFacts
  <2> QED
    BY <2>3 DEF q
<1>6. CASE p.pos < Len(p.route)
  <2>1. prop'[Script].block = b /\ prop'[Script].pc = "validating"
    BY <1>6, <1>9
  <2>2. VotesFor(X, c)'
    BY <1>4, <2>1 DEF VotesFor, Net!ValidSigners, Net!CanSign, Net!HashIsValid, Net!ComputeHash, Net!Tip
  <2> QED
    BY <1>1, <2>1, <2>2, GoodWithout
<1>7. CASE ~(p.pos < Len(p.route)) /\ Net!HasMajority(b)
  <2>1. prop'[Script].block = b /\ prop'[Script].pc = "committing" /\ prop'[Script].pos = 1
    BY <1>7, <1>9
  <2>2. Net!CanAppend(b, c)
    <3>1. PICK m \in Net!ValidSigners(b) : m \notin X
      BY <1>7, MajorityReaches DEF Good, Small
    <3> QED
      BY <1>4, <1>7, <3>1 DEF Net!CanSign, Net!CanAppend, Net!CheckBlockAcceptable
  <2>3. Fits(c)' /\ VotesFor(X, c)'
    BY <2>1, <2>2 DEF Fits, VotesFor, Net!CanAppend, Net!CheckBlockAcceptable, Net!HashIsValid,
                      Net!ComputeHash, Net!HasMajority, Net!ValidSigners, Net!Tip
  <2>4. Small(X)' /\ OnRecord(c)' /\ Alive(X)' /\ ReadSoFar(X)'
    BY <1>1, Counters DEF Good, Small, Failures, Shape, OnRecord, Alive, ReadSoFar
  <2>6. Missed(X)'
    <3>1. LastIndex' = LastIndex + 1 /\ LastIndex \in Nat
      BY <1>1, <2>1, LedgerLength DEF LastIndex
    <3> QED
      BY <1>1, <3>1 DEF Good, Missed
  <2>5. Holding(X, c)'
    BY <1>1, <2>1 DEF Good, Holding, Served
  <2> QED
    BY <2>3, <2>4, <2>5, <2>6 DEF Good
<1>8. CASE ~(p.pos < Len(p.route)) /\ ~Net!HasMajority(b)
  <2>1. prop'[Script] = Net!Raised("failed") /\ prop[Script].pc = "validating"
    BY <1>1, <1>8, <1>9
  <2> QED
    BY <1>1, <2>1, GoodRaised
<1> QED
  BY <1>6, <1>7, <1>8

LEMMA AfterCommitFacts ==
    ASSUME NEW p, DOMAIN p = {"pc", "route", "pos", "block", "result"}, NEW r,
           p.pos \in 1..Len(p.route)
    PROVE  LET q == Net!AfterCommit(p, r) IN
           /\ q.block = p.block
           /\ p.pos < Len(p.route) => q.pc = p.pc /\ q.pos = p.pos + 1
           /\ ~(p.pos < Len(p.route)) => q.pc = "returned"
  BY DEF Net!AfterCommit, Net!Returned

(* A turn of commit_to_all, whatever comes of its request.                 *)
LEMMA Turn ==
    ASSUME Shape, prop[Script].pc = "committing",
           NEW r, prop' = [prop EXCEPT ![Script] = Net!AfterCommit(@, r)]
    PROVE  /\ prop'[Script].block = prop[Script].block
           /\ prop'[Script].pc \in {"committing", "returned"}
           /\ Net!Target(Script) \in Nodes
           /\ \E i \in 1..Len(Urls) : Net!Target(Script) = Urls[i]
           /\ \A m \in Nodes : Served(m)' <=> Served(m) \/ m = Net!Target(Script)
<1> DEFINE p == prop[Script]
           q == prop'[Script]
<1>1. /\ DOMAIN p = {"pc", "route", "pos", "block", "result"} /\ p.pc = "committing"
      /\ p.route = Urls /\ p.pos \in 1..Len(Urls)
  BY DEF Shape
<1>2. q = Net!AfterCommit(p, r)
  BY PropUpdate
<1>3. /\ q.block = p.block
      /\ p.pos < Len(Urls) => q.pc = "committing" /\ q.pos = p.pos + 1
      /\ ~(p.pos < Len(Urls)) => q.pc = "returned"
  <2> HIDE DEF p, q
  <2> QED
    BY <1>1, <1>2, AfterCommitFacts
<1>4. Net!Target(Script) = Urls[p.pos]
  BY <1>1 DEF Net!Target
<1>5. ASSUME NEW m \in Nodes
      PROVE  Served(m)' <=> Served(m) \/ m = Urls[p.pos]
  <2>1. CASE p.pos < Len(Urls)
    BY <1>1, <1>3, <2>1, UrlsAreNodes DEF Served
  <2>2. CASE ~(p.pos < Len(Urls))
    <3>1. p.pos = Len(Urls) /\ q.pc = "returned"
      BY <1>1, <1>3, <2>2, UrlsAreNodes
    <3>2. \E i \in 1..Len(Urls) : Urls[i] = m
      BY UrlsAreNodes
    <3> QED
      BY <1>1, <3>1, <3>2, UrlsAreNodes DEF Served
  <2> QED
    BY <2>1, <2>2
<1> QED
  BY <1>1, <1>3, <1>4, <1>5, UrlsAreNodes

LEMMA GoodCommitting ==
    ASSUME NEW X, NEW Y, NEW c, Good(X, c), prop[Script].pc = "committing", UNCHANGED ledger,
           prop'[Script].block = prop[Script].block, prop'[Script].pc \in {"committing", "returned"},
           Small(Y)', Holding(Y, c)', Alive(Y)', Missed(Y)', main' # "compare"
    PROVE  Good(Y, c)'
<1>1. OnRecord(c)' /\ VotesFor(Y, c)'
  BY DEF Good, OnRecord, VotesFor
<1>2. Fits(c)'
  BY DEF Good, Fits, Net!CanAppend, Net!CheckBlockAcceptable, Net!HashIsValid, Net!ComputeHash,
         Net!HasMajority, Net!ValidSigners, Net!Tip
<1> QED
  BY <1>1, <1>2 DEF Good, ReadSoFar

(* A node that answers has the block: it fits, and it fits once.           *)
LEMMA GoodCommit ==
    ASSUME NEW X, NEW c, Good(X, c), Shape, [Next]_vars, UNCHANGED <<main, checked, ledger>>,
           Net!RequestCommit(Script)
    PROVE  Good(X, c)'
<1> DEFINE b == prop[Script].block
           n == Net!Target(Script)
<1>1. /\ prop[Script].pc = "committing" /\ UNCHANGED <<up, late>> /\ main # "compare"
      /\ chain' = [chain EXCEPT ![n] = IF Net!CanAppend(b, @) THEN Append(@, b) ELSE @]
      /\ \E r : prop' = [prop EXCEPT ![Script] = Net!AfterCommit(@, r)]
  BY DEF Net!RequestCommit, Shape
<1>2. /\ prop'[Script].block = b /\ prop'[Script].pc \in {"committing", "returned"}
      /\ n \in Nodes
      /\ \A m \in Nodes : Served(m)' <=> Served(m) \/ m = n
  BY <1>1, Turn
<1>3. Net!CanAppend(b, c)
  BY <1>1 DEF Good, Fits
<1>4. ~Net!CanAppend(b, Append(c, b))
  <2>1. Net!Tip(Append(c, b)) = b
    BY SequenceFacts, AppendFacts DEF Good, OnRecord, Net!Tip
  <2> QED
    BY <1>3, <2>1, LedgerLength DEF Good, OnRecord, Net!CanAppend
<1>5. ASSUME NEW m \in Nodes \ X
      PROVE  chain'[m] = IF Served(m)' THEN Append(c, b) ELSE c
  <2> HIDE DEF b, n
  <2>1. chain[m] = IF Served(m) THEN Append(c, b) ELSE c
    BY DEF Good, Holding, b
  <2>2. CASE m = n
    BY <1>1, <1>2, <1>3, <1>4, <2>1, <2>2 DEF Shape
  <2>3. CASE m # n
    BY <1>1, <1>2, <2>1, <2>3 DEF Shape
  <2> QED
    BY <2>2, <2>3
<1>6. Holding(X, c)'
  BY <1>2, <1>5 DEF Holding
<1>7. Small(X)' /\ Alive(X)' /\ Missed(X)'
  BY <1>1, <1>2, Counters DEF Good, Small, Failures, Shape, Alive, Missed, LastIndex
<1> QED
  BY <1>1, <1>2, <1>6, <1>7, GoodCommitting

(* Where there is no answer the node was exempt, or it is from now on.     *)
LEMMA GoodCommitFails ==
    ASSUME UpInv, NEW X, NEW c, Good(X, c), Shape, [Next]_vars, main = "fly", Failures' <= 1,
           UNCHANGED <<main, checked, ledger>>, Net!CommitRequestFails(Script)
    PROVE  \E Y : Good(Y, c)'
<1>0. PICK n \in Nodes : n = Net!Target(Script) /\ \E i \in 1..Len(Urls) : n = Urls[i]
  BY Turn DEF Net!CommitRequestFails
<1>1. /\ prop[Script].pc = "committing" /\ UNCHANGED <<chain, up, crashes>> /\ Net!NoAnswer(n)
      /\ \/ late' = late
         \/ up[n] /\ late' = late \union {[node |-> n, block |-> prop[Script].block]}
      /\ prop' = [prop EXCEPT ![Script] = Net!AfterCommit(@, "request_failed")]
  BY <1>0 DEF Net!CommitRequestFails
<1>2. /\ prop'[Script].block = prop[Script].block
      /\ prop'[Script].pc \in {"committing", "returned"}
      /\ \A m \in Nodes : Served(m)' <=> Served(m) \/ m = n
  BY <1>0, <1>1, Turn
<1>3. checked = Len(Urls)
  BY DEF UpInv, WaitInv
<1>7. /\ prop[Script].block.index = LastIndex /\ LastIndex \in Nat
      /\ LastIndex' = LastIndex /\ UNCHANGED main
  BY <1>1, <1>2, LedgerLength DEF Good, OnRecord, Fits, Net!CanAppend, LastIndex
<1>4. ASSUME NEW Y, X \subseteq Y, n \in Y
      PROVE  Holding(Y, c)' /\ Alive(Y)'
  <2>1. Alive(Y)'
    BY <1>1, <1>4 DEF Good, Alive
  <2>2. ASSUME NEW m \in Nodes \ Y
        PROVE  chain'[m] = IF Served(m)' THEN Append(c, prop[Script].block) ELSE c
    BY <1>1, <1>2, <1>4, <2>2 DEF Good, Holding
  <2> QED
    BY <1>2, <2>1, <2>2 DEF Holding
<1>5. CASE ~up[n]
  <2>1. n \in X
    BY <1>0, <1>3, <1>5 DEF Good, Alive
  <2>2. Small(X)' /\ Missed(X)'
    BY <1>1, <1>5, <1>7, Counters DEF Good, Small, Failures, Shape, Missed
  <2>3. Good(X, c)'
    BY <1>1, <1>2, <1>4, <1>7, <2>1, <2>2, GoodCommitting
  <2> QED
    BY <2>3
<1>6. CASE up[n]
  <2>1. Failures' = Failures + 1
    BY <1>1, <1>6 DEF Net!NoAnswer, Failures, Shape
  <2>2. X = {} /\ Small({n})'
    BY <2>1, FirstFailure
  <2>3. Missed({n})'
    BY <1>1, <1>6, <1>7, <2>2 DEF Good, Missed
  <2>4. Good({n}, c)'
    BY <1>1, <1>2, <1>4, <1>7, <2>2, <2>3, GoodCommitting
  <2> QED
    BY <2>4
<1> QED
  BY <1>5, <1>6

(* What was returned is what every node has that is not exempt.            *)
LEMMA ReturnedIsKept ==
    ASSUME NEW X, NEW c, Good(X, c), prop[Script].pc = "returned"
    PROVE  Kept
<1>1. PICK n \in Nodes : n \notin X
  <2>1. Urls[1] \in Nodes /\ Urls[2] \in Nodes /\ Urls[1] # Urls[2]
    BY UrlsAreNodes, UrlsAssumption
  <2> QED
    BY <2>1 DEF Good, Small
<1>2. chain[n] = Append(c, prop[Script].block)
  BY <1>1 DEF Good, Holding, Served
<1>3. /\ Len(c) \in Nat /\ Len(c) >= 1 /\ Len(chain[n]) = Len(c) + 1
      /\ chain[n][Len(c) + 1] = prop[Script].block
  BY <1>2, SequenceFacts, AppendFacts DEF Good, OnRecord
<1>4. Len(c) + 1 \in 2..Len(chain[n])
  BY <1>3
<1> QED
  BY <1>3, <1>4 DEF Kept

(* So the flight goes on from no block that is on no chain.                *)
LEMMA NoneLost ==
    ASSUME NEW X, NEW c, Good(X, c), [Next]_vars
    PROVE  ~FlightP!Unrecorded
<1>1. CASE Conclude
  BY <1>1, ReturnedIsKept DEF Conclude, Succeeded, FlightP!Unrecorded
<1>2. CASE FlyOn
  BY <1>2, FlyingOn, BlockPlaces DEF FlightP!Unrecorded
<1>3. CASE UNCHANGED flightVars
  BY <1>3 DEF flightVars, FlightP!Unrecorded
<1>4. CASE ~FlyOn /\ ~Conclude
  BY <1>3, <1>4
  DEF Next, Main, Around, vars, WaitHealth, NeverHealthy, Propose, Proceed, FlightOver,
      ReadFirst, ReadSecond, Draw, ReadFails, StopNodes, ComeUp, FailToStart
<1> QED
  BY <1>1, <1>2, <1>4

LEMMA CompleteNext ==
    ASSUME NEW X, NEW c, Good(X, c), Complete, [Next]_vars
    PROVE  Complete'
<1>1. [FlightP!Next]_(FlightP!vars) /\ ~FlightP!Unrecorded
  BY FlightPNext, NoneLost
<1>2. FlightP!LedgerInv'
  BY <1>1, FlightConstants, FlightP!LedgerInvStep DEF Complete
<1>3. FlightP!OneBlockPerCycle'
  BY <1>1, FlightConstants, FlightP!OneBlockStep
  DEF Complete, FlightP!LedgerInv, FlightP!FlightInv
<1> QED
  BY <1>2, <1>3 DEF Complete

(* What was raised has left no trace.                                      *)
LEMMA GoodConclude ==
    ASSUME NEW X, NEW c, Good(X, c), Shape, [Next]_vars, Conclude
    PROVE  \E d : Good(X, d)'
<1>1. /\ RecordBlock /\ (pc' = "raised") = ~(prop[Script].pc = "returned")
      /\ prop' = [prop EXCEPT ![Script] = Net!Raised("idle")]
      /\ prop[Script].pc \in {"returned", "failed", "aborted"}
      /\ prop[Script].pc = "returned" => (ledger' # ledger) = Kept
      /\ UNCHANGED <<main, checked, chain, late, up>> /\ main = "fly"
  BY DEF Conclude, Succeeded, mainVars
<1>2. prop'[Script].pc = "idle"
  BY <1>1, PropUpdate, RaisedShape
<1>3. VotesFor(X, c)' /\ Small(X)' /\ Alive(X)' /\ ReadSoFar(X)'
  BY <1>1, <1>2, Counters DEF VotesFor, Good, Small, Failures, Shape, Alive, ReadSoFar
<1>4. CASE prop[Script].pc # "returned"
  <2>1. UNCHANGED ledger
    BY <1>1, <1>4, Recording
  <2>2. Good(X, c)'
    BY <1>1, <1>2, <1>3, <1>4, <2>1, GoodWithout
  <2> QED
    BY <2>2
<1>5. CASE prop[Script].pc = "returned"
  <2>1. PICK b : b = prop[Script].block
    OBVIOUS
  <2>2. PICK d : d = Append(c, b)
    OBVIOUS
  <2>3. /\ Sequence(c) /\ Len(c) >= 1 /\ HeldIn(c) = ledger
        /\ Net!Tip(c).index = Len(c) - 1 /\ Net!CanAppend(b, c)
    BY <1>5, <2>1 DEF Good, OnRecord, Fits
  <2>4. /\ Sequence(d) /\ Len(d) = Len(c) + 1 /\ Len(d) >= 1 /\ Net!Tip(d) = b
        /\ HeldIn(d) = Append(HeldIn(c), b.data[2])
    <3>1. HeldIn(d) = Append(HeldIn(c), b.data[2])
      BY <2>2, <2>3, HeldAppend
    <3>2. /\ Len(c) \in Nat /\ Sequence(d) /\ Len(d) = Len(c) + 1
          /\ d[Len(c) + 1] = b
      BY <2>2, <2>3, SequenceFacts, AppendFacts
    <3> QED
      BY <3>1, <3>2 DEF Net!Tip
  <2>5. b.index = Len(d) - 1
    BY <2>3, <2>4, SequenceFacts DEF Net!CanAppend
  <2>6. ledger' = Append(ledger, b.data[2])
    <3>1. pc' # "raised" /\ ledger' # ledger
      BY <1>1, <1>5, ReturnedIsKept
    <3> QED
      BY <1>1, <1>5, <2>1, <3>1, Recording DEF Shape
  <2>7. OnRecord(d)'
    <3>1. (Net!Tip(d))' = Net!Tip(d) /\ HeldIn(d)' = HeldIn(d)
      BY DEF Net!Tip, HeldIn
    <3> QED
      BY <2>3, <2>4, <2>5, <2>6, <3>1 DEF OnRecord, Sequence
  <2>8. VotesFor(X, d)' /\ Fits(d)'
    BY <1>2 DEF VotesFor, Fits
  <2>9. Holding(X, d)'
    BY <1>1, <1>2, <1>5, <2>1, <2>2 DEF Good, Holding, Served
  <2>10. Missed(X)'
    <3>1. Len(ledger') = Len(ledger) + 1
      BY <2>3, <2>4, <2>6, SequenceFacts, HeldFacts
    <3>2. LastIndex' = LastIndex
      BY <1>2, <1>5, <3>1, LedgerLength DEF LastIndex
    <3> QED
      BY <1>1, <3>2 DEF Good, Missed
  <2>11. Good(X, d)'
    BY <1>3, <2>7, <2>8, <2>9, <2>10 DEF Good
  <2> QED
    BY <2>11
<1> QED
  BY <1>4, <1>5

LEMMA GoodCrash ==
    ASSUME UpInv, NEW X, NEW c, Good(X, c), Shape, [Next]_vars, Failures' <= 1,
           UNCHANGED <<main, checked, first, ledger>>, NEW n \in Nodes, Net!Crash(n)
    PROVE  Good({n}, c)'
<1>1. /\ Failures' = Failures + 1 /\ UNCHANGED <<chain, prop>>
      /\ up' = [up EXCEPT ![n] = FALSE] /\ late' \subseteq late
  BY DEF Net!Crash, Failures, Shape
<1>2. X = {} /\ Small({n})'
  BY <1>1, FirstFailure
<1>3. Alive({n})' /\ Missed({n})'
  BY <1>1, <1>2 DEF Good, Alive, Missed, LastIndex, UpInv, StartInv
<1>4. ReadSoFar({n})'
  BY <1>1, <1>2, ReadKept
<1> QED
  BY <1>1, <1>2, <1>3, <1>4, GoodMoves DEF Good, Holding

(* A node that comes up has what it is given, genesis: so have they all.   *)
LEMMA GoodComeUp ==
    ASSUME UpInv, Fresh, NEW X, NEW c, Good(X, c), Shape, [Next]_vars,
           NEW n \in Nodes, ComeUp(n) \/ FailToStart(n)
    PROVE  Good(X, c)'
<1>1. UNCHANGED <<main, checked, prop, late, first, ledger>> /\ n \in launching
  BY DEF ComeUp, FailToStart, Net!Restart, netVars, flightVars
<1>2. CASE FailToStart(n)
  <2>1. UNCHANGED <<chain, up>>
    BY <1>2 DEF FailToStart, netVars
  <2>2. Alive(X)' /\ ReadSoFar(X)'
    BY <1>1, <2>1, ReadKept DEF Good, Alive
  <2> QED
    BY <1>1, <2>1, <2>2, GoodStays
<1>3. CASE ComeUp(n)
  <2>1. /\ up' = [up EXCEPT ![n] = TRUE]
        /\ chain' = [chain EXCEPT ![n] = <<Net!Genesis>>]
    BY <1>3 DEF ComeUp, Net!Restart
  <2>2. checked < Len(Urls)
    BY <1>1, UrlsAreNodes DEF UpInv, StartInv, WaitInv
  <2>3. \A m \in Nodes : chain'[m] = chain[m]
    BY <2>1, <2>2 DEF Fresh, Shape
  <2>4. Alive(X)' /\ ReadSoFar(X)'
    BY <1>1, <2>1, <2>3, ReadKept, UrlsAreNodes DEF Good, Alive, UpInv, StartInv
  <2> QED
    BY <1>1, <2>3, <2>4, GoodStays
<1> QED
  BY <1>2, <1>3

LEMMA GoodScript ==
    ASSUME UpInv, NEW X, NEW c, Good(X, c), Shape, [Next]_vars,
           \/ WaitHealth \/ NeverHealthy \/ FlyOn \/ FlightOver
           \/ ReadFirst \/ ReadSecond \/ Draw \/ ReadFails \/ StopNodes
    PROVE  Good(X, c)'
<1>1. UNCHANGED <<prop, ledger, chain>> /\ late' \subseteq late
  BY FlyingOn DEF WaitHealth, NeverHealthy, FlyOn, FlightOver, ReadFirst, ReadSecond, Draw,
     ReadFails, StopNodes, netVars, flightVars
<1>2. CASE WaitHealth
  <2>1. /\ checked' = checked + 1 /\ up[Urls[checked + 1]] /\ UNCHANGED up
        /\ main = "start" /\ checked \in Nat
    BY <1>2 DEF WaitHealth, netVars, UpInv, WaitInv
  <2>2. \A i \in 1..checked' : Urls[i] \in X \/ up[Urls[i]]
    BY <2>1 DEF Good, Alive
  <2>3. Alive(X)' /\ ReadSoFar(X)'
    BY <1>2, <2>1, <2>2 DEF Alive, WaitHealth, ReadSoFar
  <2> QED
    BY <1>1, <2>3, GoodStays
<1>3. CASE FlyOn
  <2>1. Alive(X)' /\ ReadSoFar(X)'
    BY <1>3 DEF FlyOn, mainVars, netVars, Good, Alive, ReadSoFar
  <2> QED
    BY <1>1, <2>1, GoodStays
<1>4. CASE ~WaitHealth /\ ~FlyOn
  <2>1. main' \notin {"start", "fly"}
    BY <1>4 DEF NeverHealthy, FlightOver, ReadFirst, ReadSecond, Draw, ReadFails, StopNodes
  <2>2. Alive(X)'
    BY <2>1 DEF Alive
  <2>3. ReadSoFar(X)'
    BY <1>1, <1>4 DEF NeverHealthy, FlightOver, ReadFirst, ReadSecond, Draw, ReadFails, StopNodes,
                      ReadSoFar
  <2> QED
    BY <1>1, <2>2, <2>3, GoodStays
<1> QED
  BY <1>2, <1>3, <1>4

(* It is too late for a node that has the whole record.                    *)
LEMMA TooLate ==
    ASSUME NetInv, NEW X, NEW c, Good(X, c), NEW m \in late, NEW n \in Nodes,
           Len(chain[n]) > Len(ledger), prop[Script].pc \notin {"committing", "returned"}
    PROVE  ~Net!CanAppend(m.block, chain[n])
<1>1. m.block.index \in 0..Len(ledger) /\ Len(ledger) \in Nat
  BY LedgerLength DEF Good, Missed, LastIndex
<1>2. Len(chain[n]) \in Nat
  BY DEF NetInv, NetP!IntegrityInv, NetP!TypeOK, NetP!Chains
<1>3. Net!Tip(chain[n]).index = Len(chain[n]) - 1
  BY <1>1, <1>2 DEF NetInv, NetP!IntegrityInv, NetP!IndexIsHeight, Net!Tip
<1> QED
  BY <1>1, <1>2, <1>3 DEF Net!CanAppend

LEMMA GoodServeLate ==
    ASSUME NetInv, NEW X, NEW c, Good(X, c), Shape, [Next]_vars,
           UNCHANGED <<main, checked, first, ledger>>, NEW m \in late, Net!ServeLate(m)
    PROVE  Good(X, c)'
<1>1. /\ UNCHANGED <<prop, up>> /\ late' \subseteq late
      /\ \A n \in Nodes \ {m.node} : chain'[n] = chain[n]
      /\ m.node \in Nodes /\ ~Net!CanAppend(m.block, chain[m.node])
             => chain'[m.node] = chain[m.node]
  BY DEF Net!ServeLate, Shape
<1>2. m.node \in X
  BY DEF Good, Missed
<1>3. Alive(X)'
  BY <1>1 DEF Good, Alive
<1>4. ReadSoFar(X)'
  <2>1. Urls[1] \in Nodes
    BY UrlsAreNodes
  <2>2. CASE main # "compare" \/ chain'[Urls[1]] = chain[Urls[1]]
    BY <2>2, ReadKept
  <2>3. CASE main = "compare" /\ chain'[Urls[1]] # chain[Urls[1]]
    <3>1. m.node = Urls[1] /\ Net!CanAppend(m.block, chain[Urls[1]])
      BY <1>1, <2>1, <2>3
    <3>2. prop[Script].pc \notin {"committing", "returned"}
      BY <2>3 DEF Shape
    <3>3. ~(Len(chain[Urls[1]]) > Len(ledger))
      BY <2>1, <3>1, <3>2, TooLate
    <3>4. ~(Len(first) > Len(ledger))
      BY <2>3, <3>3 DEF Good, ReadSoFar
    <3> QED
      BY <1>2, <3>1, <3>4 DEF ReadSoFar
  <2> QED
    BY <2>2, <2>3
<1> QED
  BY <1>1, <1>2, <1>3, <1>4, GoodStays

LEMMA GoodProposal ==
    ASSUME UpInv, NEW X, NEW c, Good(X, c), Shape, [Next]_vars, Failures' <= 1,
           Propose \/ Proceed
    PROVE  \E Y : Good(Y, c)'
<1>1. main = "fly" /\ UNCHANGED <<main, checked, ledger>>
  BY DEF Propose, Proceed, mainVars, flightVars
<1>2. ASSUME NEW b, Net!GetTip(Script, Urls, b), prop[Script].pc = "idle"
      PROVE  Good(X, c)'
  BY <1>1, <1>2, GoodTip
<1>3. ASSUME \/ Net!GetTipFails(Script, Urls) /\ prop[Script].pc = "idle"
             \/ Net!SignatureRequestFails(Script)
      PROVE  Good(X, c)'
  <2>1. /\ UNCHANGED <<chain, late, up>> /\ prop[Script].pc \notin {"committing", "returned"}
        /\ prop' = [prop EXCEPT ![Script] = Net!Raised("aborted")]
    BY <1>3 DEF Net!GetTipFails, Net!SignatureRequestFails
  <2>2. prop'[Script] = Net!Raised("aborted")
    BY <2>1, PropUpdate
  <2> QED
    BY <1>1, <2>1, <2>2, GoodRaised
<1>4. CASE Net!RequestSignature(Script)
  BY <1>1, <1>4, GoodSignature
<1>5. CASE Net!RequestCommit(Script)
  BY <1>1, <1>5, GoodCommit
<1>6. CASE Net!CommitRequestFails(Script)
  BY <1>1, <1>6, GoodCommitFails
<1>7. CASE Propose
  <2>1. Good(X, c)'
    BY <1>2, <1>3, <1>7 DEF Propose
  <2> QED
    BY <2>1
<1>8. CASE Proceed
  <2>1. Good(X, c)' \/ \E Y : Good(Y, c)'
    BY <1>3, <1>4, <1>5, <1>6, <1>8 DEF Proceed, Net!Proceed
  <2> QED
    BY <2>1
<1> QED
  BY <1>7, <1>8

LEMMA FewerBefore ==
    ASSUME Shape, [Next]_vars, Failures' <= 1
    PROVE  Failures <= 1
<1>1. Failures \in Nat
  BY DEF Shape, Failures
<1>2. Failures' \in Nat /\ Failures <= Failures'
  BY Counters DEF Shape, Failures
<1> QED
  BY <1>1, <1>2

LEMMA RecordNext == RecordInv /\ [Next]_vars => RecordInv'
<1> SUFFICES ASSUME RecordInv, [Next]_vars
             PROVE  RecordInv'
  OBVIOUS
<1>1. /\ UpInv /\ Shape /\ Fresh /\ UpInv' /\ Shape' /\ Fresh'
      /\ NetInv /\ PartsInv'
  BY UpNext, ShapeNext, FreshNext, PartsNext DEF RecordInv, PartsInv
<1>2. SUFFICES ASSUME Failures' <= 1
               PROVE  Complete' /\ \E Y, d : Good(Y, d)'
  BY <1>1 DEF RecordInv
<1>12. Failures <= 1
  BY <1>1, <1>2, FewerBefore
<1>3. PICK X, c : Good(X, c)
  BY <1>12 DEF RecordInv
<1>13. SUFFICES \E Y, d : Good(Y, d)'
  BY <1>3, <1>12, CompleteNext DEF RecordInv
<1>4. CASE WaitHealth \/ NeverHealthy \/ FlyOn \/ FlightOver
           \/ ReadFirst \/ ReadSecond \/ Draw \/ ReadFails \/ StopNodes
  <2>1. Good(X, c)'
    BY <1>1, <1>3, <1>4, GoodScript
  <2> QED
    BY <2>1
<1>5. CASE Propose \/ Proceed
  BY <1>1, <1>2, <1>3, <1>5, GoodProposal
<1>6. CASE Conclude
  BY <1>1, <1>3, <1>6, GoodConclude
<1>7. ASSUME NEW n \in Nodes, ComeUp(n) \/ FailToStart(n)
      PROVE  Good(X, c)'
  BY <1>1, <1>3, <1>7, GoodComeUp
<1>8. ASSUME NEW m \in late, Net!ServeLate(m), UNCHANGED <<mainVars, flightVars>>
      PROVE  Good(X, c)'
  <2>1. UNCHANGED <<main, checked, first, ledger>>
    BY <1>8 DEF mainVars, flightVars
  <2> QED
    BY <1>1, <1>3, <1>8, <2>1, GoodServeLate
<1>9. ASSUME NEW n \in Nodes, Net!Crash(n), UNCHANGED <<mainVars, flightVars>>
      PROVE  Good({n}, c)'
  <2>1. UNCHANGED <<main, checked, first, ledger>>
    BY <1>9 DEF mainVars, flightVars
  <2> QED
    BY <1>1, <1>2, <1>3, <1>9, <2>1, GoodCrash
<1>10. CASE UNCHANGED vars
  <2>1. UNCHANGED <<prop, ledger, late, chain>> /\ Alive(X)' /\ ReadSoFar(X)'
    BY <1>3, <1>10 DEF vars, mainVars, netVars, flightVars, Good, Alive, ReadSoFar
  <2>2. Good(X, c)'
    BY <1>1, <1>3, <2>1, GoodStays
  <2> QED
    BY <2>2
<1>11. CASE Around
  <2>1. Good(X, c)' \/ \E n \in Nodes : Good({n}, c)'
    BY <1>7, <1>8, <1>9, <1>11 DEF Around
  <2> QED
    BY <2>1
<1> QED
  BY <1>4, <1>5, <1>6, <1>10, <1>11 DEF Next, Main

LEMMA RecordInit == Init => RecordInv
<1> SUFFICES ASSUME Init
             PROVE  RecordInv
  OBVIOUS
<1>1. /\ main = "start" /\ checked = 0 /\ chain = [n \in Nodes |-> <<Net!Genesis>>]
      /\ prop[Script] = Net!Raised("idle") /\ DOMAIN prop = {Script}
      /\ late = {} /\ crashes = 0 /\ unanswered = 0 /\ ledger = <<>>
  BY DEF Init, Flight!Init
<1>2. UpInv /\ PartsInv
  BY UpInit, PartsInit
<1>3. Shape /\ Fresh
  BY <1>1, RaisedShape DEF Shape, Fresh
<1>4. PICK c : c = <<Net!Genesis>>
  OBVIOUS
<1>5. OnRecord(c)
  <2>1. Sequence(c) /\ Len(c) = 1 /\ c[1] = Net!Genesis
    BY <1>4 DEF Sequence
  <2>2. Sequence(HeldIn(c)) /\ Len(HeldIn(c)) = 0
    BY <2>1, HeldFacts
  <2>3. Sequence(ledger) /\ Len(ledger) = 0
    BY <1>1 DEF Sequence
  <2>4. HeldIn(c) = ledger
    BY <2>2, <2>3, EqualSequences
  <2>5. Net!Tip(c).index = Len(c) - 1
    BY <2>1 DEF Net!Tip, Net!Genesis, Net!NewBlock
  <2> QED
    BY <2>1, <2>4, <2>5 DEF OnRecord
<1>6. prop[Script].pc = "idle"
  BY <1>1, RaisedShape
<1>7. Good({}, c)
  BY <1>1, <1>4, <1>5, <1>6
  DEF Good, Small, Holding, Served, VotesFor, Fits, Alive, Missed, ReadSoFar
<1>8. Complete
  BY FlightPInit, FlightConstants, FlightP!LedgerInit, FlightP!OneBlockInit DEF Complete
<1> QED
  BY <1>2, <1>3, <1>7, <1>8 DEF RecordInv

LEMMA RecordHeld == RecordInv => FlightIsRecorded
<1> SUFFICES ASSUME RecordInv, Failures <= 1, prop[Script].pc \notin {"committing", "returned"}
             PROVE  Cardinality({n \in Nodes : Held(n) = ledger}) >= RequiredSignatures
  BY DEF FlightIsRecorded, BetweenProposals
<1> DEFINE S == {n \in Nodes : Held(n) = ledger}
<1>1. PICK X, c : Good(X, c)
  BY DEF RecordInv
<1>2. ASSUME NEW n \in Nodes \ X
      PROVE  Held(n) = ledger
  <2>1. chain[n] = c
    BY <1>1 DEF Good, Holding, Served
  <2>2. HeldIn(c) = ledger
    BY <1>1 DEF Good, OnRecord
  <2> QED
    BY <2>1, <2>2 DEF Held, HeldIn
<1>3. Nodes \ X \subseteq S /\ S \subseteq Nodes
  BY <1>2
<1>4. X \subseteq Nodes /\ \A x, y \in X : x = y
  BY <1>1 DEF Good, Small
<1> HIDE DEF S
<1>5. Cardinality(S) >= RequiredSignatures
  BY <1>3, <1>4, HoldersAreMany
<1> QED
  BY <1>5 DEF S

(* run_full_flight over propose_and_commit: whatever the flight decides,   *)
(* and at whatever request one node is killed or one answer is lost, the   *)
(* blocks that a node had taken when their proposals ended, and nothing    *)
(* else, are what a majority of the nodes holds, in the order of the       *)
(* flight.                                                                 *)
THEOREM FlightAlwaysRecorded == Spec => []FlightIsRecorded
<1>1. Init => RecordInv
  BY RecordInit
<1>2. RecordInv /\ [Next]_vars => RecordInv'
  BY RecordNext
<1>3. RecordInv => FlightIsRecorded
  BY RecordHeld
<1> QED
  BY <1>1, <1>2, <1>3, PTL DEF Spec

(* What holds of the ledger holds of a node that has it.                   *)
LEMMA LedgerShows ==
    ASSUME Complete, NEW n \in Nodes, Held(n) = ledger
    PROVE  ShowsFlight(n)
<1>1. Flight!CyclesIn(ledger) = FlightP!CyclesIn(ledger)
  BY DEF Flight!CyclesIn, FlightP!CyclesIn
<1>2. \A S : FlightP!Cardinality(S) = Cardinality(S)
  BY DEF FlightP!Cardinality, Cardinality
<1>3. Cardinality(Flight!CyclesIn(ledger)) = Len(cycles)
  BY <1>1, <1>2 DEF Complete, FlightP!OneBlockPerCycle
<1>4. Flight!SummedUp(ledger) <=> FlightP!SummedUp(ledger)
  BY DEF Flight!SummedUp, FlightP!SummedUp, Flight!Replans, FlightP!Replans, Flight!Stops,
         FlightP!Stops, Flight!Ties, FlightP!Ties, Flight!Having, FlightP!Having,
         Flight!Cardinality, FlightP!Cardinality
<1>5. Flight!SummedUp(ledger)
  BY <1>4 DEF Complete, FlightP!LedgerInv, FlightP!SummaryMatchesRecord
<1>6. pc = "done" => Len(ledger) = 2 + Len(cycles) + 2
  BY DEF Complete, FlightP!LedgerInv, FlightP!LedgerFits, FlightP!FlightInv, FlightP!TypeOK
<1> QED
  BY <1>3, <1>5, <1>6 DEF ShowsFlight

LEMMA RecordShows == RecordInv => RecordIsComplete
<1> SUFFICES ASSUME RecordInv, Failures <= 1, BetweenProposals
             PROVE  Cardinality({n \in Nodes : ShowsFlight(n)}) >= RequiredSignatures
  BY DEF RecordIsComplete
<1> DEFINE S == {n \in Nodes : Held(n) = ledger}
           T == {n \in Nodes : ShowsFlight(n)}
<1>1. Cardinality(S) >= RequiredSignatures
  BY RecordHeld DEF FlightIsRecorded
<1>2. S \subseteq T /\ T \subseteq Nodes
  BY LedgerShows DEF RecordInv
<1>3. /\ IsFiniteSet(T) /\ Cardinality(S) <= Cardinality(T)
      /\ Cardinality(S) \in Nat /\ Cardinality(T) \in Nat
  <2> HIDE DEF S, T
  <2>1. IsFiniteSet(T) /\ IsFiniteSet(S)
    BY <1>2, MajorityAssumption, FS_Subset
  <2> QED
    BY <1>2, <2>1, FS_Subset, FS_CardinalityType
<1> HIDE DEF S, T
<1>4. Cardinality(T) >= RequiredSignatures
  BY <1>1, <1>3, MajorityAssumption, FS_CardinalityType
<1> QED
  BY <1>4 DEF T

(* The flight never looks at the results of its commits, and does not have *)
(* to: whatever one failure there is, at whatever request, and whatever    *)
(* exception ends the flight, a majority of the nodes holds a block for    *)
(* each cycle that the flight went on from, summaries that are right about *)
(* the chain they are on, and after a whole flight all of its blocks.      *)
THEOREM RecordAlwaysComplete == Spec => []RecordIsComplete
<1>1. Init => RecordInv
  BY RecordInit
<1>2. RecordInv /\ [Next]_vars => RecordInv'
  BY RecordNext
<1>3. RecordInv => RecordIsComplete
  BY RecordShows
<1> QED
  BY <1>1, <1>2, <1>3, PTL DEF Spec

-----------------------------------------------------------------------------
(* The report.                                                             *)

(* The nodes are read when the flight has ended well, and the report is    *)
(* written when they have been read.                                       *)
ReadInv ==
    /\ main \in {"narrate", "compare"} => pc = "done"
    /\ main = "compare" => first \in NetP!Chains /\ NetP!VerifyFullChain(first)
    /\ report # <<>> => main \in {"draw", "stop", "ended"} /\ checked = Len(Urls)

ReportInv == RecordInv /\ ReadInv /\ AgreementCountsFlight

LEMMA ChainFacts ==
    ASSUME NEW c \in NetP!Chains
    PROVE  Sequence(c) /\ Len(c) \in Nat /\ Len(c) >= 1
<1>1. c \in Seq(NetP!Blocks) /\ c # <<>>
  BY DEF NetP!Chains
<1>2. c \in [1..Len(c) -> {c[i] : i \in DOMAIN c}] /\ Len(c) \in Nat
  BY <1>1
<1>3. c \in Seq({c[i] : i \in DOMAIN c})
  BY <1>2
<1> QED
  BY <1>1, <1>3 DEF Sequence

LEMMA NodeChains ==
    ASSUME NetInv, NEW n \in Nodes
    PROVE  chain[n] \in NetP!Chains /\ NetP!VerifyFullChain(chain[n])
  BY DEF NetInv, NetP!IntegrityInv, NetP!TypeOK, NetP!IntegrityHolds

(* A digest commits to the data.                                           *)
LEMMA DataInHash ==
    ASSUME NEW a \in NetP!Blocks, NEW b \in NetP!Blocks,
           NetP!HashIsValid(a), NetP!HashIsValid(b), a.hash = b.hash
    PROVE  a.data = b.data
<1> DEFINE S == Nat \X (Stamped \union {GenesisPayload})
<1>1. /\ a.prev \in Seq(S) /\ <<a.index, a.data>> \in S
      /\ b.prev \in Seq(S) /\ <<b.index, b.data>> \in S
  BY DEF NetP!Blocks, NetP!Digests
<1>2. Append(a.prev, <<a.index, a.data>>) = Append(b.prev, <<b.index, b.data>>)
  BY DEF NetP!HashIsValid, NetP!ComputeHash
<1> HIDE DEF S
<1>3. Len(a.prev) + 1 = Len(b.prev) + 1
  BY <1>1, <1>2, AppendProperties
<1>4. <<a.index, a.data>> = <<b.index, b.data>>
  BY <1>1, <1>2, <1>3, AppendProperties
<1> QED
  BY <1>4

(* Two chains that verify and have the same digests hold the same data.    *)
LEMMA SameHistory ==
    ASSUME NEW c \in NetP!Chains, NEW d \in NetP!Chains,
           NetP!VerifyFullChain(c), NetP!VerifyFullChain(d), Hashes(c) = Hashes(d)
    PROVE  Len(c) = Len(d) /\ HeldIn(c) = HeldIn(d)
<1>1. /\ Sequence(c) /\ Len(c) \in Nat /\ Len(c) >= 1
      /\ Sequence(d) /\ Len(d) \in Nat /\ Len(d) >= 1
  BY ChainFacts
<1>2. 1..Len(c) = 1..Len(d)
  BY DEF Hashes
<1>3. Len(c) = Len(d)
  BY <1>1, <1>2
<1>4. \A i \in 1..Len(c) : c[i].hash = d[i].hash
  <2> TAKE i \in 1..Len(c)
  <2>1. Hashes(c)[i] = Hashes(d)[i]
    OBVIOUS
  <2>2. Hashes(c)[i] = c[i].hash /\ Hashes(d)[i] = d[i].hash
    BY <1>3 DEF Hashes
  <2> QED
    BY <2>1, <2>2
<1>5. ASSUME NEW i \in 1..Len(c) - 1
      PROVE  c[i + 1].data = d[i + 1].data
  <2>1. i + 1 \in 2..Len(c) /\ i + 1 \in 2..Len(d) /\ i + 1 \in 1..Len(c)
    BY <1>1, <1>3
  <2>2. c[i + 1] \in NetP!Blocks /\ d[i + 1] \in NetP!Blocks
    BY <1>3, <2>1 DEF NetP!Chains
  <2>3. NetP!HashIsValid(c[i + 1]) /\ NetP!HashIsValid(d[i + 1])
    BY <2>1 DEF NetP!VerifyFullChain
  <2> QED
    BY <1>4, <2>1, <2>2, <2>3, DataInHash
<1>6. HeldIn(c) = HeldIn(d)
  BY <1>3, <1>5 DEF HeldIn
<1> QED
  BY <1>3, <1>6

LEMMA ReadNext == UpInv /\ PartsInv /\ ReadInv /\ [Next]_vars => ReadInv'
<1> SUFFICES ASSUME UpInv, PartsInv, ReadInv, [Next]_vars
             PROVE  ReadInv'
  OBVIOUS
<1>1. CASE FlightOver
  BY <1>1 DEF FlightOver, flightVars, ReadInv
<1>2. CASE ReadFirst
  <2>1. chain[Urls[1]] \in NetP!Chains /\ NetP!VerifyFullChain(chain[Urls[1]])
    BY NodeChains, UrlsAreNodes DEF PartsInv
  <2>2. first' \in NetP!Chains /\ NetP!VerifyFullChain(first)'
    BY <1>2, <2>1 DEF ReadFirst, NetP!VerifyFullChain, NetP!HashIsValid, NetP!ComputeHash,
                      NetP!HasMajority, NetP!ValidSigners
  <2> QED
    BY <1>2, <2>2 DEF ReadFirst, flightVars, ReadInv
<1>3. CASE ReadSecond
  BY <1>3 DEF ReadSecond, ReadInv, UpInv, WaitInv
<1>4. CASE Draw \/ ReadFails \/ StopNodes
  BY <1>4 DEF Draw, ReadFails, StopNodes, ReadInv
<1>5. CASE FlyOn \/ Propose \/ Proceed \/ Conclude
  BY <1>5 DEF FlyOn, Propose, Proceed, Conclude, mainVars, ReadInv
<1>6. CASE WaitHealth \/ NeverHealthy
  BY <1>6 DEF WaitHealth, NeverHealthy, AllHealthy, ReadInv
<1>7. CASE Around \/ UNCHANGED vars
  <2>1. UNCHANGED <<main, checked, first, report, pc>>
    BY <1>7 DEF Around, ComeUp, FailToStart, vars, mainVars, flightVars
  <2> QED
    BY <2>1 DEF ReadInv, NetP!VerifyFullChain, NetP!HashIsValid, NetP!ComputeHash,
                NetP!HasMajority, NetP!ValidSigners
<1> QED
  BY <1>1, <1>2, <1>3, <1>4, <1>5, <1>6, <1>7 DEF Next, Main

(* Of the two nodes that were read one is not exempt, and it has the whole *)
(* record; if the other agrees with it, it had that too, and has it still. *)
LEMMA BothHaveIt ==
    ASSUME RecordInv, ReadInv, Failures <= 1, main = "compare",
           Hashes(first) = Hashes(chain[Urls[2]])
    PROVE  Len(first) = Len(ledger) + 1 /\ Held(Urls[1]) = ledger
<1>1. PICK X, c : Good(X, c)
  BY DEF RecordInv
<1>2. /\ Urls[1] \in Nodes /\ Urls[2] \in Nodes /\ Urls[1] # Urls[2]
  BY UrlsAreNodes, UrlsAssumption
<1>3. \A n \in Nodes \ X : chain[n] = c
  BY <1>1 DEF RecordInv, Shape, Good, Holding, Served
<1>4. /\ Len(c) = Len(ledger) + 1 /\ HeldIn(c) = ledger /\ Len(ledger) \in Nat
  BY <1>1, LedgerLength DEF Good, OnRecord
<1>5. /\ first \in NetP!Chains /\ NetP!VerifyFullChain(first)
      /\ chain[Urls[2]] \in NetP!Chains /\ NetP!VerifyFullChain(chain[Urls[2]])
  BY <1>2, NodeChains DEF ReadInv, RecordInv, PartsInv
<1>6. Urls[1] \notin X \/ Urls[2] \notin X
  BY <1>1, <1>2 DEF Good, Small
<1>7. CASE Urls[1] \notin X
  <2>1. first = c /\ chain[Urls[1]] = c
    BY <1>1, <1>2, <1>3, <1>7 DEF Good, ReadSoFar
  <2> QED
    BY <1>4, <2>1 DEF Held, HeldIn
<1>8. CASE Urls[2] \notin X
  <2>1. chain[Urls[2]] = c
    BY <1>2, <1>3, <1>8
  <2>2. Len(first) = Len(c) /\ HeldIn(first) = HeldIn(c)
    BY <1>5, <2>1, SameHistory
  <2>3. first = chain[Urls[1]]
    BY <1>1, <1>4, <2>2 DEF Good, ReadSoFar
  <2> QED
    BY <1>4, <2>2, <2>3 DEF Held, HeldIn
<1> QED
  BY <1>6, <1>7, <1>8

LEMMA ReportWritten ==
    ASSUME RecordInv, ReadInv, ReadSecond
    PROVE  AgreementCountsFlight'
<1> SUFFICES ASSUME Failures <= 1, Hashes(first) = Hashes(chain[Urls[2]])
             PROVE  /\ \A i \in 2..Len(first) : first[i].prev = first[i - 1].hash
                    /\ Len(first) = 1 + 2 + Len(cycles) + 2
                    /\ Held(Urls[1]) = ledger
  <2>1. /\ UNCHANGED <<Failures, chain, ledger>>
        /\ report'.total = Len(first) /\ report'.cycles = Len(cycles)
        /\ report'.intact = (\A i \in 2..Len(first) : first[i].prev = first[i - 1].hash)
        /\ report'.agree = (Hashes(first) = Hashes(chain[Urls[2]]))
    BY DEF ReadSecond, Failures, netVars, flightVars
  <2> QED
    BY <2>1 DEF AgreementCountsFlight, Held
<1>1. main = "compare" /\ pc = "done" /\ NetP!VerifyFullChain(first)
  BY DEF ReadSecond, ReadInv
<1>2. \A i \in 2..Len(first) : first[i].prev = first[i - 1].hash
  BY <1>1 DEF NetP!VerifyFullChain
<1>3. Len(first) = Len(ledger) + 1 /\ Held(Urls[1]) = ledger
  BY <1>1, BothHaveIt
<1>4. Len(ledger) = Len(cycles) + 4 /\ Len(cycles) \in Nat
  BY <1>1 DEF RecordInv, Complete, FlightP!LedgerInv, FlightP!LedgerFits, FlightP!FlightInv,
              FlightP!TypeOK
<1> QED
  BY <1>2, <1>3, <1>4

(* A report that was written stays true of the first node.                 *)
LEMMA ReportStays ==
    ASSUME AgreementCountsFlight, UNCHANGED <<report, ledger>>, Failures' <= 1 => Failures <= 1,
           report # <<>> /\ Failures <= 1 /\ Held(Urls[1]) = ledger
               => chain'[Urls[1]] = chain[Urls[1]]
    PROVE  AgreementCountsFlight'
  BY DEF AgreementCountsFlight, Held

LEMMA ReportNext == ReportInv /\ [Next]_vars => ReportInv'
<1> SUFFICES ASSUME ReportInv, [Next]_vars
             PROVE  ReportInv'
  OBVIOUS
<1>1. RecordInv /\ ReadInv /\ UpInv /\ PartsInv /\ Shape
  BY DEF ReportInv, RecordInv
<1>2. RecordInv' /\ ReadInv'
  BY <1>1, RecordNext, ReadNext
<1>3. Failures' <= 1 => Failures <= 1
  BY <1>1, FewerBefore
<1>4. Urls[1] \in Nodes
  BY UrlsAreNodes
<1>5. SUFFICES ASSUME ~ReadSecond
               PROVE  AgreementCountsFlight'
  BY <1>1, <1>2, ReportWritten DEF ReportInv
<1>6. CASE report = <<>>
  <2>1. report' = <<>>
    BY <1>5, <1>6 DEF Next, Main, Around, vars, mainVars, WaitHealth, NeverHealthy, FlyOn, Propose,
       Proceed, Conclude, FlightOver, ReadFirst, Draw, ReadFails, StopNodes, ComeUp, FailToStart
  <2> QED
    BY <2>1 DEF AgreementCountsFlight
<1>7. CASE report # <<>>
  <2>1. main \in {"draw", "stop", "ended"} /\ checked = Len(Urls)
    BY <1>1, <1>7 DEF ReadInv
  <2>2. CASE Draw \/ ReadFails \/ StopNodes \/ UNCHANGED vars
    <3>1. UNCHANGED <<report, ledger, chain>>
      BY <2>2 DEF Draw, ReadFails, StopNodes, vars, mainVars, netVars, flightVars
    <3> QED
      BY <1>3, <3>1, ReportStays DEF ReportInv
  <2>3. ASSUME NEW n \in Nodes, ComeUp(n) \/ FailToStart(n)
        PROVE  FALSE
    BY <1>1, <2>1, <2>3, UrlsAreNodes DEF ComeUp, FailToStart, UpInv, WaitInv
  <2>4. ASSUME NEW n \in Nodes, Net!Crash(n), UNCHANGED <<mainVars, flightVars>>
        PROVE  AgreementCountsFlight'
    <3>1. UNCHANGED <<report, ledger, chain>>
      BY <2>4 DEF Net!Crash, mainVars, flightVars
    <3> QED
      BY <1>3, <3>1, ReportStays DEF ReportInv
  <2>5. ASSUME NEW m \in late, Net!ServeLate(m), UNCHANGED <<mainVars, flightVars>>
        PROVE  AgreementCountsFlight'
    <3>1. UNCHANGED <<report, ledger>>
      BY <2>5 DEF mainVars, flightVars
    <3>2. ASSUME Failures <= 1, Held(Urls[1]) = ledger
          PROVE  chain'[Urls[1]] = chain[Urls[1]]
      <4>1. PICK X, c : Good(X, c)
        BY <1>1, <3>2 DEF RecordInv
      <4>2. prop[Script].pc \notin {"committing", "returned"}
        BY <1>1, <2>1 DEF Shape
      <4>3. Len(chain[Urls[1]]) > Len(ledger)
        <5>1. chain[Urls[1]] \in NetP!Chains
          BY <1>1, <1>4, NodeChains DEF PartsInv
        <5>2. HeldIn(chain[Urls[1]]) = ledger
          BY <3>2 DEF Held, HeldIn
        <5> QED
          BY <5>1, <5>2, ChainFacts, HeldFacts
      <4>4. ~Net!CanAppend(m.block, chain[Urls[1]])
        BY <1>1, <1>4, <4>1, <4>2, <4>3, TooLate DEF PartsInv
      <4> QED
        BY <1>1, <1>4, <2>5, <4>4 DEF Net!ServeLate, Shape
    <3> QED
      BY <1>3, <3>1, <3>2, ReportStays DEF ReportInv
  <2> QED
    BY <1>5, <2>1, <2>2, <2>3, <2>4, <2>5 DEF Next, Main, Around, WaitHealth, NeverHealthy, FlyOn,
       Propose, Proceed, Conclude, FlightOver, ReadFirst
<1> QED
  BY <1>6, <1>7

(* narrate: where the report says that the nodes agree, what it counts is  *)
(* the whole flight and the first node holds it, although only two of the  *)
(* nodes are asked, one after the other, while a late request may still be *)
(* served: with at most one kill or lost answer, at any point.  That all   *)
(* three agree it does not show.                                           *)
THEOREM AgreementAlwaysCounts == Spec => []AgreementCountsFlight
<1>1. Init => ReportInv
  <2> SUFFICES ASSUME Init
               PROVE  ReportInv
    OBVIOUS
  <2>1. main = "start" /\ report = <<>>
    BY DEF Init
  <2> QED
    BY <2>1, RecordInit DEF ReportInv, ReadInv, AgreementCountsFlight
<1>2. ReportInv /\ [Next]_vars => ReportInv'
  BY ReportNext
<1>3. ReportInv => AgreementCountsFlight
  BY DEF ReportInv
<1> QED
  BY <1>1, <1>2, <1>3, PTL DEF Spec
=============================================================================
