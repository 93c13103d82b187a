---------------------------- MODULE Flix_proofs ----------------------------
(***************************************************************************)
(* What holds of flix as long as its clock has not wrapped, which it does  *)
(* after 71 minutes: the motors stop when the radio falls silent, and      *)
(* parameters get saved.                                                   *)
(*                                                                         *)
(* The argument for the motors: in every pass the descent takes dt from    *)
(* the throttle, and the dt of all passes add up to the time on the clock, *)
(* however it rounds, which is never further from the true time than its   *)
(* resolution.  For the parameters: whatever syncParameters put off, it    *)
(* put off while a motor was active, or less than a second after it last   *)
(* saved everything.                                                       *)
(***************************************************************************)
EXTENDS Flix, TLAPS

(* The power is turned off before the clock wraps.                         *)
NoWrap == MaxUptime < ClockSize

(* The types of the flags, and of everything else but calm.                *)
Flags == switch \in BOOLEAN /\ armed \in BOOLEAN /\ active \in BOOLEAN

Rest ==
    /\ pc \in {"step", "control", "input", "test", "mavlink", "sync"}
    /\ uptime \in 0..MaxUptime
    /\ t \in Nat \cup {NoTime} /\ t < ClockSize + Resolution /\ dt \in Nat
    /\ controlsTime \in Nat /\ lastSync \in Nat
    /\ throttle \in Int /\ throttle <= MaxThrottle
    /\ param \in Values /\ cache \in Values /\ flash \in Values
    /\ heard \in Nat

(* Before the first pass there is no time, and nothing was commanded.      *)
Stepped == t = NoTime => pc = "step" /\ throttle = 0

TypeInv == Flags /\ Rest /\ Stepped /\ calm \in Nat

LEMMA TypeParts == TypeInv => TypeOK
  BY DEF TypeInv, TypeOK, Flags, Rest

(* The remainder by the size of the clock is a time the clock can show, and*)
(* the time itself while the clock has not wrapped.                        *)
LEMMA Clock ==
  ASSUME NEW time \in Nat
  PROVE  /\ time % ClockSize \in ClockTimes
         /\ time < ClockSize => time % ClockSize = time
  BY FlixAssumption DEF ClockTimes

(* Before the wrap the clock tells the time to within its resolution, and  *)
(* does not go back.                                                       *)
LEMMA ClockRounds ==
  ASSUME NEW time \in Nat, time < ClockSize
  PROVE  /\ Rounded(time) \in Nat
         /\ Rounded(time) <= time + Resolution /\ time <= Rounded(time) + Resolution
         /\ \A later \in Nat : time <= later /\ later < ClockSize
                                => Rounded(time) <= Rounded(later)
<1>1. \A x \in Nat : x < ClockSize => x \in ClockTimes
  BY FlixAssumption DEF ClockTimes
<1> QED
  BY <1>1, RoundingAssumption

(* Time does not go back, nor beyond the end.                              *)
LEMMA PassOfTime ==
  ASSUME NEW most \in Nat, uptime \in 0..MaxUptime, Pass(most)
  PROVE  uptime' \in 0..MaxUptime /\ uptime <= uptime'
  BY FlixAssumption DEF Pass

LEMMA ResolutionType == Resolution \in Nat
  BY RoundingAssumption

(* setup() leads to the first state of a run, whatever it was before.      *)
LEMMA SetupTypeInv ==
  ASSUME NEW stored \in Values \cup {Unset}, Setup(stored)
  PROVE  TypeInv'
<1> USE FlixAssumption DEF Setup
<1>1. flash' \in Values /\ param' \in Values
  BY DEF Loaded, MayBeMeasured
<1>2. Flags'
  BY DEF Flags
<1>3. Rest' /\ Stepped' /\ calm' \in Nat
  BY <1>1, ResolutionType DEF Rest, NoTime, Stepped
<1> QED
  BY <1>2, <1>3 DEF TypeInv

LEMMA InitTypeInv == Init => TypeInv
<1> SUFFICES ASSUME Init PROVE TypeInv
  OBVIOUS
<1> USE FlixAssumption DEF Init
<1>1. Flags
  BY DEF Flags
<1>2. Rest /\ Stepped /\ calm \in Nat
  BY ResolutionType DEF Rest, NoTime, Stepped, MayBeMeasured
<1> QED
  BY <1>1, <1>2 DEF TypeInv

LEMMA TypeStep == TypeInv /\ [Next]_vars => TypeInv'
<1> SUFFICES ASSUME TypeInv, [Next]_vars PROVE TypeInv'
  OBVIOUS
<1> USE FlixAssumption
<1>0. Flags /\ Rest /\ Stepped /\ calm \in Nat
  BY DEF TypeInv
<1>1. ASSUME Step PROVE Flags' /\ Rest' /\ Stepped'
  <2>1. Flags'
    BY <1>0, <1>1 DEF Step, Flags, radioVars
  <2>2. uptime' \in 0..MaxUptime
    BY <1>0, <1>1, PassOfTime DEF Step, Rest
  <2>3. t' = Rounded(uptime' % ClockSize)
    BY <1>1 DEF Step
  <2>4. t' \in Nat /\ t' < ClockSize + Resolution
    <3>1. uptime' \in Nat
      BY <2>2
    <3> DEFINE time == uptime' % ClockSize
    <3>2. time \in ClockTimes
      BY <3>1, Clock, Zenon
    <3> HIDE DEF time
    <3>3. /\ Rounded(time) \in Nat /\ Rounded(time) <= time + Resolution
          /\ Resolution \in Nat
      BY <3>2, RoundingAssumption
    <3>4. time \in Int /\ time < ClockSize
      BY <3>2 DEF ClockTimes
    <3>5. Rounded(time) < ClockSize + Resolution
      BY <3>3, <3>4
    <3> QED
      BY <2>3, <3>3, <3>5 DEF time
  <2>5. dt' = (IF t # NoTime /\ t' > t THEN t' - t ELSE 0)
    BY <1>1 DEF Step
  <2>6. dt' \in Nat
    <3>1. t \in Nat \cup {NoTime}
      BY <1>0 DEF Rest
    <3>2. t \in Int
      BY <3>1 DEF NoTime
    <3>3. t' \in Int
      BY <2>4
    <3>4. (dt' = t' - t /\ t' > t) \/ dt' = 0
      BY <2>5, Zenon
    <3> QED
      BY <3>2, <3>3, <3>4
  <2>7. pc' = "control" /\ UNCHANGED <<radioVars, lastSync, paramVars>>
    BY <1>1 DEF Step
  <2>8. Rest' /\ Stepped'
    BY <1>0, <2>2, <2>4, <2>6, <2>7 DEF Rest, Stepped, NoTime, radioVars, paramVars
  <2> QED
    BY <2>1, <2>8
<1>2. ASSUME Control PROVE Flags' /\ Rest' /\ Stepped'
  <2>1. Flags'
    <3>1. armed' \in BOOLEAN
      BY <1>2 DEF Control
    <3>2. active' \in BOOLEAN /\ switch' = switch
      BY <1>2 DEF Control
    <3> QED
      BY <3>1, <3>2, <1>0 DEF Flags
  <2>2. throttle' \in Int /\ throttle' <= MaxThrottle
    BY <1>0, <1>2 DEF Control, Rest, Descended
  <2>3. Rest' /\ Stepped'
    BY <1>0, <1>2, <2>2 DEF Control, Rest, Stepped, paramVars
  <2> QED
    BY <2>1, <2>3
<1>3. ASSUME NoMoreInput \/ CommandSet \/ CommandTest PROVE Flags' /\ Rest' /\ Stepped'
  <2>1. Flags'
    BY <1>0, <1>3 DEF NoMoreInput, CommandSet, CommandTest, SetParameter, Flags, radioVars
  <2>2. Rest' /\ Stepped'
    BY <1>0, <1>3 DEF NoMoreInput, CommandSet, CommandTest, SetParameter, Rest, Stepped,
                      radioVars, paramVars
  <2> QED
    BY <2>1, <2>2
<1>4. ASSUME TestEnds \/ CommandCalibrate PROVE Flags' /\ Rest' /\ Stepped'
  <2>1. Flags'
    BY <1>0, <1>4 DEF TestEnds, CommandCalibrate, SetParameter, Flags, radioVars
  <2>2. uptime' \in 0..MaxUptime
    BY <1>0, <1>4, PassOfTime DEF TestEnds, CommandCalibrate, Rest
  <2>3. Rest' /\ Stepped'
    BY <1>0, <1>4, <2>2 DEF TestEnds, CommandCalibrate, SetParameter, Rest, Stepped, radioVars, paramVars
  <2> QED
    BY <2>1, <2>3
<1>5. ASSUME ProcessMavlink PROVE Flags' /\ Rest' /\ Stepped'
  <2>1. Flags'
    BY <1>0, <1>5 DEF ProcessMavlink, ManualControl, SetParameter, Flags, radioVars
  <2>2. /\ throttle' \in Int /\ throttle' <= MaxThrottle
        /\ controlsTime' \in Nat /\ heard' \in Nat
    BY <1>0, <1>5 DEF ProcessMavlink, ManualControl, Rest, Stepped, radioVars
  <2>3. param' \in Values /\ cache' = cache /\ flash' = flash
    BY <1>0, <1>5 DEF ProcessMavlink, SetParameter, Rest, paramVars
  <2>4. Rest' /\ Stepped'
    BY <1>0, <1>5, <2>2, <2>3 DEF ProcessMavlink, Rest, Stepped
  <2> QED
    BY <2>1, <2>4
<1>6. ASSUME SyncParameters PROVE Flags' /\ Rest' /\ Stepped'
  <2>1. Flags'
    BY <1>0, <1>6 DEF SyncParameters, Flags, radioVars
  <2>2. Rest' /\ Stepped'
    BY <1>0, <1>6 DEF SyncParameters, Rest, Stepped, radioVars
  <2> QED
    BY <2>1, <2>2
<1>7. CASE CommandReset \/ Restart
  BY <1>0, <1>7, SetupTypeInv DEF CommandReset, Restart, Rest
<1>8. CASE UNCHANGED vars
  <2>1. Flags'
    BY <1>0, <1>8 DEF vars, Flags, radioVars
  <2>2. Rest' /\ Stepped' /\ calm' \in Nat
    BY <1>0, <1>8 DEF vars, Rest, Stepped, radioVars, paramVars
  <2> QED
    BY <2>1, <2>2 DEF TypeInv
<1>9. CASE Next /\ Calm /\ ~CommandReset /\ ~Restart
  <2>1. Flags' /\ Rest' /\ Stepped'
    BY <1>1, <1>2, <1>3, <1>4, <1>5, <1>6, <1>9 DEF Next
  <2>2. calm' \in Nat
    BY <2>1, <1>0, <1>9 DEF Calm, Rest
  <2> QED
    BY <2>1, <2>2 DEF TypeInv
<1> QED
  BY <1>7, <1>8, <1>9 DEF Next

(* The variables of flix keep their types, also beyond the wrap: a command *)
(* of any size always has a time, and the storage always a value.          *)
THEOREM FlixTypeCorrect == Spec => []TypeOK
<1>1. Spec => []TypeInv
  BY InitTypeInv, TypeStep, PTL DEF Spec
<1> QED
  BY <1>1, TypeParts, PTL

-----------------------------------------------------------------------------
(* The clock tells the true time as well as a float can, and what was heard*)
(* came when it says.                                                      *)
ClockIsTrue ==
    /\ t <= Rounded(uptime)
    /\ pc = "control" => t = Rounded(uptime)
    /\ controlsTime <= Rounded(heard) /\ heard <= uptime

(* The throttle falls in time: what there is of it, and the time since the *)
(* command, are together no more than at the end of the timeout.  In the   *)
(* middle of a pass the descent of this pass is still missing.             *)
DescentIsOnTime ==
    \/ throttle <= 0
    \/ /\ pc = "control"
       /\ throttle + (t - controlsTime) <= LossTimeout + MaxThrottle + dt
    \/ /\ pc # "control"
       /\ throttle + (t - controlsTime) <= LossTimeout + MaxThrottle

MotorsInv == ClockIsTrue /\ DescentIsOnTime

LEMMA Times ==
  ASSUME Rest
  PROVE  /\ t \in Int /\ (t = NoTime \/ t \in Nat) /\ dt \in Int /\ uptime \in Int
         /\ controlsTime \in Int /\ heard \in Int /\ throttle \in Int
<1>1. t \in Nat \cup {NoTime} /\ dt \in Int /\ controlsTime \in Int /\ heard \in Int
  BY DEF Rest
<1>2. uptime \in Int /\ throttle \in Int
  BY FlixAssumption DEF Rest
<1>3. t = NoTime \/ t \in Nat
  BY <1>1, Zenon
<1>4. t \in Int
  BY <1>3 DEF NoTime
<1> QED
  BY <1>1, <1>2, <1>3, <1>4

(* Nothing has been taken from what was just commanded; and time that goes *)
(* by adds to both sides.                                                  *)
LEMMA Sums ==
  ASSUME NEW a \in Int, NEW b \in Int, NEW c \in Int, NEW d \in Int, NEW e \in Int
  PROVE  /\ a + (b - b) = a
         /\ a + (b - c) <= d => a + (e - c) <= d + (e - b)
  OBVIOUS

(* What a pass of the clock does before the wrap.                          *)
LEMMA StepOfTime ==
  ASSUME NoWrap, Rest, ClockIsTrue, Step
  PROVE  /\ uptime' \in Nat /\ uptime <= uptime' /\ t' \in Nat
         /\ t' = Rounded(uptime')
         /\ dt' = (IF t = NoTime THEN 0 ELSE t' - t)
<1> USE FlixAssumption
<1>1. uptime' \in 0..MaxUptime /\ uptime <= uptime' /\ uptime \in Nat
  BY PassOfTime DEF Step, Rest
<1>2. uptime' \in Nat /\ uptime' < ClockSize /\ uptime < ClockSize
  BY <1>1 DEF NoWrap
<1>3. uptime' % ClockSize = uptime'
  BY <1>2, Clock, Zenon
<1>4. /\ t' = Rounded(uptime' % ClockSize)
      /\ dt' = (IF t # NoTime /\ t' > t THEN t' - t ELSE 0)
  BY Zenon DEF Step
<1>5. t' = Rounded(uptime') /\ t' >= t /\ t \in Int /\ t' \in Int /\ t' \in Nat
  <2>1. t <= Rounded(uptime) /\ t' = Rounded(uptime')
    BY <1>3, <1>4 DEF ClockIsTrue
  <2>2. /\ Rounded(uptime) \in Nat /\ Rounded(uptime') \in Nat
        /\ Rounded(uptime) <= Rounded(uptime')
    BY <1>1, <1>2, ClockRounds
  <2> QED
    BY <2>1, <2>2, Times
<1>6. dt' = (IF t = NoTime THEN 0 ELSE t' - t)
  <2>1. CASE t = NoTime
    BY <2>1, <1>4, Zenon
  <2>2. CASE t # NoTime /\ t' > t
    BY <2>2, <1>4, Zenon
  <2>3. CASE t # NoTime /\ ~(t' > t)
    <3>1. dt' = 0
      BY <2>3, <1>4, Zenon
    <3>2. t' >= t /\ t \in Int /\ t' \in Int /\ ~(t' > t)
      BY <1>5, <2>3, Zenon
    <3>3. t' = t
      BY <3>2
    <3>4. t' - t = 0
      BY <3>2, <3>3
    <3> QED
      BY <2>3, <3>1, <3>4, Zenon
  <2> QED
    BY <2>1, <2>2, <2>3, Zenon
<1> QED
  BY <1>1, <1>2, <1>5, <1>6

LEMMA RoundedZero == Rounded(0) \in Nat
  BY FlixAssumption, ClockRounds

(* setup() ends before the wrap as well.                                   *)
LEMMA SetupMotorsInv == ASSUME NoWrap, NEW stored, Setup(stored) PROVE MotorsInv'
<1>1. uptime' \in Nat /\ uptime' < ClockSize
  BY FlixAssumption DEF Setup, NoWrap
<1>2. Rounded(uptime') \in Nat
  BY <1>1, ClockRounds
<1>3. /\ t' = NoTime /\ pc' = "step" /\ throttle' = 0
      /\ controlsTime' = 0 /\ heard' = 0
  BY DEF Setup
<1> QED
  BY <1>1, <1>2, <1>3, RoundedZero DEF MotorsInv, ClockIsTrue, DescentIsOnTime, NoTime

LEMMA InitMotorsInv == ASSUME NoWrap, Init PROVE MotorsInv
<1>1. uptime \in Nat /\ uptime < ClockSize
  BY FlixAssumption DEF Init, NoWrap
<1>2. Rounded(uptime) \in Nat
  BY <1>1, ClockRounds
<1>3. t = NoTime /\ pc = "step" /\ throttle = 0 /\ controlsTime = 0 /\ heard = 0
  BY DEF Init
<1> QED
  BY <1>1, <1>2, <1>3, RoundedZero DEF MotorsInv, ClockIsTrue, DescentIsOnTime, NoTime

(* Until the wrap, the clock does not go back between two passes either.   *)
LEMMA ClockGoesOn ==
  ASSUME NoWrap, Rest, uptime' \in 0..MaxUptime, uptime <= uptime'
  PROVE  /\ Rounded(uptime) \in Nat /\ Rounded(uptime') \in Nat
         /\ Rounded(uptime) <= Rounded(uptime')
<1>1. /\ uptime \in Nat /\ uptime < ClockSize
      /\ uptime' \in Nat /\ uptime' < ClockSize
  BY FlixAssumption DEF NoWrap, Rest
<1> QED
  BY <1>1, ClockRounds

LEMMA MotorsStep == NoWrap /\ TypeInv /\ MotorsInv /\ [Next]_vars => MotorsInv'
<1> SUFFICES ASSUME NoWrap, TypeInv, MotorsInv, [Next]_vars PROVE MotorsInv'
  OBVIOUS
<1> USE FlixAssumption
<1>0. Rest /\ Stepped /\ ClockIsTrue /\ DescentIsOnTime
  BY DEF TypeInv, MotorsInv
<1>t. /\ t \in Int /\ (t = NoTime \/ t \in Nat) /\ dt \in Int /\ uptime \in Int
      /\ controlsTime \in Int /\ heard \in Int /\ throttle \in Int
  BY <1>0, Times
<1>1. CASE Step
  <2>1. UNCHANGED <<controlsTime, throttle, heard>> /\ pc = "step" /\ pc' = "control"
    BY <1>1 DEF Step, radioVars
  <2>2. /\ uptime' \in Nat /\ uptime <= uptime' /\ t' \in Nat
        /\ t' = Rounded(uptime')
        /\ dt' = (IF t = NoTime THEN 0 ELSE t' - t)
    BY <1>0, <1>1, StepOfTime
  <2>3. ClockIsTrue'
    BY <1>0, <2>1, <2>2 DEF ClockIsTrue, Rest
  <2>4. DescentIsOnTime'
    <3>1. CASE t = NoTime
      BY <1>0, <2>1, <3>1 DEF DescentIsOnTime, Stepped
    <3>2. CASE t # NoTime
      <4>1. dt' = t' - t /\ t' \in Int
        BY <2>2, <3>2
      <4>0. LossTimeout + MaxThrottle \in Int
        OBVIOUS
      <4>2. /\ controlsTime' = controlsTime /\ throttle' = throttle
            /\ pc = "step" /\ pc' = "control"
        BY <2>1
      <4>3. throttle <= 0 \/ throttle + (t - controlsTime) <= LossTimeout + MaxThrottle
        BY <1>0, <4>2 DEF DescentIsOnTime
      <4>4. throttle <= 0 \/ throttle + (t' - controlsTime) <= LossTimeout + MaxThrottle + dt'
        BY <1>t, <4>0, <4>1, <4>3, Sums
      <4> QED
        BY <4>2, <4>4 DEF DescentIsOnTime
    <3> QED
      BY <3>1, <3>2
  <2> QED
    BY <2>3, <2>4 DEF MotorsInv
<1>2. CASE Control
  <2>1. UNCHANGED <<uptime, t, dt, controlsTime, heard>> /\ pc = "control" /\ pc' = "input"
    BY <1>2 DEF Control
  <2>2. throttle' = IF Lost THEN Descended ELSE throttle
    BY <1>2 DEF Control
  <2>3. ClockIsTrue'
    BY <1>0, <2>1 DEF ClockIsTrue
  <2>4. DescentIsOnTime'
    BY <1>0, <2>1, <2>2 DEF DescentIsOnTime, Rest, Stepped, Lost, Descended
  <2> QED
    BY <2>3, <2>4 DEF MotorsInv
<1>3. CASE NoMoreInput \/ CommandSet \/ CommandTest \/ SyncParameters
  <2>1. UNCHANGED <<uptime, t, controlsTime, throttle, heard>> /\ pc # "control" /\ pc' # "control"
    BY <1>3 DEF NoMoreInput, CommandSet, CommandTest, SyncParameters, radioVars
  <2> QED
    BY <1>0, <2>1 DEF MotorsInv, ClockIsTrue, DescentIsOnTime
<1>4. CASE TestEnds \/ CommandCalibrate
  <2>1. UNCHANGED <<t, controlsTime, throttle, heard>> /\ pc # "control" /\ pc' = "input"
    BY <1>4 DEF TestEnds, CommandCalibrate, radioVars
  <2>2. /\ uptime' \in Nat /\ uptime <= uptime'
        /\ Rounded(uptime) \in Nat /\ Rounded(uptime') \in Nat
        /\ Rounded(uptime) <= Rounded(uptime')
    <3>1. Pass(BlockTime) /\ uptime \in 0..MaxUptime
      BY <1>0, <1>4 DEF TestEnds, CommandCalibrate, Rest
    <3>2. uptime' \in 0..MaxUptime /\ uptime <= uptime'
      BY <3>1, PassOfTime
    <3> QED
      BY <1>0, <3>2, ClockGoesOn
  <2>3. ClockIsTrue'
    BY <1>0, <1>t, <2>1, <2>2 DEF ClockIsTrue
  <2>4. DescentIsOnTime'
    BY <1>0, <2>1 DEF DescentIsOnTime
  <2> QED
    BY <2>3, <2>4 DEF MotorsInv
<1>5. CASE ProcessMavlink
  <2>1. UNCHANGED <<uptime, t>> /\ pc = "mavlink" /\ pc' = "sync"
    BY <1>5 DEF ProcessMavlink
  <2>2. CASE UNCHANGED radioVars
    BY <1>0, <2>1, <2>2 DEF MotorsInv, ClockIsTrue, DescentIsOnTime, radioVars
  <2>3. CASE \E z \in Commands : ManualControl(z)
    <3>1. /\ throttle' \in Int /\ throttle' <= MaxThrottle
          /\ controlsTime' = t /\ heard' = uptime
      BY <2>3 DEF ManualControl
    <3>2. ClockIsTrue'
      BY <1>0, <2>1, <3>1 DEF ClockIsTrue, Rest, NoTime
    <3>3. DescentIsOnTime'
      <4>1. t \in Int /\ t' = t /\ controlsTime' = t
        BY <1>t, <2>1, <3>1, Zenon
      <4>2. throttle' \in Int /\ throttle' <= LossTimeout + MaxThrottle
        BY <3>1
      <4>3. throttle' + (t' - controlsTime') = throttle'
        BY <4>1, <4>2, Sums, Zenon
      <4> QED
        BY <2>1, <4>2, <4>3 DEF DescentIsOnTime
    <3> QED
      BY <3>2, <3>3 DEF MotorsInv
  <2> QED
    BY <1>5, <2>2, <2>3 DEF ProcessMavlink
<1>6. CASE CommandReset \/ Restart
  BY <1>6, SetupMotorsInv DEF CommandReset, Restart
<1>7. CASE UNCHANGED vars
  BY <1>0, <1>7 DEF vars, radioVars, MotorsInv, ClockIsTrue, DescentIsOnTime
<1> QED
  BY <1>1, <1>2, <1>3, <1>4, <1>5, <1>6, <1>7 DEF Next

LEMMA SilenceStep ==
  ASSUME NoWrap, TypeInv, MotorsInv, [Next]_vars
  PROVE  [pc = "control" /\ active' =>
             uptime - heard + ArmThrottle
                 <= LossTimeout + MaxThrottle + dt + 2 * Resolution]_vars
<1> SUFFICES ASSUME Next, pc = "control", active'
             PROVE  uptime - heard + ArmThrottle
                        <= LossTimeout + MaxThrottle + dt + 2 * Resolution
  BY DEF vars, radioVars
<1> USE FlixAssumption
<1>1. Control
  BY DEF Next, Step, NoMoreInput, CommandSet, CommandTest, TestEnds, CommandCalibrate,
         ProcessMavlink, SyncParameters, CommandReset, Restart, Setup
<1>2. throttle >= ArmThrottle
  BY <1>1, Zenon DEF Control
<1>3. Rest /\ ClockIsTrue /\ DescentIsOnTime
  BY DEF TypeInv, MotorsInv
<1>4. throttle > 0 /\ throttle + (t - controlsTime) <= LossTimeout + MaxThrottle + dt
  BY <1>2, <1>3 DEF DescentIsOnTime, Rest
<1>5. t = Rounded(uptime) /\ controlsTime <= Rounded(heard) /\ heard <= uptime
  BY <1>3 DEF ClockIsTrue
<1>6. uptime \in Nat /\ controlsTime \in Nat /\ heard \in Nat /\ dt \in Nat /\ throttle \in Int
  BY <1>3 DEF Rest
<1>7. uptime < ClockSize /\ heard < ClockSize
  BY <1>3, <1>5, <1>6 DEF NoWrap, Rest
<1>8. /\ Rounded(uptime) \in Nat /\ uptime <= Rounded(uptime) + Resolution
      /\ Rounded(heard) \in Nat /\ Rounded(heard) <= heard + Resolution
      /\ Resolution \in Nat
  BY <1>6, <1>7, ClockRounds, RoundingAssumption
<1>9. ASSUME NEW u \in Nat, NEW h \in Nat, u = Rounded(uptime), h = Rounded(heard)
      PROVE  uptime - heard + ArmThrottle
                 <= LossTimeout + MaxThrottle + dt + 2 * Resolution
  <2>1. /\ throttle + (u - controlsTime) <= LossTimeout + MaxThrottle + dt
        /\ controlsTime <= h /\ uptime <= u + Resolution /\ h <= heard + Resolution
        /\ Resolution \in Nat
    BY <1>4, <1>5, <1>8, <1>9
  <2> QED
    BY <1>2, <1>6, <2>1
<1> QED
  BY <1>8, <1>9

(* The failsafe: as long as the clock has not wrapped, no motor is active  *)
(* when the radio has been silent for the timeout, the descent from the    *)
(* highest command there is, and a pass.                                   *)
THEOREM SilenceAlwaysStopsMotors ==
  ASSUME NoWrap PROVE Spec => SilenceStopsMotors
<1>1. Init => TypeInv /\ MotorsInv
  BY InitTypeInv, InitMotorsInv
<1>2. TypeInv /\ MotorsInv /\ [Next]_vars => (TypeInv /\ MotorsInv)'
  BY TypeStep, MotorsStep
<1>3. TypeInv /\ MotorsInv /\ [Next]_vars =>
        [pc = "control" /\ active' =>
            uptime - heard + ArmThrottle
                <= LossTimeout + MaxThrottle + dt + 2 * Resolution]_vars
  BY SilenceStep
<1> QED
  BY <1>1, <1>2, <1>3, PTL DEF Spec, SilenceStopsMotors

-----------------------------------------------------------------------------
(* cache is what is in the storage, and calm is the time it says.          *)
CalmIsTrue ==
    /\ lastSync <= calm + Resolution /\ calm <= uptime
    /\ active \/ param = flash => calm = uptime

SavedInv == cache = flash /\ CalmIsTrue /\ SavesInTime

LEMMA CalmGoesOn ==
  ASSUME Calm, TypeInv, uptime' \in Nat, uptime <= uptime', CalmIsTrue
  PROVE  /\ lastSync <= calm' + Resolution /\ calm' <= uptime' /\ calm <= calm'
         /\ active' \/ param' = flash' => calm' = uptime'
<1>1. calm' = uptime' \/ calm' = calm
  BY Zenon DEF Calm
<1>2. active' \/ param' = flash' => calm' = uptime'
  BY Zenon DEF Calm
<1>3. uptime \in Int /\ lastSync \in Int /\ calm \in Int
  BY FlixAssumption DEF TypeInv, Rest
<1>4. lastSync <= calm + Resolution /\ calm <= uptime /\ Resolution \in Nat
  BY RoundingAssumption DEF CalmIsTrue
<1>5. lastSync <= calm' + Resolution /\ calm' <= uptime' /\ calm <= calm'
  BY <1>1, <1>3, <1>4
<1> QED
  BY <1>2, <1>5

LEMMA SetupSavedInv == ASSUME NEW stored, Setup(stored) PROVE SavedInv'
<1>1. /\ cache' = flash' /\ lastSync' = 0 /\ calm' = uptime' /\ uptime' \in Nat
      /\ t' = -1
  BY FlixAssumption DEF Setup, NoTime
<1>2. ASSUME NEW u \in Nat, u = uptime'
      PROVE  0 <= u + Resolution /\ u <= u /\ -1 - u < Second + Resolution
  BY ResolutionType, FlixAssumption
<1>3. CalmIsTrue' /\ t' - calm' < Second + Resolution
  BY <1>1, <1>2 DEF CalmIsTrue
<1> QED
  BY <1>1, <1>3 DEF SavedInv, SavesInTime

LEMMA InitSavedInv == Init => SavedInv
<1> SUFFICES ASSUME Init PROVE SavedInv
  OBVIOUS
<1>1. /\ cache = flash /\ lastSync = 0 /\ calm = uptime /\ uptime \in Nat
      /\ t = NoTime /\ pc = "step"
  BY FlixAssumption DEF Init
<1> QED
  BY <1>1, ResolutionType, FlixAssumption DEF SavedInv, CalmIsTrue, SavesInTime, NoTime

(* All but syncParameters leave the storage and its cache alone.           *)
LEMMA SavedAfterSync ==
  ASSUME NoWrap, TypeInv, ClockIsTrue, SavedInv, SyncParameters, Calm
  PROVE  SavedInv'
<1> USE FlixAssumption
<1>0. Rest /\ calm \in Nat /\ cache = flash /\ CalmIsTrue
  BY DEF TypeInv, SavedInv
<1>1. UNCHANGED <<uptime, t, active, param>> /\ pc' = "step"
  BY DEF SyncParameters
<1>2. /\ uptime \in Nat /\ t \in Int /\ lastSync \in Int
      /\ t <= uptime + Resolution /\ Resolution \in Nat
  <2>1. uptime \in Nat /\ uptime < ClockSize /\ t \in Int /\ lastSync \in Int
    BY <1>0, Times DEF Rest, NoWrap
  <2>2. Rounded(uptime) \in Nat /\ Rounded(uptime) <= uptime + Resolution
    BY <2>1, ClockRounds
  <2>3. t <= Rounded(uptime) /\ Resolution \in Nat
    BY RoundingAssumption DEF ClockIsTrue
  <2> QED
    BY <2>1, <2>2, <2>3
<1>3. uptime' \in Nat /\ uptime <= uptime'
  BY <1>1, <1>2
<1>4. /\ lastSync <= calm' + Resolution /\ calm' <= uptime'
      /\ active' \/ param' = flash' => calm' = uptime'
  BY <1>0, <1>3, CalmGoesOn
<1>5. CASE SyncDue
  <2>1. lastSync' = t /\ flash' = (IF cache = param THEN flash ELSE param) /\ cache' = param
    BY <1>5 DEF SyncParameters
  <2>2. flash' = param /\ param' = param
    BY <1>0, <1>1, <2>1
  <2>3. calm' = uptime
    BY <1>1, <1>4, <2>2
  <2>4. CalmIsTrue'
    BY <1>1, <1>2, <2>1, <2>3 DEF CalmIsTrue
  <2> QED
    BY <2>1, <2>2, <2>4 DEF SavedInv, SavesInTime
<1>6. CASE ~SyncDue
  <2>1. UNCHANGED <<lastSync, flash, cache>>
    BY <1>6 DEF SyncParameters
  <2>2. CalmIsTrue'
    BY <1>4, <2>1 DEF CalmIsTrue
  <2>3. t - calm' < Second + Resolution
    <3>1. CASE active
      <4>1. calm' = uptime
        BY <3>1, <1>1, <1>4
      <4> QED
        BY <4>1, <1>2
    <3>2. CASE ~active
      <4>1. t - lastSync < Second
        BY <1>2, <1>6, <3>2 DEF SyncDue
      <4>2. calm' \in Int
        BY <1>0, <1>1, <1>2 DEF Calm
      <4>3. lastSync <= calm' + Resolution
        BY <1>0, <1>3, CalmGoesOn
      <4>4. ASSUME NEW c \in Int, lastSync <= c + Resolution
            PROVE  t - c < Second + Resolution
        BY <1>2, <4>1, <4>4
      <4> QED
        BY <4>2, <4>3, <4>4, Zenon
    <3> QED
      BY <3>1, <3>2
  <2> QED
    BY <1>0, <1>1, <2>1, <2>2, <2>3 DEF SavedInv, SavesInTime
<1> QED
  BY <1>5, <1>6

LEMMA SavedStep ==
  NoWrap /\ TypeInv /\ ClockIsTrue /\ SavedInv /\ [Next]_vars => SavedInv'
<1> SUFFICES ASSUME NoWrap, TypeInv, ClockIsTrue, SavedInv, [Next]_vars PROVE SavedInv'
  OBVIOUS
<1> DEFINE Within == Step \/ Control \/ NoMoreInput \/ CommandSet \/ CommandTest
                     \/ TestEnds \/ CommandCalibrate \/ ProcessMavlink
<1>1. CASE Within /\ Calm
  <2>1. uptime \in 0..MaxUptime /\ uptime \in Nat
    BY FlixAssumption DEF TypeInv, Rest
  <2>2. uptime' \in Nat /\ uptime <= uptime'
    <3>1. CASE Step \/ TestEnds \/ CommandCalibrate
      <4>1. uptime' \in 0..MaxUptime /\ uptime <= uptime'
        BY <3>1, <2>1, PassOfTime, FlixAssumption DEF Step, TestEnds, CommandCalibrate
      <4> QED
        BY <4>1
    <3>2. CASE Control \/ NoMoreInput \/ CommandSet \/ CommandTest \/ ProcessMavlink
      <4>1. uptime' = uptime
        BY <3>2 DEF Control, NoMoreInput, CommandSet, CommandTest, ProcessMavlink
      <4> QED
        BY <4>1, <2>1
    <3> QED
      BY <1>1, <3>1, <3>2
  <2>3. UNCHANGED <<lastSync, cache, flash>> /\ pc' # "step"
    BY <1>1 DEF Step, Control, NoMoreInput, CommandSet, CommandTest, TestEnds, CommandCalibrate,
                ProcessMavlink, SetParameter, paramVars
  <2>4. CalmIsTrue'
    BY <1>1, <2>2, <2>3, CalmGoesOn DEF SavedInv, CalmIsTrue
  <2> QED
    BY <2>3, <2>4 DEF SavedInv, SavesInTime
<1>2. CASE SyncParameters /\ Calm
  BY <1>2, SavedAfterSync
<1>3. CASE CommandReset \/ Restart
  BY <1>3, SetupSavedInv DEF CommandReset, Restart
<1>4. CASE UNCHANGED vars
  BY <1>4 DEF vars, paramVars, SavedInv, CalmIsTrue, SavesInTime
<1> QED
  BY <1>1, <1>2, <1>3, <1>4 DEF Next

(* As long as the clock has not wrapped, a parameter not in the storage    *)
(* was changed or measured, or flown with, less than a second before the   *)
(* last pass.                                                              *)
THEOREM ParametersAreSaved ==
  ASSUME NoWrap PROVE Spec => []SavesInTime
<1>1. Init => TypeInv /\ MotorsInv /\ SavedInv
  BY InitTypeInv, InitMotorsInv, InitSavedInv
<1>2. TypeInv /\ MotorsInv /\ SavedInv /\ [Next]_vars => (TypeInv /\ MotorsInv /\ SavedInv)'
  BY TypeStep, MotorsStep, SavedStep DEF MotorsInv
<1>3. SavedInv => SavesInTime
  BY DEF SavedInv
<1> QED
  BY <1>1, <1>2, <1>3, PTL DEF Spec
=============================================================================
