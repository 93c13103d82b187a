----------------------- MODULE FlightController_proofs -----------------------
(***************************************************************************)
(* For every width of the counter and all delays that fit in it: the time  *)
(* the firmware goes by is the true time, and the motors stop in time.     *)
(*                                                                         *)
(* The argument: a pass begins no later than one call after the loop       *)
(* interval is over.  So the counter cannot run through all its values     *)
(* between two passes, unsigned subtraction gives the true time, and each  *)
(* pass that follows a clear reading renews it or stops the motors.        *)
(***************************************************************************)
EXTENDS FlightController, TLAPS

(* The types of the two flags, and of everything else.                     *)
Flags == triggered \in BOOLEAN /\ near \in BOOLEAN

Rest ==
    /\ pc \in {"idle", "reading"}
    /\ clock \in 0..(ClockSize - 1) /\ last \in 0..(ClockSize - 1)
    /\ motors \in {"low", "driven"}
    /\ changed \in Nat /\ since \in Nat /\ cleared \in Nat
    /\ waited \in Nat /\ waited <= (IF pc = "idle" THEN CallGap ELSE ReadTime)

LEMMA TypeParts == TypeOK <=> Flags /\ Rest
  BY DEF TypeOK, Flags, Rest

(* How the true times go together: a pass is due within one call.          *)
PassIsDue ==
    /\ pc = "idle" => since <= waited + LoopInterval + ReadTime
    /\ pc = "reading" => since = waited

(* The reading that the motors are driven on, and what was near by then.   *)
ClearedBy ==
    motors = "driven" =>
        /\ ~triggered
        /\ pc = "idle" => cleared <= waited + LoopInterval /\ cleared <= since
        /\ pc = "reading" => cleared <= waited + CallGap + LoopInterval
        /\ near => changed <= cleared + Staleness

FirmwareInv == Flags /\ Rest /\ ElapsedIsTrueTime /\ PassIsDue /\ ClearedBy

LEMMA InitFirmwareInv == Init => FirmwareInv
<1> SUFFICES ASSUME Init PROVE FirmwareInv
  OBVIOUS
<1> USE ClockAssumption DEF Init
<1>1. Flags /\ ~triggered
  BY DEF Flags
<1>2. Rest /\ ElapsedIsTrueTime /\ PassIsDue
  BY DEF Rest, ElapsedIsTrueTime, Elapsed, PassIsDue
<1>3. ClearedBy
  BY DEF ClearedBy
<1> QED
  BY <1>1, <1>2, <1>3 DEF FirmwareInv

LEMMA FirmwareStep == FirmwareInv /\ [Next]_vars => FirmwareInv'
<1> SUFFICES ASSUME FirmwareInv, [Next]_vars PROVE FirmwareInv'
  OBVIOUS
<1>0. Flags /\ Rest /\ ElapsedIsTrueTime /\ PassIsDue /\ ClearedBy
  BY DEF FirmwareInv
<1> USE ClockAssumption
<1>1. CASE Tick
  <2>1. Flags'
    BY <1>0, <1>1 DEF Tick, Flags
  <2>2. since + 1 < ClockSize
    BY <1>0, <1>1 DEF Tick, Rest, PassIsDue
  <2>3. Rest'
    BY <1>0, <1>1 DEF Tick, Rest
  <2>4. ElapsedIsTrueTime'
    BY <1>0, <1>1, <2>2 DEF Tick, Rest, ElapsedIsTrueTime, Elapsed
  <2>5. PassIsDue' /\ ClearedBy'
    BY <1>0, <1>1 DEF Tick, Rest, PassIsDue, ClearedBy
  <2> QED
    BY <2>1, <2>3, <2>4, <2>5 DEF FirmwareInv
<1>2. CASE Approach
  <2>1. Flags'
    BY <1>0, <1>2 DEF Approach, Flags
  <2>2. Rest' /\ ElapsedIsTrueTime' /\ PassIsDue' /\ ClearedBy'
    BY <1>0, <1>2 DEF Approach, Rest, ElapsedIsTrueTime, Elapsed, PassIsDue, ClearedBy
  <2> QED
    BY <2>1, <2>2 DEF FirmwareInv
<1>3. CASE CallEarly
  <2>1. Flags'
    BY <1>0, <1>3 DEF CallEarly, Flags
  <2>2. Rest' /\ ElapsedIsTrueTime' /\ PassIsDue' /\ ClearedBy'
    BY <1>0, <1>3 DEF CallEarly, Rest, ElapsedIsTrueTime, Elapsed, PassIsDue, ClearedBy
  <2> QED
    BY <2>1, <2>2 DEF FirmwareInv
<1>4. CASE BeginPass
  <2>1. Flags'
    BY <1>0, <1>4 DEF BeginPass, Flags
  <2>2. Rest' /\ ElapsedIsTrueTime' /\ PassIsDue' /\ ClearedBy'
    BY <1>0, <1>4 DEF BeginPass, Rest, ElapsedIsTrueTime, Elapsed, PassIsDue, ClearedBy
  <2> QED
    BY <2>1, <2>2 DEF FirmwareInv
<1>5. CASE Stop /\ pc = "reading"
  <2>1. Flags'
    BY <1>0, <1>5 DEF Stop, Flags
  <2>2. Rest' /\ ElapsedIsTrueTime' /\ PassIsDue'
    BY <1>0, <1>5 DEF Stop, Rest, ElapsedIsTrueTime, Elapsed, PassIsDue
  <2>3. ClearedBy'
    BY <1>5 DEF Stop, ClearedBy
  <2> QED
    BY <2>1, <2>2, <2>3 DEF FirmwareInv
<1>6. CASE ReadClear
  <2>1. Flags' /\ ~triggered'
    BY <1>0, <1>6 DEF ReadClear, Flags
  <2>2. Rest' /\ ElapsedIsTrueTime' /\ PassIsDue'
    BY <1>0, <1>6 DEF ReadClear, Rest, ElapsedIsTrueTime, Elapsed, PassIsDue
  <2>3. near => changed <= Staleness
    BY <1>0, <1>6 DEF ReadClear, Reads, Flags
  <2>4. ClearedBy'
    BY <1>0, <1>6, <2>1, <2>2, <2>3 DEF ReadClear, Rest, ClearedBy
  <2> QED
    BY <2>1, <2>2, <2>4 DEF FirmwareInv
<1>7. CASE UNCHANGED vars
  BY <1>0, <1>7 DEF vars, FirmwareInv, Flags, Rest, ElapsedIsTrueTime, Elapsed, PassIsDue,
                    ClearedBy
<1> QED
  BY <1>1, <1>2, <1>3, <1>4, <1>5, <1>6, <1>7 DEF Next, ReadNear, ReadTimesOut

LEMMA FirmwareInvAlways == Spec => []FirmwareInv
  BY InitFirmwareInv, FirmwareStep, PTL DEF Spec

(* Every variable keeps its type, and no call and no reading takes longer  *)
(* than it may.                                                            *)
THEOREM FirmwareTypeCorrect == Spec => []TypeOK
<1>1. FirmwareInv => TypeOK
  BY TypeParts DEF FirmwareInv
<1> QED
  BY <1>1, FirmwareInvAlways, PTL

(* The wrapping of micros() never shows in dt or in the loop interval.     *)
THEOREM ElapsedIsAlwaysTrue == Spec => []ElapsedIsTrueTime
<1>1. FirmwareInv => ElapsedIsTrueTime
  BY DEF FirmwareInv
<1> QED
  BY <1>1, FirmwareInvAlways, PTL

(* Motors are driven only while the last clear reading is fresh.           *)
THEOREM ReadingsAreFresh == Spec => []DrivenOnFreshReading
<1>1. FirmwareInv => DrivenOnFreshReading
  BY ClockAssumption DEF FirmwareInv, Rest, ClearedBy, DrivenOnFreshReading
<1> QED
  BY <1>1, FirmwareInvAlways, PTL

(* What has come near stops the motors within a bounded time, for every    *)
(* loop interval, delay of the calls, and lag and timeout of the sensor.   *)
THEOREM MotorsStopInTime == Spec => []StopsInTime
<1>1. FirmwareInv => StopsInTime
  BY ClockAssumption DEF FirmwareInv, Rest, ClearedBy, StopsInTime
<1> QED
  BY <1>1, FirmwareInvAlways, PTL
=============================================================================
