-------------------------- MODULE FlightController --------------------------
(***************************************************************************)
(* The firmware of a drone: begin and loop of                              *)
(* src/firmware/common/src/FlightController.cpp.  loop() is called again   *)
(* and again; a pass is made when the loop interval has gone by, and it    *)
(* begins with the proximity reading, for which it may have to wait.       *)
(*                                                                         *)
(* micros() is a counter that wraps.  Beside it the model keeps the true   *)
(* time that has gone by since certain events, to say what the counter     *)
(* should tell.  What the stabilisation computes is left out: after a      *)
(* clear reading the motors are driven in some way.                        *)
(***************************************************************************)
EXTENDS Integers

CONSTANTS
    ClockSize,     \* values of the counter: 2^32
    LoopInterval,  \* LOOP_INTERVAL_US
    CallGap,       \* the most time between two calls of loop()
    ReadTime,      \* proximitySensor.setTimeout: a reading ends by then
    Staleness      \* how old a measurement may be when it is read

ASSUME ClockAssumption ==
    /\ LoopInterval \in Nat \ {0} /\ CallGap \in Nat
    /\ ReadTime \in Nat /\ Staleness \in Nat
    /\ ClockSize \in Nat /\ LoopInterval + CallGap + ReadTime < ClockSize

VARIABLES
    pc,         \* "idle", between two calls, or "reading"
    clock,      \* micros()
    last,       \* _lastLoopMicros
    motors,     \* "low": 1000 us to each of them; "driven"
    triggered,  \* _safetyTriggered
    near,       \* whether something is nearer than SAFETY_TRIGGER_M
    \* True times since: near has changed; the last pass began; the last
    \* call or the reading ended; the reading that the motors are driven on.
    changed, since, waited, cleared

vars == <<pc, clock, last, motors, triggered, near, changed, since, waited, cleared>>

(* begin() ends with the motors low and _lastLoopMicros = micros().        *)
Init ==
    /\ pc = "idle"
    /\ clock \in 0..(ClockSize - 1) /\ last = clock
    /\ motors = "low" /\ triggered = FALSE
    /\ near \in BOOLEAN
    /\ changed = 0 /\ since = 0 /\ waited = 0 /\ cleared = 0

(* A bug: the counter is taken for a number that only grows.               *)
PlainElapsed == clock - last

(* now - _lastLoopMicros in uint32_t.                                      *)
Elapsed == IF clock >= last THEN clock - last ELSE clock - last + ClockSize

-----------------------------------------------------------------------------
(* The world around the program.                                           *)

Tick ==
    /\ waited < (IF pc = "idle" THEN CallGap ELSE ReadTime)
    /\ clock' = IF clock + 1 = ClockSize THEN 0 ELSE clock + 1
    /\ changed' = IF changed > Staleness + ReadTime + CallGap + LoopInterval
                  THEN changed ELSE changed + 1
    /\ since' = since + 1 /\ waited' = waited + 1
    /\ cleared' = IF motors = "driven" THEN cleared + 1 ELSE cleared
    /\ UNCHANGED <<pc, last, motors, triggered, near>>

(* The other drone, or a wall, comes near or goes away.                    *)
Approach ==
    /\ near' = ~near /\ changed' = 0
    /\ UNCHANGED <<pc, clock, last, motors, triggered, since, waited, cleared>>

(* What the sensor may say: what is so, or was so a little while ago.      *)
Reads(tooNear) == near = tooNear \/ changed <= Staleness

-----------------------------------------------------------------------------
(* A call of loop() that comes too early returns at once.                  *)
CallEarly ==
    /\ pc = "idle" /\ Elapsed < LoopInterval
    /\ waited' = 0
    /\ UNCHANGED <<pc, clock, last, motors, triggered, near, changed, since, cleared>>

(* A bug: the pass is timed by adding up intervals in a wider integer.     *)
AddedInterval ==
    /\ pc = "idle" /\ Elapsed >= LoopInterval
    /\ last' = last + LoopInterval /\ since' = 0
    /\ pc' = "reading" /\ waited' = 0
    /\ UNCHANGED <<clock, motors, triggered, near, changed, cleared>>

(* A pass begins; the sensor is read before anything else.                 *)
BeginPass ==
    /\ pc = "idle" /\ Elapsed >= LoopInterval
    /\ last' = clock /\ since' = 0
    /\ pc' = "reading" /\ waited' = 0
    /\ UNCHANGED <<clock, motors, triggered, near, changed, cleared>>

(* triggerSafetyStop, and return: no stabilisation in this pass.           *)
Stop ==
    /\ motors' = "low" /\ triggered' = TRUE
    /\ cleared' = 0
    /\ pc' = "idle" /\ waited' = 0
    /\ UNCHANGED <<clock, last, near, changed, since>>

ReadNear == pc = "reading" /\ Reads(TRUE) /\ Stop

(* A bug: a reading that does not come leaves everything as it is.         *)
TimeoutIgnored ==
    /\ pc = "reading" /\ waited = ReadTime
    /\ pc' = "idle" /\ waited' = 0
    /\ UNCHANGED <<clock, last, motors, triggered, near, changed, since, cleared>>

(* readProximityMeters returns 0 when the sensor has timed out.            *)
ReadTimesOut == pc = "reading" /\ waited = ReadTime /\ Stop

(* Clear: stabilisation, and writeMotors.                                  *)
ReadClear ==
    /\ pc = "reading" /\ Reads(FALSE)
    /\ motors' = "driven" /\ triggered' = FALSE
    /\ cleared' = 0
    /\ pc' = "idle" /\ waited' = 0
    /\ UNCHANGED <<clock, last, near, changed, since>>

Next == Tick \/ Approach \/ CallEarly \/ BeginPass \/ ReadNear \/ ReadTimesOut \/ ReadClear

Spec == Init /\ [][Next]_vars
-----------------------------------------------------------------------------
(* Properties.                                                             *)

(* Every variable has its type, and no wait takes longer than it may.      *)
TypeOK ==
    /\ pc \in {"idle", "reading"}
    /\ clock \in 0..(ClockSize - 1) /\ last \in 0..(ClockSize - 1)
    /\ motors \in {"low", "driven"} /\ triggered \in BOOLEAN /\ near \in BOOLEAN
    /\ changed \in Nat /\ since \in Nat /\ cleared \in Nat
    /\ waited \in Nat /\ waited <= (IF pc = "idle" THEN CallGap ELSE ReadTime)

(* dt, from which the stabilisation integrates, is the true time since the *)
(* last pass, also in the pass in which the counter has wrapped.           *)
ElapsedIsTrueTime == Elapsed = since

(* The motors are driven on a fresh reading only: whatever becomes of the  *)
(* sensor, the last reading that was clear is never older than one loop    *)
(* interval, one call and one reading.                                     *)
DrivenOnFreshReading ==
    motors = "driven" => ~triggered /\ cleared <= LoopInterval + CallGap + ReadTime

(* "Triggered ONLY by the physical proximity sensor reading below 1m":     *)
(* when something has been too near for that time, and for as long as the  *)
(* sensor lags, the motors are low.                                        *)
StopsInTime ==
    near /\ changed > LoopInterval + CallGap + ReadTime + Staleness => motors = "low"
=============================================================================
