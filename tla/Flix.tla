-------------------------------- MODULE Flix --------------------------------
(***************************************************************************)
(* The flix flight controller as modified for the drones: loop() of        *)
(* src/flix/flix.ino, a single thread that makes one pass after another:   *)
(* step (time.ino), control with its failsafe (control.ino, failsafe.ino,  *)
(* motors.ino), parseInput (cli.ino), processMavlink (mavlink.ino) and     *)
(* syncParameters (parameters.ino).                                        *)
(*                                                                         *)
(* The radio writes controls[] in one pass, and the next passes use it.    *)
(* There is no receiver: only MANUAL_CONTROL messages carry commands.  All *)
(* parameters behave as one.  Estimation, PIDs and mixing are left out:    *)
(* motors that are armed may turn or not.  Throttle is counted in the time *)
(* in which the failsafe would bring it to zero, DESCEND_TIME of it being  *)
(* full throttle: but nothing keeps a command between off and full.        *)
(*                                                                         *)
(* The clock is micros(), which wraps, in a float, which rounds: the more  *)
(* time has gone by, the coarser.                                          *)
(***************************************************************************)
EXTENDS Integers

CONSTANTS
    ClockSize,     \* after how long micros() wraps
    Rounded(_),    \* the float nearest to a time
    Resolution,    \* how far that is from it, at most
    MaxUptime,     \* how long the board stays powered, at most
    SetupTime,     \* the longest that setup() takes
    MaxStep,       \* the longest pass without a blocking command
    BlockTime,     \* the longest blocking command: motor test, calibration
    LossTimeout,   \* RC_LOSS_TIMEOUT
    Commands,      \* the throttle that MANUAL_CONTROL may carry
    MaxThrottle,   \* ... at most
    ArmThrottle,   \* throttle below which the motors are not armed
    Second,        \* how often parameters are saved
    Values,        \* of a parameter
    Default,       \* its value in the source
    Measured       \* whether setup() measures it: a bias of the gyroscope

ASSUME FlixAssumption ==
    /\ ClockSize \in Nat \ {0} /\ MaxUptime \in Nat
    /\ SetupTime \in 0..MaxUptime
    /\ MaxStep \in Nat /\ BlockTime \in Nat
    /\ LossTimeout \in Nat /\ MaxThrottle \in Nat
    /\ Commands \subseteq Int /\ \A z \in Commands : z <= MaxThrottle
    /\ ArmThrottle \in Nat \ {0} /\ Second \in Nat \ {0}
    /\ Default \in Values /\ Measured \in BOOLEAN

ClockTimes == 0..(ClockSize - 1)

(* Rounding is to within the resolution, and it keeps the order of times.  *)
ASSUME RoundingAssumption ==
    /\ Resolution \in Nat
    /\ \A time \in ClockTimes :
           /\ Rounded(time) \in Nat
           /\ Rounded(time) <= time + Resolution /\ time <= Rounded(time) + Resolution
    /\ \A time, later \in ClockTimes : time <= later => Rounded(time) <= Rounded(later)

VARIABLES
    pc,            \* the part of loop() that is next, or a motor's test
    uptime,        \* the true time since the power came on
    t, dt,         \* time of this pass; since the pass before
    controlsTime,  \* t when controls[] was last written by the radio
    throttle,      \* controls[RC_CHANNEL_THROTTLE]
    switch,        \* whether controls[RC_CHANNEL_ARMED] says armed
    armed,
    active,        \* motorsActive(), but for a motor under test
    lastSync,      \* of syncParameters
    param,         \* the variable of the parameter
    cache,         \* parameter.value
    flash,         \* the storage
    heard,         \* the true time of the last MANUAL_CONTROL
    calm           \* ... at which last a motor was active or all was saved

radioVars == <<controlsTime, throttle, switch, heard>>
paramVars == <<param, cache, flash>>
vars == <<pc, uptime, t, dt, radioVars, armed, active, lastSync, paramVars, calm>>

Unset == "unset"        \* a key that is not in the storage
NoTime == -1            \* NAN, before the first step

(* A bug: a parameter that was never stored is not given its default.      *)
LoadedAsIs(stored) == stored

(* setupParameters: what is not in the storage gets there.                 *)
Loaded(stored) == IF stored = Unset THEN Default ELSE stored

(* calibrateGyro in setupIMU: whatever was loaded is measured anew.        *)
MayBeMeasured(loaded) == IF Measured THEN Values ELSE {loaded}

(* setup() after power-on or ESP.restart(): the storage is what it was.    *)
Setup(stored) ==
    /\ pc' = "step" /\ uptime' \in 0..SetupTime /\ t' = NoTime /\ dt' = 0
    /\ controlsTime' = 0 /\ throttle' = 0 /\ switch' = FALSE
    /\ armed' = FALSE /\ active' = FALSE /\ lastSync' = 0
    /\ flash' = Loaded(stored) /\ cache' = flash'
    /\ param' \in MayBeMeasured(flash')
    /\ heard' = 0 /\ calm' = uptime'

Init ==
    /\ pc = "step" /\ uptime \in 0..SetupTime /\ t = NoTime /\ dt = 0
    /\ controlsTime = 0 /\ throttle = 0 /\ switch = FALSE
    /\ armed = FALSE /\ active = FALSE /\ lastSync = 0
    /\ flash \in Values /\ cache = flash
    /\ param \in MayBeMeasured(flash)
    /\ heard = 0 /\ calm = uptime

(* The true time at which last a motor was active or all was saved.        *)
Calm == calm' = IF active' \/ param' = flash' THEN uptime' ELSE calm

(* True time goes by.                                                      *)
Pass(most) == \E d \in 0..most : uptime + d <= MaxUptime /\ uptime' = uptime + d

-----------------------------------------------------------------------------
Step ==
    /\ pc = "step"
    /\ Pass(MaxStep)
    /\ t' = Rounded(uptime' % ClockSize)
    /\ dt' = IF t # NoTime /\ t' > t THEN t' - t ELSE 0
    /\ pc' = "control"
    /\ UNCHANGED <<radioVars, armed, active, lastSync, paramVars>>

(* A bug: the loss is seen in the first pass after it only.                *)
LostOnce == t - controlsTime > LossTimeout /\ t - dt - controlsTime <= LossTimeout

(* failsafe: has the radio been silent for too long?                       *)
Lost == t - controlsTime > LossTimeout

(* descend: what is left of the throttle, and none of one below zero.      *)
Descended == IF throttle > dt THEN throttle - dt ELSE 0

(* interpretRC, failsafe, controlTorque; sendMotors.  What is armed was    *)
(* decided before the failsafe lowers the throttle.                        *)
Control ==
    /\ pc = "control"
    /\ armed' = (throttle >= ArmThrottle /\ switch)
    /\ throttle' = IF Lost THEN Descended ELSE throttle
    /\ active' \in IF armed' THEN BOOLEAN ELSE {FALSE}
    /\ pc' = "input"
    /\ UNCHANGED <<uptime, t, dt, controlsTime, switch, heard, lastSync, paramVars>>

-----------------------------------------------------------------------------
(* A bug: the cache is taken along, so that nothing is left to be saved.   *)
SetAndCache(v) == param' = v /\ cache' = v /\ UNCHANGED flash

SetParameter(v) == param' = v /\ UNCHANGED <<cache, flash>>

(* parseInput: the lines that have come in, one after another.             *)
NoMoreInput ==
    /\ pc = "input" /\ pc' = "mavlink"
    /\ UNCHANGED <<uptime, t, dt, radioVars, armed, active, lastSync, paramVars>>

CommandSet ==
    /\ pc = "input"
    /\ \E v \in Values : SetParameter(v)
    /\ UNCHANGED <<pc, uptime, t, dt, radioVars, armed, active, lastSync>>

(* cliTestMotor: one motor turns at full, whatever is armed or lost,       *)
CommandTest ==
    /\ pc = "input" /\ pc' = "test"
    /\ UNCHANGED <<uptime, t, dt, radioVars, armed, active, lastSync, paramVars>>

(* ... while the loop waits; then it is off, and the others are as before. *)
TestEnds ==
    /\ pc = "test" /\ pc' = "input"
    /\ Pass(BlockTime)
    /\ active' \in {active, FALSE}
    /\ UNCHANGED <<t, dt, radioVars, armed, lastSync, paramVars>>

(* calibrateGyro and calibrateAccel block, and set parameters.             *)
CommandCalibrate ==
    /\ pc = "input"
    /\ Pass(BlockTime)
    /\ \E v \in Values : SetParameter(v)
    /\ UNCHANGED <<pc, t, dt, radioVars, armed, active, lastSync>>

(* resetParameters: the storage is cleared and the board restarts.         *)
CommandReset == pc = "input" /\ Setup(Unset)

-----------------------------------------------------------------------------
(* handleMavlink, MANUAL_CONTROL: throttle, and armed whatever it says.    *)
ManualControl(z) ==
    /\ throttle' = z /\ switch' = TRUE
    /\ controlsTime' = t
    /\ heard' = uptime

(* processMavlink: a packet may hold a command, a PARAM_SET, both or none. *)
(* A PARAM_SET for a name that is unknown changes nothing.                 *)
ProcessMavlink ==
    /\ pc = "mavlink"
    /\ UNCHANGED radioVars \/ \E z \in Commands : ManualControl(z)
    /\ UNCHANGED paramVars \/ \E v \in Values : SetParameter(v)
    /\ pc' = "sync"
    /\ UNCHANGED <<uptime, t, dt, armed, active, lastSync>>

-----------------------------------------------------------------------------
(* Not before a second has gone by, and not while a motor turns.           *)
SyncDue == t - lastSync >= Second /\ ~active

SyncParameters ==
    /\ pc = "sync"
    /\ IF SyncDue
       THEN /\ lastSync' = t
            /\ flash' = (IF cache = param THEN flash ELSE param)
            /\ cache' = param
       ELSE UNCHANGED <<lastSync, flash, cache>>
    /\ pc' = "step"
    /\ UNCHANGED <<uptime, t, dt, radioVars, armed, active, param>>

(* The power fails, or the command reboot is given.                        *)
Restart == Setup(flash)

Next ==
    \/ /\ \/ Step \/ Control
          \/ NoMoreInput \/ CommandSet \/ CommandTest \/ TestEnds \/ CommandCalibrate
          \/ ProcessMavlink \/ SyncParameters
       /\ Calm
    \/ CommandReset \/ Restart

Spec == Init /\ [][Next]_vars
-----------------------------------------------------------------------------
(* Properties.                                                             *)

(* Every variable has its type.  The throttle is never above what can be   *)
(* commanded, and the storage holds a value, also after it was cleared.    *)
TypeOK ==
    /\ pc \in {"step", "control", "input", "test", "mavlink", "sync"}
    /\ uptime \in 0..MaxUptime
    /\ t \in Nat \cup {NoTime} /\ t < ClockSize + Resolution /\ dt \in Nat
    /\ controlsTime \in Nat /\ lastSync \in Nat
    /\ throttle \in Int /\ throttle <= MaxThrottle
    /\ switch \in BOOLEAN /\ armed \in BOOLEAN /\ active \in BOOLEAN
    /\ param \in Values /\ cache \in Values /\ flash \in Values
    /\ heard \in Nat /\ calm \in Nat

(* "Fail-safe for RC loss": once the radio is silent, the motors are       *)
(* active no longer than the timeout and the descent, from the highest     *)
(* command to the throttle that disarms them, take, give or take one pass  *)
(* and the rounding of two times, however long the passes are and whatever *)
(* was commanded before.  It goes down as well where the clock is coarser  *)
(* than a pass is long, and most passes last no time at all by it.  The    *)
(* failsafe knows nothing of a motor's test, which is not meant here.      *)
SilenceStopsMotors ==
    [][pc = "control" /\ active' =>
          uptime - heard + ArmThrottle
              <= LossTimeout + MaxThrottle + dt + 2 * Resolution]_vars

(* At the end of a pass, a parameter that is not in the storage has been   *)
(* changed or flown with less than a second ago: one who waits for that    *)
(* long with the motors off finds it in the storage after a restart, and   *)
(* in the variable too unless it is measured anew.  The second is one of   *)
(* the clock, which may have been ahead when it began.                     *)
SavesInTime ==
    pc = "step" /\ param # flash => t - calm < Second + Resolution
=============================================================================
