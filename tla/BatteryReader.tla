--------------------------- MODULE BatteryReader ----------------------------
(***************************************************************************)
(* The battery sensor and everybody who decides by it: Ina226BatteryReader *)
(* (platform/firmware/battery_reader.cpp), the low and critical battery    *)
(* monitors on the clock's timer task, the OTA gate on an HTTP worker and  *)
(* the status bar on the UI thread.  No signal of the board says that a    *)
(* pack is installed: IsBatteryPresent() infers it from the current and,   *)
(* without one, from how far the voltage moved since the last such sample, *)
(* which all callers share.  Cable and pack change at any moment, and      *)
(* every read over I2C may fail.  Voltages are in hundredths of a volt.    *)
(***************************************************************************)
EXTENDS Integers

CONSTANTS PackVolts,       \* voltages a pack may have
          RailVolts,       \* readings of the charger's output with no pack
          CallerSets,      \* the callers that may meet in a behaviour
          MaxChanges,      \* bound: changes of cable, pack and charge
          MaxFaults        \* bound: failing reads

kMinVoltage == 640
kMaxVoltage == 840
kVoltageStabilityThreshold == 50
kThresholdPercent == 15           \* LowBatteryMonitor
kCriticalThresholdPercent == 5    \* CriticalBatteryMonitor
kMinBatteryPercent == 30          \* EvaluateOtaGate()

ASSUME BatteryAssumption ==
    /\ PackVolts \subseteq kMinVoltage..kMaxVoltage /\ kMaxVoltage \in PackVolts
    /\ RailVolts \subseteq Nat \ {0}
    /\ CallerSets \subseteq SUBSET {"timer", "worker", "ui"}
    /\ MaxChanges \in Nat /\ MaxFaults \in Nat

VARIABLES supply,          \* what powers the device
          volts,           \* the voltage of the pack, when there is one
          last_voltage,    \* last_voltage_volts_, 0 for ~has_last_voltage_
          holder,          \* the caller inside IsBatteryPresent()'s lock
          call,            \* where each caller is, and what it has read
          low_bad, critical_bad,   \* already_bad_ of the two monitors
          gate_open,       \* the last answer of EvaluateOtaGate()
          label,           \* what the status bar shows of the battery
          misses,          \* "no battery" verdicts in a row about a resting pack
          changes_left, faults_left

battery_vars == <<supply, volts, last_voltage, holder, call, low_bad, critical_bad,
                  gate_open, label, misses, changes_left, faults_left>>

physical == <<supply, volts, changes_left>>
outcomes == <<low_bad, critical_bad, gate_open, label>>

Callers == DOMAIN call

\* excused: for the properties, what the caller finds need not be true: a
\* read of it failed or, for the gate, an update was safe at some moment
\* since it began, or, for the others, something changed since.
NoCall == [job |-> "none", step |-> "idle", present |-> FALSE, full |-> FALSE,
           excused |-> FALSE]

Installed == supply # "no_pack"
CurrentFlows == supply \in {"discharging", "charging"}

\* The voltage the sensor may report.
BusVolts == IF Installed THEN {volts} ELSE RailVolts

\* fraction * 100 + 0.5, cut off, for a fraction clamped to 0..1
PercentOf(v) ==
    IF v <= kMinVoltage THEN 0
    ELSE IF v >= kMaxVoltage THEN 100 ELSE (v - kMinVoltage + 1) \div 2

\* What makes an update safe: external power, or enough charge.
Safe(s, v) == s # "discharging" \/ PercentOf(v) >= kMinBatteryPercent

Distance(a, b) == IF a < b THEN b - a ELSE a - b
Stable(v) == last_voltage # 0 /\ Distance(v, last_voltage) < kVoltageStabilityThreshold

-----------------------------------------------------------------------------
\* The world: cable, pack and charge, also in the middle of a decision.
Change(s, v) ==
    /\ changes_left > 0 /\ changes_left' = changes_left - 1
    /\ supply' = s /\ volts' = v
    /\ call' = [t \in Callers |->
                 IF call[t] = NoCall THEN NoCall
                 ELSE [call[t] EXCEPT !.excused = @ \/ call[t].job # "gate" \/ Safe(s, v)]]
    /\ misses' = 0
    /\ UNCHANGED <<last_voltage, holder, outcomes, faults_left>>

Drains == supply = "discharging" /\ \E v \in PackVolts : v < volts /\ Change(supply, v)
Charges == supply = "charging" /\ \E v \in PackVolts : v > volts /\ Change(supply, v)
ChargeEnds == supply = "charging" /\ Change("full", kMaxVoltage)
PlugCable == supply = "discharging" /\ Change("charging", volts)
UnplugCable == supply \in {"charging", "full"} /\ Change("discharging", volts)
RemovePack == supply \in {"charging", "full"} /\ Change("no_pack", volts)
InsertPack == supply = "no_pack" /\ \E v \in PackVolts : Change("charging", v)

-----------------------------------------------------------------------------
\* A caller begins: a clock tick, a request, a refresh of the status bar.
Begin(t, job, step) ==
    /\ t \in Callers /\ call[t] = NoCall
    /\ call' = [call EXCEPT ![t] = [NoCall EXCEPT !.job = job, !.step = step,
                                 !.excused = job = "gate" /\ Safe(supply, volts)]]
    /\ gate_open' = (gate_open /\ job # "gate")
    /\ UNCHANGED <<physical, last_voltage, holder, low_bad, critical_bad, label, misses,
                   faults_left>>

ClockTick == Begin("timer", "low", "present")
EvaluateOtaGate == Begin("worker", "gate", "percent")
RefreshStatusLabel == Begin("ui", "bar", "present")

\* t returns with its outcome; after the low battery monitor the tick goes
\* on to the critical one.
Finish(t, job) ==
    call' = [call EXCEPT ![t] =
               IF job # "low" THEN NoCall
               ELSE [NoCall EXCEPT !.job = "critical", !.step = "present"]]

\* Mutant of Latched: an absent battery leaves the latch as it is.
LatchedUnlessAbsent(c, bad) ==
    /\ low_bad' = IF c.job = "low" /\ c.present THEN bad ELSE low_bad
    /\ critical_bad' = IF c.job = "critical" /\ c.present THEN bad ELSE critical_bad

\* LatchedThresholdMonitor: the latch follows is_bad, and an absent battery
\* is never bad.
Latched(c, bad) ==
    /\ low_bad' = IF c.job = "low" THEN bad ELSE low_bad
    /\ critical_bad' = IF c.job = "critical" THEN bad ELSE critical_bad

\* What t, which is at c, makes of its readings.
Decide(t, c, bad, open, text) ==
    /\ Latched(c, bad)
    /\ gate_open' = IF c.job = "gate" THEN open ELSE gate_open
    /\ label' = IF c.job = "bar" THEN text ELSE label
    /\ Finish(t, c.job)

Goes(t, c, step) ==
    call' = [call EXCEPT ![t] = [c EXCEPT !.step = step]] /\ UNCHANGED outcomes

\* IsExternalPowerConnected() has returned e.
External(t, c, e) ==
    Decide(t, c, ~e, e, IF e /\ ~c.full THEN "charging" ELSE "level")

\* IsBatteryPresent() has returned p, to the caller or to
\* IsExternalPowerConnected().
Present(t, c, p) ==
    IF c.step \in {"ext", "ext_voltage"} THEN External(t, c, ~p)
    ELSE IF p \/ c.job = "bar" THEN Goes(t, [c EXCEPT !.present = p], "percent")
    ELSE Decide(t, c, FALSE, FALSE, "usb")

\* A read succeeds or fails, and what the caller knows of it.
Read(ok) == /\ ok \/ faults_left > 0
            /\ faults_left' = IF ok THEN faults_left ELSE faults_left - 1
After(t, ok) == [call[t] EXCEPT !.excused = @ \/ ~ok]

\* A current at or above the threshold tells that a pack is installed.
CurrentTells == CurrentFlows

\* IsBatteryPresent(): under its lock, first the current.
ReadCurrent(t) ==
    /\ call[t].step \in {"present", "ext"} /\ holder = "nobody"
    /\ \E ok \in BOOLEAN :
         /\ Read(ok)
         /\ \/ /\ ~ok \/ CurrentTells
               /\ Present(t, After(t, ok), ok)
               /\ misses' = IF ok THEN 0 ELSE misses
               /\ UNCHANGED holder
            \/ /\ ok /\ ~CurrentTells
               /\ Goes(t, call[t], IF call[t].step = "ext" THEN "ext_voltage" ELSE "voltage")
               /\ holder' = t
               /\ UNCHANGED misses
    /\ UNCHANGED <<physical, last_voltage>>

\* The sample the next ambiguous reading is compared with.
Remember(v) == v

\* The lock_guard's end.
Released(t, ok) == "nobody"

\* ... and if no current flows, whether the voltage moved.
ReadVoltage(t) ==
    /\ call[t].step \in {"voltage", "ext_voltage"}
    /\ \E ok \in BOOLEAN, v \in BusVolts :
         /\ Read(ok)
         /\ Present(t, After(t, ok), ok /\ Stable(v))
         /\ last_voltage' = IF ok THEN Remember(v) ELSE last_voltage
         /\ misses' = IF ~ok THEN misses
                      ELSE IF Installed /\ ~Stable(v) THEN misses + 1 ELSE 0
         /\ holder' = Released(t, ok)
    /\ UNCHANGED physical

\* Whether the caller, at c, goes on to IsExternalPowerConnected().
AsksForPower(c, percent) ==
    \/ c.job = "critical" /\ percent < kCriticalThresholdPercent
    \/ c.job = "gate" /\ percent < kMinBatteryPercent
    \/ c.job = "bar" /\ c.present

\* ReadPercent() without a reading: "report empty".
FallbackPercent == 0

\* ReadPercent(), without the lock.
ReadPercent(t) ==
    /\ call[t].step = "percent"
    /\ \E ok \in BOOLEAN, v \in BusVolts :
         LET percent == IF ok THEN PercentOf(v) ELSE FallbackPercent
             c == [After(t, ok) EXCEPT !.full = percent = 100]
         IN  /\ Read(ok)
             /\ IF AsksForPower(c, percent) THEN Goes(t, c, "pin")
                ELSE Decide(t, c, c.job = "low" /\ percent < kThresholdPercent, TRUE, "usb")
    /\ UNCHANGED <<physical, last_voltage, holder, misses>>

\* IsExternalPowerConnected(): the charge status pin is high only while the
\* charger drives current; if not, power is external if no pack is there.
ReadPin(t) ==
    /\ call[t].step = "pin"
    /\ \E ok \in BOOLEAN :
         /\ Read(ok)
         /\ IF ok /\ supply = "charging" THEN External(t, After(t, ok), TRUE)
            ELSE Goes(t, After(t, ok), "ext")
    /\ UNCHANGED <<physical, last_voltage, holder, misses>>

\* The device has just booted, on whatever powers it.
BatteryInit ==
    /\ supply \in {"discharging", "charging", "full", "no_pack"}
    /\ volts \in PackVolts /\ (supply \in {"full", "no_pack"} => volts = kMaxVoltage)
    /\ last_voltage = 0 /\ holder = "nobody"
    /\ call \in {[t \in S |-> NoCall] : S \in CallerSets}
    /\ low_bad = FALSE /\ critical_bad = FALSE /\ gate_open = FALSE /\ label = "level"
    /\ misses = 0 /\ changes_left = MaxChanges /\ faults_left = MaxFaults

BatteryNext ==
    \/ Drains \/ Charges \/ ChargeEnds \/ PlugCable \/ UnplugCable
    \/ RemovePack \/ InsertPack
    \/ ClockTick \/ EvaluateOtaGate \/ RefreshStatusLabel
    \/ \E t \in Callers : ReadCurrent(t) \/ ReadVoltage(t) \/ ReadPercent(t) \/ ReadPin(t)

BatterySpec == BatteryInit /\ [][BatteryNext]_battery_vars

-----------------------------------------------------------------------------
(***************************************************************************)
(* Properties.                                                             *)
(***************************************************************************)
BatteryTypeOK ==
    /\ supply \in {"discharging", "charging", "full", "no_pack"} /\ volts \in PackVolts
    /\ last_voltage \in PackVolts \cup RailVolts \cup {0}
    /\ holder \in Callers \cup {"nobody"}
    /\ \A t \in Callers : (call[t].step \in {"voltage", "ext_voltage"}) <=> (holder = t)
    /\ low_bad \in BOOLEAN /\ critical_bad \in BOOLEAN /\ gate_open \in BOOLEAN
    /\ label \in {"usb", "charging", "level"} /\ misses \in Nat

\* A pack that rests, full and with no current, is taken for missing at most
\* once in a row, whoever sampled the voltage before and however long ago:
\* IsBatteryPresent() compares with the last sample of any caller.
PackSeenAgain == misses <= 1

\* t ends job in this step, without an excuse for what it found.
Ends(t, job) ==
    /\ t \in Callers
    /\ call[t].job = job /\ call'[t].job # job
    /\ ~call[t].excused /\ faults_left' = faults_left

\* EvaluateOtaGate() opens only if at some moment of the evaluation the
\* update was safe, unless the sensor could not be read: the first missing
\* voltage sample after boot, or one left by another caller, opens nothing.
GateJustified == Ends("worker", "gate") => ~gate_open'

\* A tick leaves both latches true to an installed pack: low by its charge,
\* critical by its charge and the charger, also when the pack was exchanged
\* or taken for missing before.
LatchesTrue ==
    Installed => /\ Ends("timer", "low") => (low_bad' <=> PercentOf(volts) < kThresholdPercent)
                 /\ Ends("timer", "critical")
                      => (critical_bad' <=> /\ supply = "discharging"
                                            /\ PercentOf(volts) < kCriticalThresholdPercent)

\* While current flows through an installed pack, the status bar shows the
\* charge symbol if the pack charges below 100 % and its level otherwise.
\* Nothing is said of the bar where no current flows: with no pack installed
\* two close samples of the open rail make it show the charge symbol, which
\* status_bar.cpp:48-55 means to avoid.
LabelTrue ==
    Ends("ui", "bar") /\ CurrentFlows
    => label' = IF supply = "charging" /\ PercentOf(volts) < 100 THEN "charging" ELSE "level"

\* The tick, the OTA gate and the status bar sample one sensor, each several
\* times, while packs and cables come and go: what the gate concludes of the
\* charge was true at some moment, the latches and the bar tell the truth of
\* an installed pack, and a resting pack is missed at most once in a row. That
\* a missing pack is not taken for an installed one is not claimed.
ReadingsTrue ==
    [][BatteryTypeOK' /\ PackSeenAgain' /\ GateJustified /\ LatchesTrue /\ LabelTrue
      ]_battery_vars
=============================================================================
