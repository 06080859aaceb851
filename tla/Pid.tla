-------------------------------- MODULE Pid --------------------------------
(***************************************************************************)
(* The controller behind every control loop (tpt-core/src/pid.rs), in whole *)
(* units, without the derivative's low-pass: no controller of the source    *)
(* sets derivative_filter_tau.                                              *)
(***************************************************************************)
EXTENDS Integers, FiniteSetsExt

CONSTANTS
  Kp, Ki, Kd,
  OutputMin, OutputMax,
  IntegralLimit,
  Errors, Measurements, Dts   \* what update() may be called with

VARIABLES
  integral,
  prevMeasurement,
  initialized,
  output,         \* what the last update returned
  lastError,      \* history: the error it was given, 0 after a reset
  moved           \* history: whether the measurement moved since the last reset

pidVars == <<integral, prevMeasurement, initialized, output, lastError, moved>>

Clamped(v, lo, hi) == Max({lo, Min({hi, v})})
Bounded(v) == Clamped(v, OutputMin, OutputMax)

PidInit ==
  /\ integral = 0 /\ prevMeasurement = 0 /\ initialized = FALSE
  /\ output = 0 /\ lastError = 0 /\ moved = FALSE

Mut_WouldWorsen(tentative, e) == (tentative = OutputMin /\ e > 0) \/ (tentative = OutputMax /\ e < 0)

(* The error drives the output further into the stop it is at. *)
WouldWorsen(tentative, e) == (tentative = OutputMax /\ e > 0) \/ (tentative = OutputMin /\ e < 0)

(* The new integral: integration waits while the output is at a stop.       *)
Integrated(e, d, dt) ==
  IF WouldWorsen(Bounded(Kp * e + integral + d), e) THEN integral
  ELSE Clamped(integral + Ki * e * dt, -IntegralLimit, IntegralLimit)

(* update(): without time only the proportional part answers and nothing is *)
(* remembered; the derivative is that of the measurement.                   *)
Update(e, m, dt) ==
  IF dt <= 0
  THEN /\ output' = Bounded(Kp * e)
       /\ lastError' = e
       /\ UNCHANGED <<integral, prevMeasurement, initialized, moved>>
  ELSE LET d == IF initialized THEN -((Kd * (m - prevMeasurement)) \div dt) ELSE 0
       IN  /\ integral' = Integrated(e, d, dt)
           /\ output' = Bounded(Kp * e + integral' + d)
           /\ prevMeasurement' = m
           /\ initialized' = TRUE
           /\ lastError' = e
           /\ moved' = (moved \/ d # 0)

Reset ==
  /\ integral' = 0 /\ prevMeasurement' = 0 /\ initialized' = FALSE
  /\ moved' = FALSE /\ lastError' = 0
  /\ UNCHANGED output

PidNext ==
  \/ \E e \in Errors, m \in Measurements, dt \in Dts : Update(e, m, dt)
  \/ Reset

-----------------------------------------------------------------------------
(* The hardest the derivative can push. *)
MaxPush == Kd * (Max(Measurements) - Min(Measurements))

(* However long the output was held at a stop, the integral has grown no    *)
(* further than what brings the output there against the derivative: as the *)
(* derivative never pushed, an output is at a stop only while the error     *)
(* points there.  (The gains: Ki dt is at most Kp for every dt, as it is    *)
(* for the gains and the 1 ms period of the attitude loops.)                *)
WindupIsShort ==
  /\ output \in OutputMin .. OutputMax
  /\ integral \in -IntegralLimit .. IntegralLimit
  /\ integral \in OutputMin - MaxPush .. OutputMax + MaxPush
  /\ ~moved /\ lastError < 0 => output < OutputMax
  /\ ~moved /\ lastError > 0 => output > OutputMin
=============================================================================
