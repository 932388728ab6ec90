--------------------------------- MODULE PWM ---------------------------------
(***************************************************************************)
(* The pulse width modulator, class efs::drivers::pwm::PWMController       *)
(* (src/src/drivers/pwm/pwm_controller.cpp).  Its timer is one of Timer's, *)
(* attached to no clock, scheduler or interrupt controller, so no event is *)
(* ever scheduled for it.                                                  *)
(***************************************************************************)
EXTENDS Timer

CONSTANT SystemClockHz

ENABLED_BIT == "ENABLED"
OUTPUT_BIT == "OUTPUT"

PwmState(freqs, duties) ==
  [enabled : BOOLEAN, freq : freqs, freq0 : freqs, duty : duties,
   duty0 : duties, status : SUBSET {ENABLED_BIT, OUTPUT_BIT},
   period : 1 .. SystemClockHz, on : 0 .. SystemClockHz, tm : TimerState]

\* The operators of Timer want a scheduler to go with the timer.
Unattached(tm) == [timer |-> tm, sched |-> NewEventScheduler]

OutputState(p) ==
  /\ p.enabled
  /\ p.duty # 0
  /\ p.duty = 100 \/ p.tm.count % p.period < p.on

StatusOf(p) == (IF p.enabled THEN {ENABLED_BIT} ELSE {})
                 \cup (IF OutputState(p) THEN {OUTPUT_BIT} ELSE {})

UpdateStatusRegister(p) == [p EXCEPT !.status = StatusOf(p)]

PeriodOf(freq) == SystemClockHz \div freq
OnTicksOf(freq, duty) == (PeriodOf(freq) * duty) \div 100

\* Mutant: a running generator keeps the old period.
UpdatePeriodOnly(p) ==
  [p EXCEPT !.period = PeriodOf(p.freq), !.on = OnTicksOf(p.freq, p.duty)]

\* The frequency is neither 0 nor above the clock here, so a period is never 0.
UpdatePeriodAndDuty(p) ==
  [p EXCEPT !.period = PeriodOf(p.freq), !.on = OnTicksOf(p.freq, p.duty),
            !.tm = IF p.enabled
                   THEN SetCompare(Unattached(@), 0, 0, PeriodOf(p.freq)).timer
                   ELSE @]

NewPWM(freq, duty) ==
  [enabled |-> FALSE, freq |-> freq, freq0 |-> freq, duty |-> duty,
   duty0 |-> duty, status |-> {}, period |-> PeriodOf(freq),
   on |-> OnTicksOf(freq, duty), tm |-> NewTimer]

Enable(p) ==
  LET armed == SetCompare(Unattached([p.tm EXCEPT !.ctrl = @ \cup {AUTO_RESET}]), 0, 0, p.period)
  IN UpdateStatusRegister([p EXCEPT !.enabled = TRUE, !.tm = TimerStart(armed, 0, 0).timer])

Disable(p) ==
  UpdateStatusRegister([p EXCEPT !.enabled = FALSE, !.tm = TimerStop(Unattached(@)).timer])

SetFrequency(p, freq) ==
  IF freq = 0 \/ freq > SystemClockHz THEN p
  ELSE UpdateStatusRegister(UpdatePeriodAndDuty([p EXCEPT !.freq = freq]))

SetDutyCycle(p, duty) ==
  IF duty > 100 THEN p
  ELSE UpdateStatusRegister(UpdatePeriodAndDuty([p EXCEPT !.duty = duty]))

\* tick(): a timer that its own match has stopped is started again, from the
\* count it stopped at.
Tick(p) ==
  LET started == IF TimerRunning(p.tm) THEN p.tm ELSE TimerStart(Unattached(p.tm), 0, 0).timer
  IN UpdateStatusRegister(
       IF p.enabled THEN [p EXCEPT !.tm = TimerTick(Unattached(started), 0).timer] ELSE p)

\* reset(): COMPARE keeps the last period.
Reset(p) ==
  LET off == Disable(p)
  IN UpdateStatusRegister(UpdatePeriodAndDuty(
       [off EXCEPT !.freq = p.freq0, !.duty = p.duty0,
                   !.tm = TimerReset(Unattached(@), 0).timer]))
=============================================================================
