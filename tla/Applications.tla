---------------------------- MODULE Applications ----------------------------
(***************************************************************************)
(* The three firmware applications (src/src/firmware) on the peripherals   *)
(* they drive through the HAL: BasicFirmware and TimerBlinkFirmware share  *)
(* a pin, the latter has a timer, UARTEchoFirmware has a UART.  The CPU    *)
(* loads, starts, steps, stops and resets them, and the reset controller   *)
(* resets peripherals under them.                                          *)
(*                                                                         *)
(* Lifecycle has the manager's registry and calls that come from inside a  *)
(* step; its firmware functions return.  Here all three applications are   *)
(* registered, and their functions throw where the peripherals do.  GPIO   *)
(* and UART are on the system bus, the timer comes and goes.               *)
(***************************************************************************)
EXTENDS Timer, Sequences, SequencesExt

CONSTANTS
  Pin,          \* m_pin
  Compare,      \* m_compareValue of the blink firmware
  Interval,     \* m_toggleInterval of the basic firmware
  Bytes, FifoBound,
  MaxClock,     \* bound: the clock is stepped up to this cycle
  MaxEventId    \* bound: events are scheduled while m_nextId is at most this

ASSUME ApplicationAssumption ==
  /\ Pin \in 0 .. 31 /\ Interval \in Nat \ {0}
  /\ Compare \in Counts \ {0} /\ FifoBound \in Nat
  /\ MaxClock \in Nat /\ MaxEventId \in Nat

Gpio == INSTANCE GPIO
Uart == INSTANCE UART

VARIABLES
  sys,       \* the peripherals and the members of the applications
  active,    \* the firmware that the manager has selected
  running,   \* CPU::m_running
  clock,
  beat       \* history: update() calls and cycles since the blink firmware was
             \* initialized or last toggled, as long as nobody interfered

vars == <<sys, active, running, clock, beat>>

Firmwares == {"basic", "blink", "echo"}
FRESH == "fresh"
UP == "up"        \* m_initialized and not m_shutdown
SHUT == "shut"    \* both

Pair(m) == [timer |-> m.timer, sched |-> m.sched]
Put(m, p) == [m EXCEPT !.timer = p.timer, !.sched = p.sched]

-----------------------------------------------------------------------------
(***************************************************************************)
(* The calls of the HAL that the applications make.                        *)
(***************************************************************************)
TIMER == "timer"

HalStart(m, now) == Put(m, TimerStart(Pair(m), TIMER, now))
HalStop(m) == Put(m, TimerStop(Pair(m)))
HalReset(m, now) == Put(m, TimerReset(Pair(m), now))
HalSetCompare(m, now) == Put(m, SetCompare(Pair(m), TIMER, now, Compare))

HalWrite(m, high) == [m EXCEPT !.gpio = Gpio!WritePin(@, Pin, high)]
HalToggle(m) == [m EXCEPT !.gpio = Gpio!TogglePin(@, Pin)]
HalConfigureOutput(m) == [m EXCEPT !.gpio = Gpio!ConfigurePin(@, Pin, TRUE)]

\* write and toggle throw on a pin that is an input.
PinReady(m) == Gpio!IsOutputPin(m.gpio, Pin)

-----------------------------------------------------------------------------
(***************************************************************************)
(* initialize() and update() of each application.                          *)
(***************************************************************************)
BasicInitialize(m) ==
  [HalWrite(HalConfigureOutput(m), FALSE) EXCEPT !.flag["basic"] = UP, !.counter = 0]

\* Counts past the interval, which a toggle that throws leaves behind, are all
\* the same to update().
BasicUpdate(m) ==
  CASE m.counter + 1 < Interval -> [m EXCEPT !.counter = @ + 1]
    [] m.counter + 1 >= Interval /\ PinReady(m) -> [HalToggle(m) EXCEPT !.counter = 0]
    [] OTHER -> [m EXCEPT !.counter = Interval]

BlinkInitialize(m, now) ==
  LET pin == HalWrite(HalConfigureOutput(m), FALSE)
      set == HalSetCompare(HalReset(HalStop(pin), now), now)
  IN [HalStart(set, now) EXCEPT !.flag["blink"] = UP]

\* Mutant: only the match bit is looked at.
BlinkUpdateOnMatch(m, now) ==
  IF m.timer.match /\ PinReady(m)
  THEN HalStart(HalReset(HalToggle(m), now), now) ELSE m

\* The counter is polled beside the match bit, which is set by an event.
BlinkUpdate(m, now) ==
  IF (m.timer.match \/ m.timer.count >= Compare) /\ PinReady(m)
  THEN HalStart(HalReset(HalToggle(m), now), now) ELSE m

EchoInitialize(m) ==
  [m EXCEPT !.uart = Uart!Enable(Uart!SetBaudRate(@, 1)), !.flag["echo"] = UP]

\* The loop writes every byte it reads, until there are none.  hasData() does
\* not ask whether the port is enabled; readByte() does.
EchoUpdate(m) ==
  LET u == m.uart
  IN IF ~Uart!CanRead(u) THEN m
     ELSE [m EXCEPT !.uart = Uart!UpdateStatusRegister(
             [u EXCEPT !.tx = @ \o u.rx, !.rx = <<>>, !.data = Last(u.rx)])]

Initialize(m, f, now) == CASE f = "basic" -> BasicInitialize(m)
                           [] f = "blink" -> BlinkInitialize(m, now)
                           [] f = "echo" -> EchoInitialize(m)

Update(m, f, now) == CASE m.flag[f] # UP -> m
                       [] m.flag[f] = UP /\ f = "basic" -> BasicUpdate(m)
                       [] m.flag[f] = UP /\ f = "blink" -> BlinkUpdate(m, now)
                       [] m.flag[f] = UP /\ f = "echo" -> EchoUpdate(m)

(***************************************************************************)
(* shutdown() and reset().  If the pin has become an input, they throw:    *)
(* the timer is stopped, and the firmware still counts as up.              *)
(***************************************************************************)
\* Mutant: the timer of the blink firmware is left running.
ReleasedPinOnly(m, f) ==
  CASE f \in {"basic", "blink"} -> HalWrite(m, FALSE)
    [] f = "echo" -> [m EXCEPT !.uart = Uart!Disable(@)]

Released(m, f) == CASE f = "basic" -> HalWrite(m, FALSE)
                    [] f = "blink" -> HalWrite(HalStop(m), FALSE)
                    [] f = "echo" -> [m EXCEPT !.uart = Uart!Disable(@)]

Stuck(m, f) == m.flag[f] = UP /\ f # "echo" /\ ~PinReady(m)

Shutdown(m, f) ==
  CASE m.flag[f] # UP -> m
    [] Stuck(m, f) -> Released(m, f)
    [] OTHER -> [Released(m, f) EXCEPT !.flag[f] = SHUT]

Reset(m, f) ==
  IF Stuck(m, f) THEN Released(m, f)
  ELSE [(IF m.flag[f] = UP THEN Released(m, f) ELSE m)
          EXCEPT !.flag[f] = FRESH, !.counter = IF f = "basic" THEN 0 ELSE @]

\* SystemBus::reset.
PeripheralsReset(m, now) ==
  LET t == IF m.timer.attached THEN HalReset(m, now) ELSE m
  IN [t EXCEPT !.gpio = Gpio!Reset(@), !.uart = Uart!Reset(@), !.sched = ClearEvents(@)]

-----------------------------------------------------------------------------
NoBeat == [steady |-> FALSE, steps |-> 0, cycles |-> 0]
FirstBeat == [NoBeat EXCEPT !.steady = TRUE]
Begun(m) == IF active = "blink" /\ m.timer.attached THEN FirstBeat ELSE NoBeat

MayScheduleMore == sys.sched.nextId <= MaxEventId

\* UARTHAL enables the port it is constructed on.
Init ==
  /\ sys = [timer |-> NewTimer, sched |-> NewEventScheduler, gpio |-> Gpio!NewGPIO,
            uart |-> Uart!Enable(Uart!NewUART(1)),
            flag |-> [f \in Firmwares |-> FRESH], counter |-> 0]
  /\ active \in Firmwares
  /\ running = FALSE /\ clock = 0 /\ beat = NoBeat

-----------------------------------------------------------------------------
(***************************************************************************)
(* The CPU and the reset controller.                                       *)
(***************************************************************************)
Start ==
  /\ ~running /\ MayScheduleMore
  /\ running' = TRUE
  /\ sys' = Initialize(sys, active, clock)
  /\ beat' = Begun(sys)
  /\ UNCHANGED <<active, clock>>

Stop ==
  /\ running
  /\ running' = FALSE
  /\ sys' = Shutdown(sys, active)
  /\ beat' = NoBeat
  /\ UNCHANGED <<active, clock>>

\* loadFirmware: a shutdown() that throws leaves the old firmware selected.
Load(f) ==
  /\ running' = FALSE
  /\ sys' = IF running \/ f # active THEN Shutdown(sys, active) ELSE sys
  /\ active' = IF Stuck(sys, active) THEN active ELSE f
  /\ beat' = IF running \/ f # active THEN NoBeat ELSE beat
  /\ UNCHANGED clock

ResetPeripherals ==
  /\ sys' = PeripheralsReset(sys, clock)
  /\ clock' = 0 /\ beat' = NoBeat
  /\ UNCHANGED <<active, running>>

ResetCPU ==
  /\ LET s == Reset(sys, active)
     IN IF Stuck(sys, active) THEN sys' = s /\ clock' = clock
        ELSE sys' = PeripheralsReset(s, clock) /\ clock' = 0
  /\ beat' = NoBeat
  /\ UNCHANGED <<active, running>>

ResetFirmware ==
  /\ MayScheduleMore
  /\ LET s == Reset(sys, active)
     IN IF Stuck(sys, active) THEN sys' = s /\ beat' = NoBeat
        ELSE sys' = Initialize(s, active, clock) /\ beat' = Begun(sys)
  /\ UNCHANGED <<active, running, clock>>

\* resetCPU, resetPeripherals and resetFirmware.
ResetSystem ==
  /\ MayScheduleMore
  /\ LET s == Reset(sys, active)
         p == PeripheralsReset(PeripheralsReset(s, clock), 0)
     IN IF Stuck(sys, active) THEN sys' = s /\ clock' = clock /\ beat' = NoBeat
        ELSE /\ sys' = Initialize(Reset(p, active), active, 0)
             /\ clock' = 0 /\ beat' = Begun(sys)
  /\ UNCHANGED <<active, running>>

-----------------------------------------------------------------------------
(***************************************************************************)
(* The host on the peripherals.                                            *)
(***************************************************************************)
Host(m) == sys' = m /\ UNCHANGED <<active, running, clock>>

AttachTimer ==
  /\ ~sys.timer.attached /\ MayScheduleMore
  /\ Host(Put(sys, TimerAttach(Pair(sys), TIMER, clock))) /\ beat' = NoBeat

DetachTimer ==
  /\ sys.timer.attached
  /\ Host(Put(sys, TimerDetach(Pair(sys)))) /\ beat' = NoBeat

PushReceivedByte(b) ==
  /\ Len(sys.uart.tx) + Len(sys.uart.rx) < FifoBound
  /\ Host([sys EXCEPT !.uart = Uart!PushReceivedByte(@, b)]) /\ UNCHANGED beat

PopTxByte ==
  /\ sys.uart.tx # <<>>
  /\ Host([sys EXCEPT !.uart = Uart!PopTxByte(@)]) /\ UNCHANGED beat

DisableUART ==
  /\ sys.uart.enabled
  /\ Host([sys EXCEPT !.uart = Uart!Disable(@)]) /\ UNCHANGED beat

-----------------------------------------------------------------------------
(***************************************************************************)
(* CPU::step with the power on: the clock and the timer, the event of the  *)
(* timer if it is due, update().                                           *)
(***************************************************************************)
Ticked == LET m == IF sys.timer.attached THEN Put(sys, TimerTick(Pair(sys), clock + 1)) ELSE sys
          IN [m EXCEPT !.sched = RemainingEvents(@, clock + 1)]

Matched == IF ReadyEvents(sys.sched, clock + 1) = {} THEN Ticked
           ELSE Put(Ticked, HandleCompareMatch(Pair(Ticked)))

CpuStep ==
  /\ clock < MaxClock /\ MayScheduleMore
  /\ clock' = clock + 1
  /\ sys' = IF running THEN Update(Matched, active, clock') ELSE Matched
  /\ beat' = CASE ~beat.steady -> beat
               [] beat.steady /\ sys'.gpio # sys.gpio -> FirstBeat
               [] OTHER -> [beat EXCEPT !.cycles = @ + 1, !.steps = IF running THEN @ + 1 ELSE @]
  /\ UNCHANGED <<active, running>>

\* An event of the program comes first and throws: the rest of the batch is
\* lost, and update() is not called.
CpuStepThrows ==
  /\ clock < MaxClock
  /\ clock' = clock + 1
  /\ sys' = Ticked
  /\ beat' = IF beat.steady THEN [beat EXCEPT !.cycles = @ + 1] ELSE beat
  /\ UNCHANGED <<active, running>>

Next ==
  \/ Start \/ Stop \/ \E f \in Firmwares : Load(f)
  \/ ResetPeripherals \/ ResetCPU \/ ResetFirmware \/ ResetSystem
  \/ AttachTimer \/ DetachTimer
  \/ \E b \in Bytes : PushReceivedByte(b)
  \/ PopTxByte \/ DisableUART
  \/ CpuStep \/ CpuStepThrows

Spec == Init /\ [][Next]_vars

-----------------------------------------------------------------------------
(***************************************************************************)
(* TimerBlinkFirmware keeps time: it never toggles its pin before Compare  *)
(* cycles have passed, and it toggles it in at most Compare calls of       *)
(* update(), also when the event of its timer is lost with the batch of a  *)
(* callback that threw, and whatever it was before it was initialized.     *)
(* MaxClock is less than CountRange: a counter that wraps after its event  *)
(* is lost would start over unnoticed.                                     *)
(***************************************************************************)
BlinkPeriod ==
  [][beat.steady /\ beat'.steady =>
       /\ beat'.steps < Compare
       /\ clock' = clock + 1 /\ beat' = FirstBeat => beat.cycles + 1 >= Compare]_vars

(***************************************************************************)
(* A firmware that is down drives nothing: the pin is low unless one of    *)
(* the two that drive it is up, the timer is stopped unless the blink      *)
(* firmware is up, and the echo firmware leaves a disabled port.           *)
(***************************************************************************)
QuietWhenDown ==
  /\ Gpio!ReadPin(sys.gpio, Pin) => UP \in {sys.flag["basic"], sys.flag["blink"]}
  /\ TimerRunning(sys.timer) => sys.flag["blink"] = UP
  /\ sys.uart.enabled => sys.flag["echo"] # SHUT

(***************************************************************************)
(* docs/firmware.md: shutdown() is "Executed when the firmware is stopped  *)
(* or unloaded to safely disable peripherals."  Halting the CPU leaves the *)
(* firmware shut down.                                                     *)
(***************************************************************************)
StopShutsDown == [][running /\ ~running' => sys'.flag[active] # UP]_vars
=============================================================================
