# A TLA+ model of the Embedded Firmware Simulator

The simulator is a single-threaded C++17 program that imitates a microcontroller:
a CPU object is stepped by the host program, and every step advances a clock,
ticks the peripherals, runs due event callbacks, dispatches one interrupt
handler and then runs RTOS tasks or the active firmware. There are no threads,
but there is plenty of interleaving: tasks, event callbacks, interrupt handlers
and firmware are functions of the program that are called from inside the
simulator and call back into it, at any depth and in any order. That is what
the modules below are about.

Paths are relative to the directory that holds `src/` and `tla/`.

## Inventory

| Part | State it keeps | Operations | What makes it correct |
|---|---|---|---|
| RTOS scheduler (`src/src/rtos`) | task map, ready buckets by priority, delay queue, tick, next id, current id | create, delete, start, stop, schedule, yield, delay, tick, suspend, resume, reset | queues agree with task states; one RUNNING task; highest priority first; round robin; sleepers wake; fresh ids |
| Event scheduler (`src/src/system/scheduler`) | vector of events, next id | schedule, cancel, clear, executeReadyEvents | each event runs at most once, in order, or is revoked; none waits for ever |
| Timer (`src/src/drivers/timer`) | CTRL, COUNT, COMPARE, STATUS, its scheduled event, last clock cycle | start, stop, reset, setCompare, attach, detach, tick, match | its one event is due exactly when its counter reaches COMPARE |
| Interrupt controller (`src/src/kernel`) | registered lines, ENABLE, PENDING, priorities, handlers | register, enable, trigger, clear, dispatch, reset | only registered lines have handlers; most urgent first; the pending bit is consumed |
| CPU, power, reset, firmware (`src/src/cpu`, `src/src/system/power`, `src/src/firmware`) | running flag, power state, firmware registry and active name, the firmwares' flags | start, stop, step, run, load, unload, resets, power transitions, registration | the active firmware is registered, nobody else is up, halting takes everything down |
| System bus, clock (`src/src/system`) | attached peripherals, cycle count | attach, detach, tickTimers, reset | a reset leaves no event or line of the time before |
| DMA controller, memory (`src/src/drivers/dma`, `src/src/memory`) | transfer registers, links to the other units, bytes | configure, start, stop, step, reset; read, write | every byte arrives once and in order, also when a step throws; completion is signalled |
| UART (`src/src/drivers/uart`) | two FIFOs, CONTROL, STATUS, BAUD | enable, disable, write, read, push, pop, reset | STATUS agrees with the FIFOs |
| PWM, ADC, SPI, I2C, GPIO (`src/src/drivers`) | registers, attached devices, buffers | enable, transfer, convert, read, write, attach, reset | STATUS agrees with the state; no byte of the buffer read twice; no dangling device; nearest code; period armed |
| MMIO bus (`src/src/mmio`) | address map | register, unregister, read, write | a live peripheral keeps its registers |
| HAL (`src/src/hal`) | a pointer, the queue of `I2CHAL` | forwarding, `configure`, `requestFrom` | as the drivers' |
| Firmware applications (`src/src/firmware`) | flags, a counter | initialize, update, shutdown, reset | quiet when down; the blink period |
| Register file, monitor, logger, demos | none that another part reads | text output, accessors | not modelled |

How they interact: the CPU calls the bus (clock, DMA, timers, PWM), the event
scheduler, the interrupt controller, then the RTOS or the firmware manager.
Timers put callbacks into the event scheduler and trigger interrupt lines; DMA
does both and moves bytes between memory, MMIO registers and the UART. The
reset controller reaches all of them. Hard are: nested calls (a callback that
changes what its caller has already read), work taken out of a queue before it
is run, counters that wrap, resets in the middle of something, and exceptions.
`PROJECT.json` lists the hazards at their lines.

## Modules

**`RTOS`** - class `rtos::Scheduler`. One variable, the record `rtos`, has one
field per member and the field `stack`, the C++ stack of task bodies. Private
functions (`AddToReadyQueue`, `ProcessDelayQueue`, `PickNextTask`/`Rotate`,
`SwitchTo`, ...) are operators on that record; public functions are actions that
compose them in the order of the code. `Schedule` ends by pushing a body; since
no scheduler function does anything after the body returns, `Return` is a pop.
An exception thrown by a body unwinds to the host, which is a sequence of
`Return`s. Any body but the idle task's may call anything, also after its own
task was deleted. (Deleting the executing task destroys the `std::function` that
runs; the model lets the body continue, because the scheduler touches nothing of
it afterwards.) Bounds: `MaxDepth` bodies nest, ids up to `MaxTaskId` are handed
out; tick and id counters wrap at `TickRange` and `IdRange`.

**`Queues`** holds the one sequence operation the library does not have in a
form the provers accept; **`QueueTheorems`** proves what it and the library's
`RemoveFirst`, `Append` and rotation do to the elements of a queue.

**`EventScheduler`**, **`Timer`** - the two classes as operators on records;
**`TimerSystem`** composes them with the clock, the bus and CPU stepping.
`CpuStep` advances the clock, ticks the attached timers and moves the ready
events into the local batch; then `RunTimerEvent` and `RunUserEvent` run it in
order. While a callback of the program runs it may do whatever the host may
(start, stop, set and attach timers, schedule, cancel, clear, reset the bus),
and it may throw. `irq` and `lines` are what the interrupt controller knows of
the timers' lines. `fired`, `revoked` and `batchFrom` are history variables for
the properties. Bounds: `MaxClock`, `MaxEventId`.

**`InterruptController`** - registers as sets of lines; register writes over the
MMIO bus are actions of their own, since they bypass the checks of the member
functions. `dispatch()` is the code's loop: `Dispatch` sets up its locals in
`scan` (the next line, the best line so far or -1, its priority or 255),
`ScanLine` is one iteration, `EnterHandler` or `FindNone` comes after the last.
The loop calls nobody, so nothing else happens while it runs (`OutsideScan`).
Handlers nest up to `MaxDepth` and may throw.

**`Lifecycle`** - who may execute: CPU, firmware manager, the flag protocol that
the three firmwares share (FRESH, UP, STUCK, SHUT), power and reset controllers, and
whether an attached RTOS takes the firmware's place. A step has two places where
the program's code runs (`callbacks`, `body`), and every operation may be called
there, in the middle of `run()`. **`FirmwareSlot`** is the abstract
specification it implements: at most one firmware is up, and it is replaced only
through a moment in which none is.

A firmware function may throw. `initialize()` has set its flags by then.
`shutdown()` and `reset()` throw when the direction of the pin was reset under
the firmware; they set the flags last, so the firmware stays up: it is STUCK
until the pin is an output again. `CPU::stop()` has then already cleared
`m_running` and does not come to `m_rtosScheduler->stop()`: the CPU is halted,
the firmware up, and an attached RTOS still running, which `CPU::step()` goes on
scheduling, since it looks at the scheduler's flag and not at its own. `Halt` has
both outcomes; `HaltMeansDown` is about a `shutdown()` that returns, and
`firmware_stop` shows the other one with the application that throws. A manager
function that begins with a throwing `shutdown()` changes nothing, so the stuck
firmware stays selected, and the other properties hold on this path, too.

**`MMIOBus`**, **`GPIO`**, **`UART`**, **`SPI`**, **`I2C`**, **`ADC`**, **`PWM`** -
one class each as operators on a record whose fields are the registers and
members; `PWM` holds a timer and is built on `Timer`. A call that throws is an
operator that returns what the object had become by then. `STATUS` is a set of
flags, kept as a copy like in the code, so that a function that forgets to
refresh it shows. SPI and I2C devices are the program's: what they answer and
acknowledge is arbitrary. Voltages are small integers and the rounding of a
conversion is exact.

**`Board`** composes them: constructors and destructors on one address map (a
constructor that throws leaves the registers it had got, because no destructor
runs), attachment to the system bus and to the HAL, the reset of the bus, stores
to CONTROL and OUT that bypass the object, and every call. Calls the HAL offers
are made through the HAL and need it attached; the others are made on the
driver. `filled` and `stored` are history variables. Bounds: peripherals share
nothing but the address map and the bus reset, so one of them is operated only
while it is alone at `WorkBase` (`Operated`, `Idle`), `MaxLive` exist at a time,
and buffers hold `FifoBound` bytes.

**`DMA`** - the controller, with `UART` and memory, as operators on a record;
**`DataPath`** composes it with the system bus, its interrupt line, the events
that are due and the CPU's step. A step of the CPU ticks the controller first:
if the UART throws there, the step ends, and neither events nor handlers are
looked at. `taken`, `fed` and `intact` are history variables. Bounds: a transfer
is set up on a quiet system (`ConfigureDMA`), memory is loaded as a whole, bytes
come in only for a transfer that reads the FIFO, no transfer walks over the
registers next to the UART's DATA, units other than the UART are exchanged one
at a time and before the first transfer.

**`Applications`** - `BasicFirmware`, `TimerBlinkFirmware` and
`UARTEchoFirmware` with the pin, the timer (on `Timer` and `EventScheduler`) and
the UART they drive, under the CPU and the reset controller. A function of a
firmware that throws leaves the state it had reached. `CpuStepThrows` is a step
in which a callback of the program throws before the timer's event is run.
`beat` counts the calls of `update()` and the cycles since the last toggle.
Bounds: `MaxClock`, `MaxEventId`, `FifoBound`. `CountRange` is larger than
`MaxClock`: a blink firmware whose event was lost and that is not updated while
the counter wraps below COMPARE misses its toggle, which a small `CountRange`
would bring within a few steps; `BlinkPeriod` is false then.

**`RTOSProofs`**, **`LifecycleProofs`**, **`InterruptProofs`**, **`TimerProofs`**,
**`BoardProofs`**, **`DataPathProofs`**, **`ApplicationsProofs`** - the theorems
about the module of that name, see below.

Operators marked "Mutant" are deliberate bugs, used to confirm that each
property can fail.

## Runs

| Run | Instance | What it shows |
|---|---|---|
| `rtos` | 2 tasks beside idle, priorities {0, 1}, delays {0, 1, 2}, ticks modulo 4, nesting 2 | `QueuesMatchStates`, `OneRunning`, `NoOverdueSleeper`, `CurrentAwake`, `NextIdIsFree`, `HighestPriorityFirst`, `FifoWithinPriority`, `SuspendedStaysSuspended` |
| `rtos_live` | the same with delay 1 and ticks modulo 3 | `RoundRobin`, `SleepersWake` |
| `rtos_delay_caller` | 2 tasks, nesting 2 | after a nested dispatch `delay()` puts another task to sleep than its caller |
| `timers` | 1 timer, COMPARE 0 or 2, counter modulo 3, events of the program now or one cycle ahead, clock to 3, 3 events | `NoEventTwice`, `OneEventPerTimer`, `EventTracksCounter`, `NothingOvertaken`, `MatchRaisesInterrupt`, `EventsAreServed` |
| `timer_stale_event` | the same | a timer restarted in mid-batch is matched by its old event |
| `interrupts` | 3 lines (`MAX_INTERRUPTS`), priorities 128 and 255, nesting 2 | `HandlersAreRegistered`, `ServedLineIsCleared`, `MostUrgentFirst`, `MostUrgentIsServed` |
| `lifecycle` | 2 names, 2 firmwares that may throw, `run(0)` and `run(2)` | `ActiveIsRegistered`, `OnlyActiveIsUp`, `HaltMeansDown`, `RunReturns`, and that `FirmwareSlot` is implemented |
| `board` | all six kinds at bases 0, 2, 4, two at a time; pins 0, 31 and the invalid 32; three I2C devices, two at one address; voltages 0, 1, 3, 5; PWM clock of 4 cycles, duties to 101 | `LiveRegistersMapped`, `StatusReportsState`, `ActiveIsAttached`, `BufferedByteReadOnce`, `NearestCode`, `PeriodArmed` |
| `pwm_square_wave` | a PWM alone | the output of a generator that is on stays high |
| `dma` | 4 cells of memory, UART DATA at address 8, transfers of 0 and 2 bytes within memory (one overlaps itself, one runs off the end), between memory and the FIFO, and from FIFO to FIFO | `BytesArrive`, `CompletionSignalled` |
| `firmware` | COMPARE 2, toggle interval 2, clock to 5, 4 events, 2 bytes in the FIFOs | `QuietWhenDown`, `BlinkPeriod` |
| `firmware_stop` | the same | `stop()` leaves a firmware up whose pin was reset to input |

Why these bounds are enough to be interesting: two tasks of one priority take
turns and sleep while the other runs, the second body runs on top of the first,
and a delay of 2 crosses the wrap of a 2-bit tick. Priority 0 is shared by the
idle task and a user task. One timer with two further events lets its compare
event sit in a batch before and after callbacks that change the timer; COMPARE 0
is the boundary where no event is scheduled. Three lines let the best line so
far be replaced, kept, and tied with a later one; 255 is the value the scan
starts from, so a line of that priority is found only because of the -1. With two names for two firmwares, one firmware can
also be registered under both. Blocks of registers at bases 0, 2 and 4 overlap
in part, and two peripherals, the wreck of a third and a register of the program
meet there; 31 and 32 are the last pin and the first that does not exist; two
I2C devices at one address make the order of the list matter; 101 percent and a
frequency above the clock are refused. Two bytes are enough for a transfer to
stop, fail or be aborted between its first and its last byte, and the last cell
of memory for an increment to run out of it. Compare 2 with a clock to 5 is two
beats, with a step in between that sees no match.

`CHECK_DEADLOCK FALSE` is used where a program can use up the bounds or
come to rest: `TimerSystem` and `Applications` have a clock and event ids that
end, and a board or data path may be left alone, with a full FIFO or in a map
with no room. No run uses symmetry: the identities that could be permuted are
numbers whose order the code looks at, or there is only one of them.

### Fairness

* `RTOS`: task bodies return (the scheduler is cooperative and has no other way
  to go on), and the host keeps stepping the CPU whenever it gets control with
  the scheduler running (`CPU::run` is a loop of steps). No call of the program
  is fair.
* `TimerSystem`: the CPU is stepped, the batch loop of `executeReadyEvents` runs
  on, callbacks return or throw.
* `InterruptController`: `dispatch()` is called (once per CPU step) and its loop
  goes on; handlers return or throw.
* `Board`: the CPU keeps stepping, so a PWM on the system bus is ticked; used
  only by `pwm_square_wave`. `DataPath` and `Applications` assume no fairness.
* `Lifecycle`: the thread goes on from each place in a step; callbacks and
  bodies return or throw.

### Disagreements with the documentation

Shown by runs:

1. `src/include/rtos/rtos_scheduler.hpp:57` "Blocks current running task":
   `delay()` blocks `m_currentTaskId`, which after a nested dispatch is not the
   task whose body calls it (`rtos_delay_caller`).
2. `src/docs/memory-map.md:48` COMPARE is the "Counter match value": an event
   already taken into the batch matches a timer that was restarted meanwhile
   (`timer_stale_event`).
3. `src/docs/peripherals.md:43` "Integrated timer-driven square wave generator":
   the match stops the PWM's timer at the period, AUTO_RESET is never read, and
   every following tick finds the counter there; the output stays high
   (`pwm_square_wave`).
4. `src/docs/firmware.md:32` "Executed when the firmware is stopped or unloaded
   to safely disable peripherals": after `resetPeripherals()` the pin is an
   input, `shutdown()` throws, and the firmware stays up on a halted CPU, with an
   attached RTOS still running (`firmware_stop`).

Met while modelling, plain to see in the code and without a run of their own:

* `src/docs/scheduler.md:29` "0 = Highest priority": the map of buckets is
  ordered by `std::greater`, the largest number wins (`HighestPriorityFirst`).
* `src/include/drivers/timer/timer.hpp:63` "Enables or disables timer
  interrupts": the bit is never read.
* `src/include/system/power/reset_controller.hpp:32` "Peripherals and firmware
  retain state": `resetCPU()` resets both.
* `src/docs/peripherals.md:30` calls DMA non-blocking; a transfer from an empty
  UART throws out of `CPU::step()` in every cycle, before events and handlers.

## What is proved

Every safety property that a passing run checks is also a theorem, for every
value of the constants that the named assumptions admit. Each proof module has
an invariant `IInv` that is inductive, and theorem `Inductive` says so; the
properties of states follow from it, the properties of steps from it and the
step. Where an assumption goes beyond those of the modules, it is in the
statement of the theorem.

`RTOSProofs`, for any set of priorities, delays, tick and id width and depth,
assuming only that ids do not wrap (`MaxTaskId < IdRange - 1`; with the wrap the
idle task is replaced, and `NextIdIsFree` is false): `TypeCorrect`,
`QueuesAgree`, `AtMostOneRunning`, `NoSleeperOverdue`, `CurrentNeverAsleep`,
`FreshIds`. None of these invariants is inductive alone. `delay()` appends the
current task to the delay queue without looking whether it is there; that is
safe only because the current task is never asleep, which holds only because
`schedule()` picks from buckets that hold only awake tasks, and that is
`QueuesMatch`. The idle task must be awake because `pickNextTask` falls back to
it when all buckets are empty. The argument has two levels: `GoodState` holds
even inside a call, between the steps `delay()`, `suspendTask()`, `deleteTask()`
and `yield()` take before `schedule()`, and every private function preserves it
(one lemma each); `Settled` adds "no sleeper overdue, current awake", which
`schedule()` re-establishes because it begins with `processDelayQueue()`.
`IInv == Settled(rtos) /\ IdsBelowNext(rtos)`.
The action properties `DispatchesHighest`, `RoundRobinKeepsOrder` and
`SuspensionHolds` rest on the same two levels. Every call goes through a good
state in which only its subject has lost its place in a bucket or its
suspension (`StepsThrough`); from there `schedule()` wakes sleepers, which are
appended, and rotates the bucket of the task it dispatches. That one list keeps
the order of another (`KeepsOrder`) is transitive, so the steps of a call
compose.

`LifecycleProofs`, for any names (ordered like numbers) and firmwares:
`TypeCorrect`, `ActiveRegistered`, `OnlyActiveUp`, `HaltTakesDown` and
`ImplementsSlot`, the refinement of `FirmwareSlot`. The inductive invariant is
`GoodManager`: shutting down the active firmware is enough only if no other is
up, which in turn needs the active name to be registered whenever something is.
Each function of the manager has one lemma: it preserves `GoodManager`, and it
only takes firmware down or only brings firmware up; with at most one active
image, such a step is a step of `FirmwareSlot` or a stutter. A firmware that is
stuck leaves the manager as it is, and `HaltTakesDown` says nothing of it: what
it proves is that a halt whose `shutdown()` returns takes everything down, from
wherever it is called.

`InterruptProofs`, for any number of lines and any priorities: `TypeCorrect`,
`HandlersRegistered`, `ServedLineCleared`, `ServesMostUrgent`. That a served
line is no longer pending is not a fact about `dispatch()` alone: its `clear()`
does nothing for a line that is not registered, so it rests on
`HandlersAreRegistered`, through every store over MMIO and every `reset()` from
inside a handler. `ServesMostUrgent` rests on the invariant of the scan
(`ScanIsRight`): the best line so far is a candidate, has the priority that is
kept beside it, and goes before every other candidate among the lines already
scanned; if there is none, no line scanned is a candidate. When the loop ends,
that is every line.

`TimerProofs`, for any number of timers and any width of the counter:
`TypeCorrect`, `EventsRunOnce`, `AtMostOneEvent`, `EventFollowsCounter`,
`RunsInOrder`, `MatchInterrupts`. The invariant has a part for each timer
(`GoodTimer`: an event of its own in the queue is the one it can cancel and is
due when COUNT reaches COMPARE, and a running timer on the bus was last ticked
in this cycle) and a part for queue and batch (`EventsGood`: waiting, run and
revoked ids are apart and below the next id, and what was left in the queue when
the batch was taken comes after all of it). Every function of a timer has a
lemma: it keeps `GoodTimer` and does to the queue no more than remove events and
add one of that timer with the next id (`QueueStep`). An event in the batch is
covered by the second part only: that is where a restarted timer meets its old
event (`timer_stale_event`).

`BoardProofs`, for any kinds of peripherals, bases, bytes, devices, voltages and
clock: `TypeCorrect`, `RegistersMapped`, `StatusTruthful`, `ActiveAttached`,
`BufferReadOnce`, `CodeIsNearest`, `PeriodIsArmed`. The invariant has a part for the
address map (no constructor that throws takes or leaves a register of a live
peripheral), one for what is attached, and one for each device: its STATUS is
what its members make it, with CONTROL as STATUS has it; no I2C device is
attached twice (`attachDevice()` looks first), so that erasing one entry in
`detachDevice()` removes the device altogether; an active device is attached and
its bus busy; DATA of the
SPI counts as unread with an empty buffer only after `transfer()`; the period of
a PWM is that of FREQ. `CodeIsNearest` is a statement about rounded division,
proved for any reference and resolution. The assumptions on the constants say
that the sets of inputs contain what the code itself sets (SPI modes 0 and 1, a
divider that is not 0).

`DataPathProofs`, for any memory, bytes and transfers, also ones that overlap
themselves: `BytesDelivered` and `CompletionInterrupts`. `BytesArrive` says
where the bytes are; to keep it, a step must be at the right place: the current
addresses are the first ones plus the bytes moved, a transfer that is busy could
start, has no error and bytes left, and an address that began in memory is at
most one past its end, which is the step that fails. DATA is above the end of
memory, with a gap (`MemoryAssumption`), as in the memory map. The bytes a
transfer took from memory are those that are there, but for cells it has itself
stored over (`StoredOver`).

`ApplicationsProofs`, for any pin, COMPARE and interval: `DownIsQuiet` and
`BlinkKeepsTime`. The first rests on `Sound`: only the selected firmware may be
up, also after a `shutdown()` or `reset()` that threw, because then the old one
stays selected; a pin that is high is an output, so the only firmware that could
not let go of it has nothing to let go of. Each function of the applications
takes a sound system to a sound one. For the second, the queue holds no event
the timer has lost track of (`OwnEvents`), so `initialize()` and every toggle
leave one event, Compare cycles ahead, and a counter at zero (`Fresh`); until
somebody interferes, the counter counts the cycles and the event is not due
before Compare of them (`Steady`). It assumes `CounterDoesNotWrap`
(`MaxClock < CountRange`; COUNT has 32 bits).

Only model-checked:

* All liveness (`RoundRobin`, `SleepersWake`, `EventsAreServed`,
  `MostUrgentIsServed`, `RunReturns`): liveness under fairness is out of the
  prover's reach.
* The four disagreements above, which are counterexamples.
* What `EchoUpdate` abstracts: the loop of `UARTEchoFirmware::update` is given
  by what it leaves, since a fold over a sequence cannot be reasoned about here.

## Not modelled

* The monitor and the logger print what the others hold, the demonstration
  programs call the library, the register file is an array that no part reads.
* Frequencies and times of the clock: arithmetic without effect on the state.
* SPI and I2C devices that throw; MMIO stores other than to CONTROL and OUT, in
  particular to the registers of a running timer; a timer that the program
  attaches to a clock without a scheduler.
* A `step()` or `run()` called from inside a step; exchanging the bus or the
  power controller of a CPU; the destructor of the system bus.

## Plan

The order in which the project grows:

1. RTOS with proofs; timers and events; interrupts; life cycle with refinement
   and proofs - done.
2. Peripherals on the MMIO bus with their HAL; DMA with UART and memory; the
   firmware applications on their peripherals - done.
3. Proofs of all safety properties of the runs - done.
4. An abstract timer that counts and compares in each cycle, and the event-driven
   timer shown to implement it where no stale event is in a batch.
5. One CPU step as the composition of clock, DMA, timers, events, dispatch and
   RTOS, with stores to the timers' registers in between.
