----------------------------- MODULE TimerSystem -----------------------------
(***************************************************************************)
(* Timers, the event scheduler and the simulation clock as SystemBus and   *)
(* CPU::step put them together (src/src/system/system_bus.cpp,             *)
(* src/src/cpu/cpu.cpp), with events of the program's own in the same      *)
(* queue.                                                                  *)
(*                                                                         *)
(* A CPU step advances the clock, ticks the attached timers and moves the  *)
(* ready events out of the queue; their callbacks then run one after       *)
(* another.  The callback of a timer is handleCompareMatch.  The callback  *)
(* of an event of the program may itself start, stop and set timers,       *)
(* schedule and cancel events and even reset the bus, while the rest of    *)
(* its batch is already out of the reach of cancel() and clear().          *)
(***************************************************************************)
EXTENDS Timer, FiniteSets

CONSTANTS
  Timers,     \* the timer peripherals
  Compares,   \* values written to COMPARE
  Options,    \* the CTRL bits, other than ENABLE, that the program sets and clears
  Leads,      \* how far ahead the program schedules its own events, 0 included
  MaxClock,   \* bound: the clock is stepped up to this cycle
  MaxEventId  \* bound: events are scheduled while m_nextId is at most this

ASSUME TimerSystemAssumption == /\ Compares \subseteq Counts
                                /\ Options \subseteq {INT_ENABLE, AUTO_RESET}
                                /\ Leads \subseteq Nat
                                /\ MaxClock \in Nat
                                /\ MaxEventId \in Nat

VARIABLES
  clock,      \* SimulationClock::m_cycles
  timers,     \* Timers -> TimerState
  sched,      \* the EventScheduler of the bus
  phase,      \* who runs: the host program, the batch loop, or a user callback
  ready,      \* the rest of the batch executeReadyEvents took
  lines,      \* the timers whose line is registered with the InterruptController
  irq,        \* the timers whose line is pending there
  fired,      \* history: ids of the events whose callback was run
  revoked,    \* history: ids that cancel() or clear() removed
  batchFrom   \* history: m_nextId when the current batch was taken

vars == <<clock, timers, sched, phase, ready, lines, irq, fired, revoked, batchFrom>>

USER == "user"   \* the owner of the program's own events
ASSUME UserAssumption == USER \notin Timers

Waiting == sched.events \cup ready

TypeOK == /\ clock \in 0 .. MaxClock
          /\ timers \in [Timers -> TimerState]
          /\ sched.events \subseteq Event(Timers \cup {USER})
          /\ sched.nextId \in Nat \ {0}
          /\ ready \subseteq Event(Timers \cup {USER})
          /\ phase \in {"host", "batch", "callback"}
          /\ irq \subseteq lines /\ lines \subseteq Timers
          /\ fired \cup revoked \subseteq 1 .. sched.nextId - 1
          /\ batchFrom \in 1 .. sched.nextId
          /\ phase = "batch" => ready # {}
          /\ phase = "host" => ready = {}

Init == /\ clock = 0
        /\ timers = [t \in Timers |-> NewTimer]
        /\ sched = NewEventScheduler
        /\ phase = "host" /\ ready = {} /\ lines = {} /\ irq = {}
        /\ fired = {} /\ revoked = {} /\ batchFrom = 1

-----------------------------------------------------------------------------
(***************************************************************************)
(* Calls of the program: from the host, or from the callback that runs.    *)
(***************************************************************************)
MayCall == phase \in {"host", "callback"}

Machine(t) == [timer |-> timers[t], sched |-> sched]

Becomes(t, m) == /\ timers' = [timers EXCEPT ![t] = m.timer]
                 /\ sched' = m.sched
                 /\ revoked' = revoked \cup (PendingIds(sched) \ PendingIds(m.sched))
                 /\ UNCHANGED <<clock, phase, ready, lines, fired, batchFrom>>

TimerCall(t, m) == MayCall /\ Becomes(t, m) /\ UNCHANGED irq

\* InterruptController::trigger: nothing happens on an unregistered line.
Triggered(t) == irq \cup ({t} \cap lines)

MayScheduleMore == sched.nextId <= MaxEventId

Start(t) == MayScheduleMore /\ TimerCall(t, TimerStart(Machine(t), t, clock))
Stop(t) == TimerCall(t, TimerStop(Machine(t)))
Reset(t) == TimerCall(t, TimerReset(Machine(t), clock))
WriteCompare(t, v) == MayScheduleMore /\ TimerCall(t, SetCompare(Machine(t), t, clock, v))
ClearMatch(t) == TimerCall(t, [Machine(t) EXCEPT !.timer.match = FALSE])

\* setInterruptEnabled and setAutoReset.
SetCtrlBit(t, bit) == TimerCall(t, [Machine(t) EXCEPT !.timer.ctrl = @ \cup {bit}])
ClearCtrlBit(t, bit) == TimerCall(t, [Machine(t) EXCEPT !.timer.ctrl = @ \ {bit}])

\* The bus refuses a timer it has, and one it has not.
AttachTimer(t) == /\ ~timers[t].attached
                  /\ MayScheduleMore
                  /\ TimerCall(t, TimerAttach(Machine(t), t, clock))
DetachTimer(t) == timers[t].attached /\ TimerCall(t, TimerDetach(Machine(t)))

\* A timer the bus does not have is ticked by the program itself.
TickDirectly(t) ==
  /\ MayCall /\ ~timers[t].attached
  /\ Becomes(t, TimerTick(Machine(t), clock))
  /\ irq' = IF MatchesOnTick(timers[t], clock) THEN Triggered(t) ELSE irq

\* InterruptController::registerInterrupt of the timer's line.
RegisterLine(t) == /\ MayCall /\ t \notin lines
                   /\ lines' = lines \cup {t}
                   /\ UNCHANGED <<clock, timers, sched, phase, ready, irq, fired, revoked, batchFrom>>

\* InterruptController::clear of the timer's line, by dispatch or the program.
ClearIrq(t) == /\ MayCall /\ t \in irq
               /\ irq' = irq \ {t}
               /\ UNCHANGED <<clock, timers, sched, phase, ready, lines, fired, revoked, batchFrom>>

Queue(s) == /\ MayCall
            /\ sched' = s
            /\ revoked' = revoked \cup (PendingIds(sched) \ PendingIds(s))
            /\ UNCHANGED <<clock, timers, phase, ready, lines, irq, fired, batchFrom>>

\* The program's own events.
Schedule(n) == MayScheduleMore /\ Queue(ScheduleEvent(sched, clock + n, USER))

Cancel(id) == /\ \E e \in Waiting : e.id = id /\ e.owner = USER
              /\ Queue(CancelEvent(sched, id))

\* clear() by the program: the compare events of timers go with the rest.
Clear == Queue(ClearEvents(sched))

(***************************************************************************)
(* SystemBus::reset, as far as these components go: every attached timer   *)
(* is reset, then the interrupt controller (which forgets its lines), the  *)
(* clock and the queue.                                                    *)
(***************************************************************************)
BusReset ==
  /\ MayCall
  /\ timers' = [t \in Timers |-> IF timers[t].attached
                                 THEN TimerReset(Machine(t), clock).timer ELSE timers[t]]
  /\ lines' = {} /\ irq' = {}
  /\ clock' = 0
  /\ sched' = ClearEvents(sched)
  /\ revoked' = revoked \cup PendingIds(sched)
  /\ UNCHANGED <<phase, ready, fired, batchFrom>>

-----------------------------------------------------------------------------
(***************************************************************************)
(* CPU::step with the power on: tickTimers, then executeReadyEvents.  An   *)
(* attached timer has a scheduler, so its tick only counts.                *)
(***************************************************************************)
CpuStep ==
  /\ phase = "host"
  /\ clock < MaxClock
  /\ clock' = clock + 1
  /\ timers' = [t \in Timers |-> IF timers[t].attached
                                 THEN TimerTick(Machine(t), clock').timer ELSE timers[t]]
  /\ ready' = ReadyEvents(sched, clock')
  /\ sched' = RemainingEvents(sched, clock')
  /\ phase' = IF ready' = {} THEN "host" ELSE "batch"
  /\ batchFrom' = sched.nextId
  /\ UNCHANGED <<lines, irq, fired, revoked>>

Loop(rest) == IF rest = {} THEN "host" ELSE "batch"

\* The callback of a timer: handleCompareMatch, which raises the interrupt.
RunTimerEvent ==
  /\ phase = "batch"
  /\ LET e == FirstReady(ready)
         t == e.owner
         m == HandleCompareMatch(Machine(t))
     IN /\ t \in Timers
        /\ timers' = [timers EXCEPT ![t] = m.timer]
        /\ sched' = m.sched
        /\ revoked' = revoked \cup (PendingIds(sched) \ PendingIds(m.sched))
        /\ irq' = IF TimerRunning(timers[t]) THEN Triggered(t) ELSE irq
        /\ ready' = ready \ {e}
        /\ fired' = fired \cup {e.id}
        /\ phase' = Loop(ready')
        /\ UNCHANGED <<clock, lines, batchFrom>>

\* The callback of an event of the program is entered ...
RunUserEvent ==
  /\ phase = "batch"
  /\ LET e == FirstReady(ready)
     IN /\ e.owner = USER
        /\ ready' = ready \ {e}
        /\ fired' = fired \cup {e.id}
        /\ phase' = "callback"
        /\ UNCHANGED <<clock, timers, sched, lines, irq, revoked, batchFrom>>

\* ... and returns to the loop of executeReadyEvents,
UserReturns == /\ phase = "callback"
               /\ phase' = Loop(ready)
               /\ UNCHANGED <<clock, timers, sched, ready, lines, irq, fired, revoked, batchFrom>>

\* or throws: the vector with the rest of the batch is destroyed.
UserThrows == /\ phase = "callback"
              /\ phase' = "host"
              /\ ready' = {}
              /\ UNCHANGED <<clock, timers, sched, lines, irq, fired, revoked, batchFrom>>

Next == \/ \E t \in Timers : \/ Start(t) \/ Stop(t) \/ Reset(t) \/ ClearMatch(t)
                             \/ \E v \in Compares : WriteCompare(t, v)
                             \/ \E b \in Options : SetCtrlBit(t, b) \/ ClearCtrlBit(t, b)
                             \/ AttachTimer(t) \/ DetachTimer(t) \/ TickDirectly(t)
                             \/ RegisterLine(t) \/ ClearIrq(t)
        \/ \E n \in Leads : Schedule(n)
        \/ \E id \in 1 .. MaxEventId : Cancel(id)
        \/ Clear \/ BusReset
        \/ CpuStep \/ RunTimerEvent \/ RunUserEvent \/ UserReturns \/ UserThrows

Spec == Init /\ [][Next]_vars

(***************************************************************************)
(* The host keeps stepping the CPU, the batch loop runs to its end, and    *)
(* callbacks return.                                                       *)
(***************************************************************************)
FairSpec == /\ Spec
            /\ WF_vars(CpuStep)
            /\ WF_vars(RunTimerEvent) /\ WF_vars(RunUserEvent)
            /\ WF_vars(UserReturns \/ UserThrows)

-----------------------------------------------------------------------------
(***************************************************************************)
(* Properties.                                                             *)
(***************************************************************************)

\* An event is waiting, run or revoked, never two of these: no callback runs
\* twice, and one that cancel() or clear() removed never runs, whatever the
\* callbacks of its batch do.
NoEventTwice ==
  /\ \A e, f \in Waiting : e.id = f.id => e = f
  /\ {e.id : e \in Waiting} \cap (fired \cup revoked) = {}
  /\ PendingIds(sched) \cap {e.id : e \in ready} = {}
  /\ fired \cap revoked = {}

EventsOf(t) == {e \in sched.events : e.owner = t}

\* A timer has at most one compare event in the queue, and only while it is
\* running and attached: start, stop, reset, setCompare and detach leave no
\* event of an earlier setting behind.
OneEventPerTimer ==
  \A t \in Timers : EventsOf(t) # {} =>
    /\ Cardinality(EventsOf(t)) = 1
    /\ TimerRunning(timers[t]) /\ timers[t].attached

\* The compare event is due in exactly as many cycles as the counter still has
\* to count, across stops, restarts and writes to COMPARE in mid-count: the
\* event that replaces polling fires when polling would have seen the match.
EventTracksCounter ==
  \A t \in Timers : \A e \in EventsOf(t) :
    e.cycle - clock = timers[t].compare - timers[t].count

\* Callbacks are run in (cycle, id) order: when one is entered, whatever is
\* ready and comes before it was scheduled by a callback of the same batch.
NothingOvertaken ==
  [][\A e \in ready \ ready' : e.id \in fired' =>
       \A f \in sched.events \cup ready : Before(f, e) => f.id >= batchFrom]_vars

\* Only the callback of its own event or its own tick sets the match bit of a
\* timer, the timer stops, and the interrupt is raised with it if its line is
\* registered (a reset of the bus forgets the lines).
MatchRaisesInterrupt ==
  [][\A t \in Timers : timers'[t].match /\ ~timers[t].match =>
       (t \in lines => t \in irq') /\ ~TimerRunning(timers'[t])]_vars

\* An event that is queued for a cycle the clock reaches does not wait for
\* ever: it is run, revoked, or lost with the batch of a callback that threw.
EventsAreServed ==
  \A id \in 1 .. MaxEventId :
    (\E e \in Waiting : e.id = id /\ e.cycle <= MaxClock /\ clock < MaxClock)
      ~> (id \notin {e.id : e \in Waiting})

\* docs/memory-map.md: COMPARE is the "Counter match value".  Refuted: a timer
\* that is restarted by a callback of the batch that holds its old event is
\* matched by that event, with its counter short of COMPARE.
MatchAtCompare ==
  [][\A t \in Timers : timers'[t].match /\ ~timers[t].match =>
       timers[t].count >= timers[t].compare - (IF timers[t].attached THEN 0 ELSE 1)]_vars
=============================================================================
