-------------------------------- MODULE Timer --------------------------------
(***************************************************************************)
(* The timer peripheral, class efs::drivers::timer::Timer                  *)
(* (src/src/drivers/timer/timer.cpp).                                      *)
(*                                                                         *)
(* Operators take and return a pair m of the timer's members and the event *)
(* scheduler it is attached to; t names the timer, now is what             *)
(* m_clock->cycles() returns.  A timer is attached to the clock and to the *)
(* scheduler together, the way SystemBus::attachTimer does it; detached,   *)
(* both pointers are null.                                                 *)
(***************************************************************************)
EXTENDS Integers, EventScheduler

CONSTANT CountRange   \* number of values of the 32-bit COUNT register (2^32)

ASSUME CountAssumption == CountRange \in Nat \ {0}

ENABLE == "ENABLE"
INT_ENABLE == "INT_ENABLE"
AUTO_RESET == "AUTO_RESET"
CtrlBits == {ENABLE, INT_ENABLE, AUTO_RESET}
Counts == 0 .. CountRange - 1

TimerState == [ctrl : SUBSET CtrlBits,      \* the CTRL register, by bit
               count : Counts,
               compare : Counts,
               match : BOOLEAN,             \* STATUS_MATCH_BIT
               attached : BOOLEAN,          \* m_clock and m_scheduler not null
               eventId : Nat,               \* m_scheduledEventId
               last : Nat]                  \* m_lastClockCycles

NewTimer == [ctrl |-> {}, count |-> 0, compare |-> 0, match |-> FALSE,
             attached |-> FALSE, eventId |-> 0, last |-> 0]

TimerRunning(tm) == ENABLE \in tm.ctrl

CancelScheduledEvent(m) ==
  IF m.timer.eventId # 0 /\ m.timer.attached
  THEN [timer |-> [m.timer EXCEPT !.eventId = 0],
        sched |-> CancelEvent(m.sched, m.timer.eventId)]
  ELSE m

\* Mutant: the event of the previous setting is left behind.
UpdateWithoutCancel(m, t, now) ==
  IF TimerRunning(m.timer) /\ m.timer.attached /\ m.timer.count < m.timer.compare
  THEN [timer |-> [m.timer EXCEPT !.eventId = m.sched.nextId],
        sched |-> ScheduleEvent(m.sched, now + m.timer.compare - m.timer.count, t)]
  ELSE m

\* Mutant: the event is placed as if the counter started from zero.
UpdateFromZero(m, t, now) ==
  LET c == CancelScheduledEvent(m)
  IN IF TimerRunning(c.timer) /\ c.timer.attached /\ c.timer.count < c.timer.compare
     THEN [timer |-> [c.timer EXCEPT !.eventId = c.sched.nextId],
           sched |-> ScheduleEvent(c.sched, now + c.timer.compare, t)]
     ELSE c

\* A counter that is already at or past COMPARE gets no event at all.
UpdateScheduledEvent(m, t, now) ==
  LET c == CancelScheduledEvent(m)
  IN IF TimerRunning(c.timer) /\ c.timer.attached /\ c.timer.count < c.timer.compare
     THEN [timer |-> [c.timer EXCEPT !.eventId = c.sched.nextId],
           sched |-> ScheduleEvent(c.sched, now + c.timer.compare - c.timer.count, t)]
     ELSE c

SyncLast(tm, now) == IF tm.attached THEN [tm EXCEPT !.last = now] ELSE tm

TimerStart(m, t, now) ==
  LET on == [m.timer EXCEPT !.ctrl = @ \cup {ENABLE}]
  IN UpdateScheduledEvent([m EXCEPT !.timer = SyncLast(on, now)], t, now)

TimerStop(m) == CancelScheduledEvent([m EXCEPT !.timer.ctrl = @ \ {ENABLE}])

\* reset() leaves COMPARE alone.
TimerReset(m, now) ==
  LET s == TimerStop(m)
  IN [s EXCEPT !.timer =
        SyncLast([@ EXCEPT !.ctrl = {}, !.count = 0, !.match = FALSE], now)]

SetCompare(m, t, now, v) == UpdateScheduledEvent([m EXCEPT !.timer.compare = v], t, now)

\* SystemBus::attachTimer: attachClock, then attachScheduler.
TimerAttach(m, t, now) ==
  UpdateScheduledEvent([m EXCEPT !.timer.attached = TRUE, !.timer.last = now], t, now)

\* SystemBus::detachTimer: detachClock, then detachScheduler.
TimerDetach(m) ==
  LET c == CancelScheduledEvent([m EXCEPT !.timer.last = 0])
  IN [c EXCEPT !.timer.attached = FALSE]

\* Mutant: a match that leaves the timer running.
MatchKeepsRunning(m) ==
  IF TimerRunning(m.timer)
  THEN [m EXCEPT !.timer.count = m.timer.compare, !.timer.match = TRUE]
  ELSE m

(***************************************************************************)
(* handleCompareMatch.  It raises the interrupt exactly when it gets past  *)
(* its guard; neither INT_ENABLE nor AUTO_RESET is looked at.              *)
(***************************************************************************)
HandleCompareMatch(m) ==
  IF TimerRunning(m.timer)
  THEN TimerStop([m EXCEPT !.timer.count = m.timer.compare, !.timer.match = TRUE])
  ELSE m

\* The counting part of tick(): by the cycles since the last tick, at least 1.
Elapsed(tm, now) == IF tm.attached /\ now > tm.last THEN now - tm.last ELSE 1

\* Mutant: a counter wider than its register.
CountedWide(tm, now) ==
  IF TimerRunning(tm)
  THEN SyncLast([tm EXCEPT !.count = @ + Elapsed(tm, now)], now)
  ELSE SyncLast(tm, now)

Counted(tm, now) ==
  IF TimerRunning(tm)
  THEN SyncLast([tm EXCEPT !.count = (@ + Elapsed(tm, now)) % CountRange], now)
  ELSE SyncLast(tm, now)

\* tick(): a timer without a scheduler finds its match by itself.
MatchesOnTick(tm, now) == /\ TimerRunning(tm) /\ ~tm.attached
                          /\ Counted(tm, now).count >= tm.compare
TimerTick(m, now) ==
  LET c == [m EXCEPT !.timer = Counted(@, now)]
  IN IF MatchesOnTick(m.timer, now) THEN HandleCompareMatch(c) ELSE c
=============================================================================
