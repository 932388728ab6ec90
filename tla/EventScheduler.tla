--------------------------- MODULE EventScheduler ---------------------------
(***************************************************************************)
(* The event queue, class efs::system::scheduler::EventScheduler           *)
(* (src/src/system/scheduler/event_scheduler.cpp), as operators on a       *)
(* record with its two members: m_events and m_nextId.                     *)
(*                                                                         *)
(* The vector m_events is a set: ids are unique and every reader of the    *)
(* vector searches it by id or sorts it by (cycle, id).  A callback is     *)
(* represented by its owner; what it does is up to the module that uses    *)
(* these operators.                                                        *)
(***************************************************************************)
EXTENDS Naturals

Event(owners) == [id : Nat \ {0}, cycle : Nat, owner : owners]

NewEventScheduler == [events |-> {}, nextId |-> 1]

\* schedule() of a callback that is not null; it returns s.nextId.
ScheduleEvent(s, cycle, owner) ==
  [events |-> s.events \cup {[id |-> s.nextId, cycle |-> cycle, owner |-> owner]},
   nextId |-> s.nextId + 1]

PendingIds(s) == {e.id : e \in s.events}

\* cancel(); it returns id \in PendingIds(s).
CancelEvent(s, id) == [s EXCEPT !.events = {e \in @ : e.id # id}]

\* clear(): ids are not reused afterwards.
ClearEvents(s) == [s EXCEPT !.events = {}]

\* Mutant: an event is run only after its cycle has passed.
ReadyTooLate(s, now) == {e \in s.events : e.cycle < now}

\* The split of executeReadyEvents: what is moved out and will be run ...
ReadyEvents(s, now) == {e \in s.events : e.cycle <= now}

\* Mutant: ready events are copied out of m_events, not moved.
RemainingAll(s, now) == s

\* ... and what is left in m_events while the callbacks run.
RemainingEvents(s, now) == [s EXCEPT !.events = @ \ ReadyEvents(s, now)]

\* Mutant: in the order in which they were scheduled.
FirstScheduled(ready) == CHOOSE e \in ready : \A f \in ready : e.id <= f.id

Before(e, f) == e.cycle < f.cycle \/ (e.cycle = f.cycle /\ e.id < f.id)

\* The sort of executeReadyEvents: the batch is run in the order Before.
FirstReady(ready) == CHOOSE e \in ready : \A f \in ready \ {e} : Before(e, f)
=============================================================================
