----------------------------- MODULE TimerProofs -----------------------------
(***************************************************************************)
(* Proofs about timers, the event queue and the clock, for any number of   *)
(* timers, any width of the counter and any bounds.                        *)
(*                                                                         *)
(* Every function of a timer has one lemma about the pair of the timer and *)
(* the scheduler that it takes and returns: the timer's own event, if it   *)
(* has one, follows its counter (GoodTimer), and the queue loses events    *)
(* and gains at most one, with a fresh id, of that timer (QueueStep).  The *)
(* steps of the system then combine what happens to the queue with the     *)
(* batch that was taken out of it.                                         *)
(***************************************************************************)
EXTENDS TimerSystem, QueueTheorems, FiniteSetTheorems

Owners == Timers \cup {USER}
Schedulers == [events : SUBSET Event(Owners), nextId : Nat \ {0}]
Machines == [timer : TimerState, sched : Schedulers]

\* The event e of a timer that is in the queue: it is the one the timer can
\* cancel, and it is due when the counter reaches COMPARE.
Tracks(e, tm, now) ==
  /\ e.id = tm.eventId
  /\ TimerRunning(tm) /\ tm.attached
  /\ tm.count < tm.compare
  /\ e.cycle - now = tm.compare - tm.count

GoodTimer(t, m, now) ==
  /\ TimerRunning(m.timer) /\ m.timer.attached => m.timer.last = now
  /\ \A e \in m.sched.events : e.owner = t => Tracks(e, m.timer, now)

\* What a function may do to the queue s on behalf of the owner o.
QueueStep(s, n, o) ==
  /\ n \in Schedulers
  /\ \/ n.nextId = s.nextId /\ n.events \subseteq s.events
     \/ /\ n.nextId = s.nextId + 1
        /\ \E e \in Event({o}) : e.id = s.nextId /\ n.events \subseteq s.events \cup {e}

\* The same timer, but for the event it refers to.
SameButEvent(tm, un) ==
  /\ un \in TimerState
  /\ un.ctrl = tm.ctrl /\ un.count = tm.count /\ un.compare = tm.compare
  /\ un.match = tm.match /\ un.attached = tm.attached /\ un.last = tm.last

-----------------------------------------------------------------------------
(***************************************************************************)
(* The functions of a timer.                                               *)
(***************************************************************************)

\* Cancelling takes the timer's event away, wherever its fields have been
\* changed to.
LEMMA CancelRemoves ==
  ASSUME NEW t, NEW m \in Machines, NEW id, id = m.timer.eventId,
         \A e \in m.sched.events : e.owner = t => e.id = id /\ m.timer.attached
  PROVE  LET c == CancelScheduledEvent(m)
         IN /\ c \in Machines
            /\ SameButEvent(m.timer, c.timer)
            /\ c.sched.nextId = m.sched.nextId
            /\ c.sched.events \subseteq m.sched.events
            /\ \A e \in c.sched.events : e.owner # t
<1> DEFINE c == CancelScheduledEvent(m)
<1>0. m.timer \in TimerState /\ m.sched \in Schedulers
  BY DEF Machines
<1>1. CASE m.timer.eventId # 0 /\ m.timer.attached
  <2>1. /\ c.timer = [m.timer EXCEPT !.eventId = 0]
        /\ c.sched = [m.sched EXCEPT !.events = {e \in @ : e.id # id}]
        /\ c = [timer |-> c.timer, sched |-> c.sched]
    BY <1>1 DEF CancelScheduledEvent, CancelEvent
  <2> HIDE DEF c
  <2>2. SameButEvent(m.timer, c.timer) /\ c.timer \in TimerState
    BY <1>0, <2>1 DEF SameButEvent, TimerState
  <2>3. /\ c.sched \in Schedulers /\ c.sched.nextId = m.sched.nextId
        /\ c.sched.events = {e \in m.sched.events : e.id # id}
    BY <1>0, <2>1 DEF Schedulers
  <2> QED BY <2>1, <2>2, <2>3 DEF Machines, c
<1>2. CASE ~(m.timer.eventId # 0 /\ m.timer.attached)
  <2>1. c = m
    BY <1>2 DEF CancelScheduledEvent
  <2>2. \A e \in m.sched.events : e.id # 0
    BY <1>0 DEF Schedulers, Event
  <2>3. SameButEvent(m.timer, m.timer)
    BY <1>0 DEF SameButEvent
  <2> QED BY <1>2, <2>1, <2>2, <2>3
<1> QED BY <1>1, <1>2

\* updateScheduledEvent leaves the timer with the one event it should have.
LEMMA UpdateGood ==
  ASSUME NEW t \in Owners, NEW m \in Machines, NEW now \in Nat,
         \A e \in m.sched.events : e.owner = t => e.id = m.timer.eventId /\ m.timer.attached,
         TimerRunning(m.timer) /\ m.timer.attached => m.timer.last = now
  PROVE  LET r == UpdateScheduledEvent(m, t, now)
         IN /\ r \in Machines /\ GoodTimer(t, r, now)
            /\ SameButEvent(m.timer, r.timer)
            /\ QueueStep(m.sched, r.sched, t)
<1> DEFINE c == CancelScheduledEvent(m)
           r == UpdateScheduledEvent(m, t, now)
<1>1. /\ c \in Machines
      /\ SameButEvent(m.timer, c.timer)
      /\ c.sched.nextId = m.sched.nextId
      /\ c.sched.events \subseteq m.sched.events
      /\ \A e \in c.sched.events : e.owner # t
  BY CancelRemoves
<1>2. c.timer \in TimerState /\ c.sched \in Schedulers /\ m.sched \in Schedulers
  BY <1>1 DEF Machines
<1> DEFINE due == TimerRunning(c.timer) /\ c.timer.attached /\ c.timer.count < c.timer.compare
           e == [id |-> c.sched.nextId,
                 cycle |-> now + c.timer.compare - c.timer.count, owner |-> t]
           tm == [c.timer EXCEPT !.eventId = c.sched.nextId]
           sc == [events |-> c.sched.events \cup {e}, nextId |-> c.sched.nextId + 1]
<1>3. r = IF due THEN [timer |-> tm, sched |-> sc] ELSE c
  BY DEF UpdateScheduledEvent, ScheduleEvent
<1> HIDE DEF c, r
<1>4. CASE due
  <2>1. tm \in TimerState /\ SameButEvent(c.timer, tm) /\ tm.eventId = c.sched.nextId
    BY <1>2 DEF TimerState, SameButEvent, Schedulers
  <2>2. SameButEvent(m.timer, tm)
    BY <1>1, <2>1 DEF SameButEvent
  <2>3. c.timer.count \in Nat /\ c.timer.compare \in Nat
    BY <1>2, CountAssumption DEF TimerState, Counts
  <2>4. now + c.timer.compare - c.timer.count \in Nat
    BY <1>4, <2>3
  <2>5. e \in Event({t}) /\ e \in Event(Owners)
    BY <1>2, <2>4 DEF Event, Schedulers
  <2>6. sc \in Schedulers /\ QueueStep(m.sched, sc, t)
    <3>1. sc \in Schedulers
      BY <1>2, <2>5 DEF Schedulers
    <3>2. e.id = m.sched.nextId /\ sc.nextId = m.sched.nextId + 1
          /\ sc.events \subseteq m.sched.events \cup {e}
      BY <1>1
    <3> QED BY <2>5, <3>1, <3>2 DEF QueueStep
  <2>7. Tracks(e, tm, now)
    <3>1. e.cycle - now = c.timer.compare - c.timer.count
      BY <2>3
    <3> HIDE DEF tm
    <3> QED BY <1>4, <2>1, <3>1 DEF Tracks, SameButEvent, TimerRunning
  <2>8. TimerRunning(tm) /\ tm.attached => tm.last = now
    BY <2>2 DEF SameButEvent, TimerRunning
  <2>9. r.timer = tm /\ r.sched = sc /\ r \in Machines
    BY <1>3, <1>4, <2>1, <2>6 DEF Machines
  <2>10. \A f \in sc.events : f.owner = t => f = e
    BY <1>1
  <2> HIDE DEF tm, sc, e
  <2> QED BY <2>2, <2>6, <2>7, <2>8, <2>9, <2>10 DEF GoodTimer, r
<1>5. CASE ~due
  <2>1. r = c
    BY <1>3, <1>5
  <2>2. QueueStep(m.sched, c.sched, t)
    BY <1>1, <1>2 DEF QueueStep
  <2>3. GoodTimer(t, c, now)
    BY <1>1 DEF GoodTimer, SameButEvent, TimerRunning
  <2> QED BY <1>1, <2>1, <2>2, <2>3 DEF r
<1> QED BY <1>4, <1>5

\* What holds of the machine r that a function of timer t returns for m.
Called(t, m, r, now) ==
  r \in Machines /\ GoodTimer(t, r, now) /\ QueueStep(m.sched, r.sched, t)

\* A timer that only changes in ways its event does not depend on.
LEMMA TimerOnly ==
  ASSUME NEW t, NEW m \in Machines, NEW now, GoodTimer(t, m, now), NEW tm \in TimerState,
         tm.eventId = m.timer.eventId, TimerRunning(tm) <=> TimerRunning(m.timer),
         tm.attached = m.timer.attached, tm.count = m.timer.count,
         tm.compare = m.timer.compare, tm.last = m.timer.last
  PROVE  Called(t, m, [m EXCEPT !.timer = tm], now)
<1> DEFINE r == [m EXCEPT !.timer = tm]
<1>1. r \in Machines /\ r.timer = tm /\ r.sched = m.sched /\ m.sched \in Schedulers
  BY DEF Machines
<1> HIDE DEF r
<1>2. GoodTimer(t, r, now)
  BY <1>1 DEF GoodTimer, Tracks
<1>3. QueueStep(m.sched, r.sched, t)
  BY <1>1 DEF QueueStep
<1> QED BY <1>1, <1>2, <1>3 DEF Called, r

\* A function that cancels the timer's event and leaves the timer stopped or
\* detached.
LEMMA CancelGood ==
  ASSUME NEW t, NEW m \in Machines, NEW now, GoodTimer(t, m, now), NEW tm \in TimerState,
         tm.eventId = m.timer.eventId, tm.attached = m.timer.attached
  PROVE  LET c == CancelScheduledEvent([m EXCEPT !.timer = tm])
         IN /\ c \in Machines /\ SameButEvent(tm, c.timer)
            /\ QueueStep(m.sched, c.sched, t)
            /\ \A e \in c.sched.events : e.owner # t
<1> DEFINE n == [m EXCEPT !.timer = tm]
           c == CancelScheduledEvent(n)
<1>1. n \in Machines /\ n.timer = tm /\ n.sched = m.sched /\ m.sched \in Schedulers
  BY DEF Machines
<1> HIDE DEF n
<1>2. \A e \in n.sched.events : e.owner = t => e.id = n.timer.eventId /\ n.timer.attached
  BY <1>1 DEF GoodTimer, Tracks
<1>3. /\ c \in Machines
      /\ SameButEvent(n.timer, c.timer)
      /\ c.sched.nextId = n.sched.nextId
      /\ c.sched.events \subseteq n.sched.events
      /\ \A e \in c.sched.events : e.owner # t
  BY <1>1, <1>2, CancelRemoves
<1> HIDE DEF c
<1>4. QueueStep(m.sched, c.sched, t)
  BY <1>1, <1>3 DEF QueueStep, Machines
<1> QED BY <1>1, <1>3, <1>4 DEF c, n

LEMMA StopGood ==
  ASSUME NEW t, NEW m \in Machines, NEW now, GoodTimer(t, m, now)
  PROVE  LET r == TimerStop(m)
         IN /\ Called(t, m, r, now) /\ ~TimerRunning(r.timer)
            /\ r.timer.match = m.timer.match /\ r.timer.attached = m.timer.attached
            /\ r.timer.count = m.timer.count /\ r.timer.compare = m.timer.compare
            /\ \A e \in r.sched.events : e.owner # t
<1> DEFINE tm == [m.timer EXCEPT !.ctrl = @ \ {ENABLE}]
           r == TimerStop(m)
<1>1. m.timer \in TimerState
  BY DEF Machines
<1>2. /\ tm \in TimerState /\ tm.eventId = m.timer.eventId /\ tm.attached = m.timer.attached
      /\ tm.ctrl = m.timer.ctrl \ {ENABLE} /\ tm.match = m.timer.match
      /\ tm.count = m.timer.count /\ tm.compare = m.timer.compare
  BY <1>1 DEF TimerState
<1>3. r = CancelScheduledEvent([m EXCEPT !.timer = tm])
  BY DEF TimerStop
<1> HIDE DEF tm, r
<1>4. /\ r \in Machines /\ SameButEvent(tm, r.timer) /\ QueueStep(m.sched, r.sched, t)
      /\ \A e \in r.sched.events : e.owner # t
  BY <1>2, <1>3, CancelGood
<1>5. /\ ~TimerRunning(r.timer) /\ r.timer.match = m.timer.match
      /\ r.timer.attached = m.timer.attached
      /\ r.timer.count = m.timer.count /\ r.timer.compare = m.timer.compare
  BY <1>2, <1>4 DEF SameButEvent, TimerRunning
<1>6. GoodTimer(t, r, now)
  BY <1>4, <1>5 DEF GoodTimer
<1> QED BY <1>4, <1>5, <1>6 DEF Called, r

LEMMA StartGood ==
  ASSUME NEW t \in Owners, NEW m \in Machines, NEW now \in Nat, GoodTimer(t, m, now)
  PROVE  LET r == TimerStart(m, t, now)
         IN Called(t, m, r, now) /\ r.timer.match = m.timer.match
<1> DEFINE tm == SyncLast([m.timer EXCEPT !.ctrl = @ \cup {ENABLE}], now)
           n == [m EXCEPT !.timer = tm]
           r == TimerStart(m, t, now)
<1>1. m.timer \in TimerState
  BY DEF Machines
<1>2. /\ tm \in TimerState /\ tm.eventId = m.timer.eventId /\ tm.attached = m.timer.attached
      /\ tm.match = m.timer.match /\ (tm.attached => tm.last = now)
  BY <1>1 DEF TimerState, SyncLast, CtrlBits
<1>3. r = UpdateScheduledEvent(n, t, now)
  BY DEF TimerStart
<1> HIDE DEF tm, r
<1>4. n \in Machines /\ n.timer = tm /\ n.sched = m.sched
  BY <1>2 DEF Machines
<1> HIDE DEF n
<1>5. \A e \in n.sched.events : e.owner = t => e.id = n.timer.eventId /\ n.timer.attached
  BY <1>2, <1>4 DEF GoodTimer, Tracks
<1>6. TimerRunning(n.timer) /\ n.timer.attached => n.timer.last = now
  BY <1>2, <1>4
<1>7. r \in Machines /\ GoodTimer(t, r, now) /\ SameButEvent(n.timer, r.timer)
      /\ QueueStep(n.sched, r.sched, t)
  BY <1>3, <1>4, <1>5, <1>6, UpdateGood
<1> QED BY <1>2, <1>4, <1>7 DEF Called, SameButEvent, r

LEMMA SetCompareGood ==
  ASSUME NEW t \in Owners, NEW m \in Machines, NEW now \in Nat, GoodTimer(t, m, now),
         NEW v \in Counts
  PROVE  LET r == SetCompare(m, t, now, v)
         IN Called(t, m, r, now) /\ r.timer.match = m.timer.match
<1> DEFINE tm == [m.timer EXCEPT !.compare = v]
           n == [m EXCEPT !.timer = tm]
           r == SetCompare(m, t, now, v)
<1>1. m.timer \in TimerState
  BY DEF Machines
<1>2. /\ tm \in TimerState /\ tm.eventId = m.timer.eventId /\ tm.attached = m.timer.attached
      /\ tm.match = m.timer.match /\ tm.ctrl = m.timer.ctrl /\ tm.last = m.timer.last
  BY <1>1 DEF TimerState
<1>3. r = UpdateScheduledEvent(n, t, now)
  <2>1. [m EXCEPT !.timer.compare = v] = n
    BY <1>1 DEF Machines
  <2> QED BY <2>1 DEF SetCompare
<1> HIDE DEF tm, r
<1>4. n \in Machines /\ n.timer = tm /\ n.sched = m.sched
  BY <1>2 DEF Machines
<1> HIDE DEF n
<1>5. \A e \in n.sched.events : e.owner = t => e.id = n.timer.eventId /\ n.timer.attached
  BY <1>2, <1>4 DEF GoodTimer, Tracks
<1>6. TimerRunning(n.timer) /\ n.timer.attached => n.timer.last = now
  BY <1>2, <1>4 DEF GoodTimer, TimerRunning
<1>7. r \in Machines /\ GoodTimer(t, r, now) /\ SameButEvent(n.timer, r.timer)
      /\ QueueStep(n.sched, r.sched, t)
  BY <1>3, <1>4, <1>5, <1>6, UpdateGood
<1> QED BY <1>2, <1>4, <1>7 DEF Called, SameButEvent, r

\* The bus attaches only a timer that is detached, and that one has no event.
LEMMA AttachGood ==
  ASSUME NEW t \in Owners, NEW m \in Machines, NEW now \in Nat, GoodTimer(t, m, now),
         ~m.timer.attached
  PROVE  LET r == TimerAttach(m, t, now)
         IN Called(t, m, r, now) /\ r.timer.match = m.timer.match
<1> DEFINE tm == [m.timer EXCEPT !.attached = TRUE, !.last = now]
           n == [m EXCEPT !.timer = tm]
           r == TimerAttach(m, t, now)
<1>1. m.timer \in TimerState
  BY DEF Machines
<1>2. tm \in TimerState /\ tm.match = m.timer.match /\ tm.last = now
  BY <1>1 DEF TimerState
<1>3. [m EXCEPT !.timer.attached = TRUE, !.timer.last = now] = n
  BY <1>1 DEF Machines
<1>4. r = UpdateScheduledEvent(n, t, now)
  BY <1>3 DEF TimerAttach
<1> HIDE DEF tm, r
<1>5. n \in Machines /\ n.timer = tm /\ n.sched = m.sched
  BY <1>2 DEF Machines
<1> HIDE DEF n
<1>6. \A e \in n.sched.events : e.owner = t => e.id = n.timer.eventId /\ n.timer.attached
  BY <1>5 DEF GoodTimer, Tracks
<1>7. r \in Machines /\ GoodTimer(t, r, now) /\ SameButEvent(n.timer, r.timer)
      /\ QueueStep(n.sched, r.sched, t)
  BY <1>2, <1>4, <1>5, <1>6, UpdateGood
<1> QED BY <1>2, <1>5, <1>7 DEF Called, SameButEvent, r

LEMMA DetachGood ==
  ASSUME NEW t, NEW m \in Machines, NEW now, GoodTimer(t, m, now)
  PROVE  LET r == TimerDetach(m)
         IN Called(t, m, r, now) /\ r.timer.match = m.timer.match
<1> DEFINE tm == [m.timer EXCEPT !.last = 0]
           c == CancelScheduledEvent([m EXCEPT !.timer = tm])
           r == TimerDetach(m)
<1>1. m.timer \in TimerState
  BY DEF Machines
<1>2. /\ tm \in TimerState /\ tm.eventId = m.timer.eventId /\ tm.attached = m.timer.attached
      /\ tm.match = m.timer.match
  BY <1>1 DEF TimerState
<1>3. r = [c EXCEPT !.timer.attached = FALSE]
  BY DEF TimerDetach
<1> HIDE DEF tm, r
<1>4. /\ c \in Machines /\ SameButEvent(tm, c.timer) /\ QueueStep(m.sched, c.sched, t)
      /\ \A e \in c.sched.events : e.owner # t
  BY <1>2, CancelGood
<1> HIDE DEF c
<1>5. /\ r \in Machines /\ r.sched = c.sched /\ ~r.timer.attached
      /\ r.timer.match = c.timer.match
  BY <1>3, <1>4 DEF Machines, TimerState
<1> QED BY <1>2, <1>4, <1>5 DEF Called, GoodTimer, SameButEvent, r

LEMMA ResetGood ==
  ASSUME NEW t, NEW m \in Machines, NEW now \in Nat, GoodTimer(t, m, now)
  PROVE  LET r == TimerReset(m, now)
         IN /\ Called(t, m, r, now)
            /\ ~TimerRunning(r.timer) /\ r.timer.match = FALSE
<1> DEFINE c == TimerStop(m)
           tm == SyncLast([c.timer EXCEPT !.ctrl = {}, !.count = 0, !.match = FALSE], now)
           r == TimerReset(m, now)
<1>1. Called(t, m, c, now) /\ \A e \in c.sched.events : e.owner # t
  BY StopGood
<1>2. r = [c EXCEPT !.timer = tm]
  BY DEF TimerReset
<1> HIDE DEF c, r
<1>3. c.timer \in TimerState /\ c \in Machines
  BY <1>1 DEF Called, Machines
<1>4. tm \in TimerState /\ tm.ctrl = {} /\ tm.match = FALSE
  <2>1. 0 \in Counts
    BY CountAssumption DEF Counts
  <2> QED BY <1>3, <2>1 DEF TimerState, SyncLast
<1> HIDE DEF tm
<1>5. r \in Machines /\ r.sched = c.sched /\ r.timer = tm
  BY <1>2, <1>3, <1>4 DEF Machines
<1> QED BY <1>1, <1>4, <1>5 DEF Called, GoodTimer, TimerRunning, r

\* A match stops the timer, and nothing else of it sets the match bit.
LEMMA MatchGood ==
  ASSUME NEW t, NEW m \in Machines, NEW now, GoodTimer(t, m, now)
  PROVE  LET r == HandleCompareMatch(m)
         IN /\ Called(t, m, r, now)
            /\ r.timer.match /\ ~m.timer.match => TimerRunning(m.timer)
            /\ ~TimerRunning(r.timer)
<1> DEFINE tm == [m.timer EXCEPT !.count = m.timer.compare, !.match = TRUE,
                                 !.ctrl = @ \ {ENABLE}]
           r == HandleCompareMatch(m)
<1>1. m.timer \in TimerState /\ m.sched \in Schedulers
  BY DEF Machines
<1>2. CASE TimerRunning(m.timer)
  <2>1. /\ tm \in TimerState /\ tm.eventId = m.timer.eventId
        /\ tm.attached = m.timer.attached /\ tm.ctrl = m.timer.ctrl \ {ENABLE}
    BY <1>1 DEF TimerState
  <2>2. [[m EXCEPT !.timer.count = m.timer.compare, !.timer.match = TRUE]
           EXCEPT !.timer.ctrl = @ \ {ENABLE}] = [m EXCEPT !.timer = tm]
    BY <1>1 DEF Machines, TimerState
  <2>3. r = CancelScheduledEvent([m EXCEPT !.timer = tm])
    BY <1>2, <2>2 DEF HandleCompareMatch, TimerStop
  <2> HIDE DEF tm, r
  <2>4. /\ r \in Machines /\ SameButEvent(tm, r.timer) /\ QueueStep(m.sched, r.sched, t)
        /\ \A e \in r.sched.events : e.owner # t
    BY <2>1, <2>3, CancelGood
  <2>5. ~TimerRunning(r.timer)
    BY <2>1, <2>4 DEF SameButEvent, TimerRunning
  <2> QED BY <1>2, <2>4, <2>5 DEF Called, GoodTimer, r
<1>3. CASE ~TimerRunning(m.timer)
  <2>1. r = m
    BY <1>3 DEF HandleCompareMatch
  <2> HIDE DEF r
  <2> QED BY <1>1, <1>3, <2>1 DEF Called, QueueStep, r
<1> QED BY <1>2, <1>3

\* A tick of a timer that is not on the bus counts, and may find the match.
LEMMA TickGood ==
  ASSUME NEW t, NEW m \in Machines, NEW now \in Nat, GoodTimer(t, m, now),
         ~m.timer.attached
  PROVE  LET r == TimerTick(m, now)
         IN /\ Called(t, m, r, now)
            /\ r.timer.match /\ ~m.timer.match
                 => MatchesOnTick(m.timer, now) /\ ~TimerRunning(r.timer)
<1> DEFINE tm == Counted(m.timer, now)
           c == [m EXCEPT !.timer = tm]
           r == TimerTick(m, now)
<1>1. m.timer \in TimerState /\ m.sched \in Schedulers
  BY DEF Machines
<1>2. m.timer.count \in Nat /\ (m.timer.count + 1) % CountRange \in Counts
  BY <1>1, CountAssumption DEF TimerState, Counts
<1>3. /\ tm \in TimerState /\ tm.match = m.timer.match /\ ~tm.attached
  BY <1>1, <1>2 DEF Counted, SyncLast, Elapsed, TimerState
<1>4. r = IF MatchesOnTick(m.timer, now) THEN HandleCompareMatch(c) ELSE c
  BY DEF TimerTick
<1> HIDE DEF tm, r
<1>5. c \in Machines /\ c.timer = tm /\ c.sched = m.sched
  BY <1>3 DEF Machines
<1> HIDE DEF c
<1>6. GoodTimer(t, c, now)
  BY <1>3, <1>5 DEF GoodTimer, Tracks
<1>7. CASE MatchesOnTick(m.timer, now)
  BY <1>3, <1>4, <1>5, <1>6, <1>7, MatchGood DEF Called, r
<1>8. CASE ~MatchesOnTick(m.timer, now)
  BY <1>1, <1>3, <1>4, <1>5, <1>6, <1>8 DEF Called, QueueStep, r
<1> QED BY <1>7, <1>8

-----------------------------------------------------------------------------
(***************************************************************************)
(* The inductive invariant.                                                *)
(***************************************************************************)

\* Ids that have been handed out are never handed out again.
IdsBelowNext == \A e \in Waiting : e.id < sched.nextId

TimersGood == \A t \in Timers : GoodTimer(t, Machine(t), clock)

\* What was in the queue when the batch was taken is due after all of it.
BatchFirst == \A e \in ready, f \in sched.events : f.id < batchFrom => e.cycle < f.cycle

EventsGood == sched \in Schedulers /\ NoEventTwice /\ IdsBelowNext /\ BatchFirst

IInv == TypeOK /\ EventsGood /\ TimersGood

\* What is true of the events one by one.
LEMMA EventByEvent ==
  ASSUME IInv
  PROVE  /\ \A e \in Waiting : e.id \in Nat \ {0} /\ e.cycle \in Nat /\ e.owner \in Owners
         /\ \A e, f \in Waiting : e.id = f.id => e = f
         /\ \A e \in Waiting : e.id \notin fired /\ e.id \notin revoked
         /\ \A e \in sched.events, f \in ready : e.id # f.id
         /\ \A e \in Waiting : e.id < sched.nextId
         /\ fired \cap revoked = {}
         /\ sched.nextId \in Nat \ {0}
         /\ \A i \in fired \cup revoked : i \in Nat /\ i < sched.nextId
         /\ sched.events \subseteq Waiting /\ ready \subseteq Waiting
<1>1. sched.nextId \in Nat \ {0} /\ \A i \in fired \cup revoked : i \in 1 .. sched.nextId - 1
  BY DEF IInv, TypeOK
<1>2. \A e \in Waiting : e \in Event(Owners)
  BY DEF IInv, TypeOK, Waiting, Owners
<1>3. \A e \in Waiting : e.id \in Nat \ {0} /\ e.cycle \in Nat /\ e.owner \in Owners
  BY <1>2 DEF Event
<1>4. /\ \A e, f \in Waiting : e.id = f.id => e = f
      /\ \A e \in Waiting : e.id \notin fired /\ e.id \notin revoked
      /\ \A e \in sched.events, f \in ready : e.id # f.id
      /\ fired \cap revoked = {}
  BY DEF IInv, EventsGood, NoEventTwice, PendingIds, Waiting
<1>5. /\ \A e \in Waiting : e.id < sched.nextId
      /\ sched.events \subseteq Waiting /\ ready \subseteq Waiting
  BY DEF IInv, EventsGood, IdsBelowNext, Waiting
<1> QED BY <1>1, <1>3, <1>4, <1>5

\* A step that changes the queue as its functions do, and takes events out of
\* the batch only to run them or to lose them.
LEMMA QueueKeeps ==
  ASSUME IInv, NEW o \in Owners, QueueStep(sched, sched', o),
         revoked' = revoked \cup (PendingIds(sched) \ PendingIds(sched')),
         ready' \subseteq ready, fired \subseteq fired',
         \A i \in fired' \ fired : \E e \in ready \ ready' : e.id = i,
         batchFrom' = batchFrom
  PROVE  /\ EventsGood'
         /\ sched'.events \subseteq Event(Owners) /\ sched'.nextId \in Nat \ {0}
         /\ ready' \subseteq Event(Owners)
         /\ fired' \cup revoked' \subseteq 1 .. sched'.nextId - 1
         /\ batchFrom' \in 1 .. sched'.nextId
         /\ \A e \in sched'.events : e.owner # o => e \in sched.events
<1> DEFINE Fresh(new) == /\ sched'.events \subseteq sched.events \cup new
                         /\ \A e \in new : /\ e.id = sched.nextId
                                           /\ sched'.nextId = sched.nextId + 1
                         /\ \A e, f \in new : e = f
<1>1. PICK new \in SUBSET Event({o}) : Fresh(new)
  <2>1. CASE sched'.events \subseteq sched.events
    <3>1. Fresh({}) /\ {} \in SUBSET Event({o})
      BY <2>1
    <3> HIDE DEF Fresh
    <3> QED BY <3>1
  <2>2. CASE ~(sched'.events \subseteq sched.events)
    <3>1. PICK e \in Event({o}) : /\ e.id = sched.nextId
                                  /\ sched'.events \subseteq sched.events \cup {e}
                                  /\ sched'.nextId = sched.nextId + 1
      BY <2>2 DEF QueueStep
    <3>2. Fresh({e}) /\ {e} \in SUBSET Event({o})
      BY <3>1
    <3> HIDE DEF Fresh
    <3> QED BY <3>2
  <2> QED BY <2>1, <2>2
<1>2. /\ sched' \in Schedulers /\ sched.nextId \in Nat \ {0}
      /\ sched'.nextId \in Nat \ {0} /\ sched.nextId <= sched'.nextId
  BY EventByEvent DEF QueueStep, Schedulers
<1>3. /\ sched'.events \subseteq Event(Owners) /\ ready' \subseteq Event(Owners)
  BY <1>2 DEF Schedulers, IInv, TypeOK, Owners
<1>4. \A e \in sched'.events : e \in sched.events \/ e \in new
  BY <1>1
<1>5. \A e \in new : e.owner = o
  BY DEF Event
<1>6. \A e \in Waiting' : e \in Waiting \/ e \in new
  BY <1>4 DEF Waiting
<1>7. \A e \in new : /\ \A f \in Waiting : e.id # f.id
                     /\ e.id \notin fired /\ e.id \notin revoked
                     /\ e.id < sched'.nextId
  BY <1>1, <1>2, EventByEvent
<1>8. \A i \in fired' : i \in fired \/ \E e \in ready \ ready' : e.id = i
  OBVIOUS
<1>9. \A i \in revoked' : i \in revoked \/ (i \in PendingIds(sched) /\ i \notin PendingIds(sched'))
  OBVIOUS
<1>10. IdsBelowNext'
  <2> SUFFICES ASSUME NEW e \in Waiting' PROVE e.id < sched'.nextId
    BY DEF IdsBelowNext
  <2> QED BY <1>2, <1>6, <1>7, EventByEvent
<1>11. NoEventTwice'
  <2>1. ASSUME NEW e \in Waiting', NEW f \in Waiting', e.id = f.id PROVE e = f
    BY <1>1, <1>6, <1>7, <2>1, EventByEvent
  <2>2. ASSUME NEW e \in Waiting' PROVE e.id \notin fired'
    <3>1. CASE e \in new
      BY <1>7, <1>8, <3>1, EventByEvent
    <3>2. CASE e \in Waiting /\ e \notin new
      <4>1. e \in sched.events \/ e \in ready'
        BY <1>4, <3>2 DEF Waiting
      <4> QED BY <1>8, <3>2, <4>1, EventByEvent
    <3> QED BY <1>6, <3>1, <3>2
  <2>3. ASSUME NEW e \in Waiting' PROVE e.id \notin revoked'
    <3>1. \A f \in sched.events : f.id = e.id => e = f \/ e \in new
      BY <1>6, EventByEvent
    <3>2. CASE e \in sched'.events
      <4>1. e.id \in PendingIds(sched')
        BY <3>2 DEF PendingIds
      <4>2. e.id \notin revoked
        BY <1>4, <1>7, <3>2, EventByEvent
      <4> QED BY <1>9, <4>1, <4>2
    <3>3. CASE e \in ready'
      <4>1. e.id \notin revoked /\ \A f \in sched.events : f.id # e.id
        BY <3>3, EventByEvent
      <4>2. e.id \notin PendingIds(sched)
        BY <4>1 DEF PendingIds
      <4> QED BY <1>9, <4>1, <4>2
    <3> QED BY <3>2, <3>3 DEF Waiting
  <2>4. ASSUME NEW e \in sched'.events, NEW f \in ready' PROVE e.id # f.id
    BY <1>4, <1>7, EventByEvent
  <2>5. ASSUME NEW i \in fired', i \in revoked' PROVE FALSE
    <3>1. CASE i \in revoked
      BY <1>8, <3>1, EventByEvent
    <3>2. CASE i \in PendingIds(sched)
      <4>1. PICK e \in sched.events : e.id = i
        BY <3>2 DEF PendingIds
      <4> QED BY <1>8, <4>1, EventByEvent
    <3> QED BY <1>9, <2>5, <3>1, <3>2
  <2> QED BY <2>1, <2>2, <2>3, <2>4, <2>5 DEF NoEventTwice, PendingIds
<1>12. BatchFirst'
  <2> SUFFICES ASSUME NEW e \in ready', NEW f \in sched'.events, f.id < batchFrom
               PROVE  e.cycle < f.cycle
    BY DEF BatchFirst
  <2>1. batchFrom \in Nat /\ batchFrom <= sched.nextId
    BY <1>2 DEF IInv, TypeOK
  <2>2. f \in sched.events
    BY <1>1, <1>2, <1>4, <2>1
  <2> QED BY <2>2 DEF IInv, EventsGood, BatchFirst
<1>13. fired' \cup revoked' \subseteq 1 .. sched'.nextId - 1
  <2>1. \A e \in Waiting : e.id \in 1 .. sched'.nextId - 1
    BY <1>2, EventByEvent
  <2>2. \A i \in fired \cup revoked : i \in 1 .. sched'.nextId - 1
    BY <1>2 DEF IInv, TypeOK
  <2>3. \A i \in PendingIds(sched) : \E e \in Waiting : e.id = i
    BY DEF PendingIds, Waiting
  <2> QED BY <1>8, <1>9, <2>1, <2>2, <2>3, EventByEvent
<1>14. batchFrom' \in 1 .. sched'.nextId
  BY <1>2 DEF IInv, TypeOK
<1> QED BY <1>2, <1>3, <1>4, <1>5, <1>10, <1>11, <1>12, <1>13, <1>14 DEF EventsGood

\* A call of timer t, by the program or by the loop of executeReadyEvents.
LEMMA CallKeeps ==
  ASSUME IInv, NEW t \in Timers, NEW m, Called(t, Machine(t), m, clock),
         timers' = [timers EXCEPT ![t] = m.timer], sched' = m.sched,
         revoked' = revoked \cup (PendingIds(sched) \ PendingIds(m.sched)),
         ready' \subseteq ready, fired \subseteq fired',
         \A i \in fired' \ fired : \E e \in ready \ ready' : e.id = i,
         UNCHANGED <<clock, lines, batchFrom>>,
         irq' \subseteq lines, phase' \in {"host", "batch", "callback"},
         phase' = "batch" => ready' # {}, phase' = "host" => ready' = {}
  PROVE  IInv'
<1>1. /\ m.timer \in TimerState /\ GoodTimer(t, m, clock) /\ QueueStep(sched, sched', t)
  BY DEF Called, Machines, Machine
<1>2. t \in Owners
  BY DEF Owners
<1>3. /\ EventsGood'
      /\ sched'.events \subseteq Event(Owners) /\ sched'.nextId \in Nat \ {0}
      /\ ready' \subseteq Event(Owners)
      /\ fired' \cup revoked' \subseteq 1 .. sched'.nextId - 1
      /\ batchFrom' \in 1 .. sched'.nextId
      /\ \A e \in sched'.events : e.owner # t => e \in sched.events
  BY <1>1, <1>2, QueueKeeps
<1>4. TypeOK'
  BY <1>1, <1>3 DEF IInv, TypeOK, Owners
<1>5. TimersGood'
  <2> SUFFICES ASSUME NEW u \in Timers PROVE GoodTimer(u, Machine(u)', clock)
    BY DEF TimersGood, GoodTimer, Machine
  <2>1. CASE u = t
    <3>1. Machine(u)'.timer = m.timer /\ Machine(u)'.sched = m.sched
      BY <2>1 DEF Machine, IInv, TypeOK
    <3> QED BY <1>1, <2>1, <3>1 DEF GoodTimer
  <2>2. CASE u # t
    <3>1. /\ Machine(u)'.timer = timers[u] /\ Machine(u)'.sched = sched'
          /\ Machine(u).timer = timers[u] /\ Machine(u).sched = sched
      BY <2>2 DEF Machine, IInv, TypeOK
    <3>2. GoodTimer(u, Machine(u), clock)
      BY DEF IInv, TimersGood
    <3> QED BY <1>3, <2>2, <3>1, <3>2 DEF GoodTimer
  <2> QED BY <2>1, <2>2
<1> QED BY <1>3, <1>4, <1>5 DEF IInv

\* A call of the program, which leaves the batch alone.
LEMMA ProgramCallKeeps ==
  ASSUME IInv, NEW t \in Timers, NEW m, Called(t, Machine(t), m, clock),
         MayCall, Becomes(t, m), irq' \subseteq lines
  PROVE  IInv'
<1>1. phase' \in {"host", "batch", "callback"} /\ (phase' = "batch" => ready' # {})
      /\ (phase' = "host" => ready' = {})
  BY DEF MayCall, Becomes, IInv, TypeOK
<1> QED BY <1>1, CallKeeps DEF Becomes

\* The machine of each timer, as the functions take it.
LEMMA MachineGood ==
  ASSUME IInv, NEW t \in Timers
  PROVE  /\ Machine(t) \in Machines /\ GoodTimer(t, Machine(t), clock)
         /\ Machine(t).timer = timers[t] /\ Machine(t).sched = sched
         /\ t \in Owners /\ clock \in Nat /\ timers[t] \in TimerState
         /\ irq \subseteq lines
BY TimerSystemAssumption
   DEF IInv, EventsGood, TypeOK, TimersGood, Machine, Machines, Owners

\* The functions that set or clear an option in CTRL.
LEMMA BitGood ==
  ASSUME IInv, NEW t \in Timers, NEW bit \in Options
  PROVE  /\ Called(t, Machine(t), [Machine(t) EXCEPT !.timer.ctrl = @ \cup {bit}], clock)
         /\ Called(t, Machine(t), [Machine(t) EXCEPT !.timer.ctrl = @ \ {bit}], clock)
<1> DEFINE m == Machine(t)
           b == [m.timer EXCEPT !.ctrl = @ \cup {bit}]
           c == [m.timer EXCEPT !.ctrl = @ \ {bit}]
<1>1. m \in Machines /\ GoodTimer(t, m, clock) /\ m.timer \in TimerState
  BY MachineGood
<1> HIDE DEF m
<1>2. /\ [m EXCEPT !.timer.ctrl = @ \cup {bit}] = [m EXCEPT !.timer = b]
      /\ [m EXCEPT !.timer.ctrl = @ \ {bit}] = [m EXCEPT !.timer = c]
  BY <1>1 DEF Machines
<1>3. bit \in CtrlBits /\ bit # ENABLE
  BY TimerSystemAssumption DEF CtrlBits, ENABLE, INT_ENABLE, AUTO_RESET
<1>4. Called(t, m, [m EXCEPT !.timer = b], clock)
  <2>1. /\ b \in TimerState /\ b.eventId = m.timer.eventId /\ b.ctrl = m.timer.ctrl \cup {bit}
        /\ b.attached = m.timer.attached /\ b.count = m.timer.count
        /\ b.compare = m.timer.compare /\ b.last = m.timer.last
    BY <1>1, <1>3 DEF TimerState
  <2> HIDE DEF b
  <2>2. TimerRunning(b) <=> TimerRunning(m.timer)
    BY <1>3, <2>1 DEF TimerRunning
  <2> QED BY <1>1, <2>1, <2>2, TimerOnly
<1>5. Called(t, m, [m EXCEPT !.timer = c], clock)
  <2>1. /\ c \in TimerState /\ c.eventId = m.timer.eventId /\ c.ctrl = m.timer.ctrl \ {bit}
        /\ c.attached = m.timer.attached /\ c.count = m.timer.count
        /\ c.compare = m.timer.compare /\ c.last = m.timer.last
    BY <1>1, <1>3 DEF TimerState
  <2> HIDE DEF c
  <2>2. TimerRunning(c) <=> TimerRunning(m.timer)
    BY <1>3, <2>1 DEF TimerRunning
  <2> QED BY <1>1, <2>1, <2>2, TimerOnly
<1> QED BY <1>2, <1>4, <1>5 DEF m

\* The calls of the program on a timer.
LEMMA TimerActionsKeep ==
  ASSUME IInv, NEW t \in Timers,
         \/ Start(t) \/ Stop(t) \/ Reset(t) \/ ClearMatch(t)
         \/ \E v \in Compares : WriteCompare(t, v)
         \/ \E b \in Options : SetCtrlBit(t, b) \/ ClearCtrlBit(t, b)
         \/ AttachTimer(t) \/ DetachTimer(t) \/ TickDirectly(t)
         \/ RegisterLine(t) \/ ClearIrq(t)
  PROVE  IInv'
<1>0. /\ Machine(t) \in Machines /\ GoodTimer(t, Machine(t), clock)
      /\ Machine(t).timer = timers[t] /\ t \in Owners /\ clock \in Nat /\ irq \subseteq lines
  BY MachineGood
<1>1. CASE Start(t)
  BY <1>0, <1>1, StartGood, ProgramCallKeeps DEF Start, TimerCall
<1>2. CASE Stop(t)
  BY <1>0, <1>2, StopGood, ProgramCallKeeps DEF Stop, TimerCall
<1>3. CASE Reset(t)
  BY <1>0, <1>3, ResetGood, ProgramCallKeeps DEF Reset, TimerCall
<1>4. CASE ClearMatch(t)
  <2>1. Called(t, Machine(t), [Machine(t) EXCEPT !.timer.match = FALSE], clock)
    <3>1. Machine(t).timer \in TimerState
      BY <1>0 DEF Machines
    <3> DEFINE m == Machine(t)
               a == [m.timer EXCEPT !.match = FALSE]
    <3>2. [m EXCEPT !.timer.match = FALSE] = [m EXCEPT !.timer = a]
      BY <1>0 DEF Machines
    <3>3. /\ a \in TimerState /\ a.eventId = m.timer.eventId /\ a.ctrl = m.timer.ctrl
          /\ a.attached = m.timer.attached /\ a.count = m.timer.count
          /\ a.compare = m.timer.compare /\ a.last = m.timer.last
      BY <3>1 DEF TimerState
    <3> HIDE DEF a, m
    <3>4. Called(t, m, [m EXCEPT !.timer = a], clock)
      BY <1>0, <3>3, TimerOnly DEF TimerRunning, m
    <3> QED BY <3>2, <3>4 DEF m
  <2> QED BY <1>0, <1>4, <2>1, ProgramCallKeeps DEF ClearMatch, TimerCall
<1>5. ASSUME NEW v \in Compares, WriteCompare(t, v) PROVE IInv'
  <2>1. v \in Counts
    BY TimerSystemAssumption
  <2> QED BY <1>0, <1>5, <2>1, SetCompareGood, ProgramCallKeeps DEF WriteCompare, TimerCall
<1>6. ASSUME NEW b \in Options, SetCtrlBit(t, b) PROVE IInv'
  BY <1>0, <1>6, BitGood, ProgramCallKeeps DEF SetCtrlBit, TimerCall
<1>7. ASSUME NEW b \in Options, ClearCtrlBit(t, b) PROVE IInv'
  BY <1>0, <1>7, BitGood, ProgramCallKeeps DEF ClearCtrlBit, TimerCall
<1>8. CASE AttachTimer(t)
  BY <1>0, <1>8, AttachGood, ProgramCallKeeps DEF AttachTimer, TimerCall
<1>9. CASE DetachTimer(t)
  BY <1>0, <1>9, DetachGood, ProgramCallKeeps DEF DetachTimer, TimerCall
<1>10. CASE TickDirectly(t)
  <2>1. irq' \subseteq lines
    BY <1>0, <1>10 DEF TickDirectly, Triggered
  <2> QED BY <1>0, <1>10, <2>1, TickGood, ProgramCallKeeps DEF TickDirectly
<1>11. CASE RegisterLine(t) \/ ClearIrq(t)
  <2>1. /\ UNCHANGED <<clock, timers, sched, phase, ready, fired, revoked, batchFrom>>
        /\ irq' \subseteq lines' /\ lines' \subseteq Timers
    BY <1>0, <1>11 DEF RegisterLine, ClearIrq, IInv, TypeOK
  <2>2. TypeOK'
    BY <2>1 DEF IInv, TypeOK
  <2>3. EventsGood'
    BY <2>1 DEF IInv, EventsGood, NoEventTwice, IdsBelowNext, BatchFirst, Waiting, PendingIds
  <2>4. TimersGood'
    BY <2>1 DEF IInv, TimersGood, Machine
  <2> QED BY <2>2, <2>3, <2>4 DEF IInv
<1> QED BY <1>1, <1>2, <1>3, <1>4, <1>5, <1>6, <1>7, <1>8, <1>9, <1>10, <1>11

\* The calls of the program on the queue.
LEMMA QueueActionsKeep ==
  ASSUME IInv,
         \/ \E n \in Leads : Schedule(n)
         \/ \E id \in 1 .. MaxEventId : Cancel(id)
         \/ Clear
  PROVE  IInv'
<1>0. /\ sched \in Schedulers /\ clock \in Nat /\ USER \in Owners /\ sched.nextId \in Nat \ {0}
      /\ sched.events \subseteq Event(Owners)
  BY TimerSystemAssumption DEF IInv, EventsGood, TypeOK, Owners, Schedulers
<1>1. ASSUME NEW s, Queue(s), QueueStep(sched, s, USER) PROVE IInv'
  <2>1. /\ sched' = s
        /\ revoked' = revoked \cup (PendingIds(sched) \ PendingIds(sched'))
        /\ UNCHANGED <<clock, timers, phase, ready, lines, irq, fired, batchFrom>>
    BY <1>1 DEF Queue
  <2>2. /\ EventsGood'
        /\ sched'.events \subseteq Event(Owners) /\ sched'.nextId \in Nat \ {0}
        /\ ready' \subseteq Event(Owners)
        /\ fired' \cup revoked' \subseteq 1 .. sched'.nextId - 1
        /\ batchFrom' \in 1 .. sched'.nextId
        /\ \A e \in sched'.events : e.owner # USER => e \in sched.events
    BY <1>0, <1>1, <2>1, QueueKeeps
  <2>3. TypeOK'
    BY <2>1, <2>2 DEF IInv, TypeOK, Owners
  <2>4. TimersGood'
    <3> SUFFICES ASSUME NEW u \in Timers PROVE GoodTimer(u, Machine(u)', clock)
      BY <2>1 DEF TimersGood, GoodTimer, Machine
    <3>1. /\ Machine(u)'.timer = timers[u] /\ Machine(u)'.sched = sched'
          /\ Machine(u).timer = timers[u] /\ Machine(u).sched = sched
          /\ u # USER
      BY <2>1, UserAssumption DEF Machine
    <3>2. GoodTimer(u, Machine(u), clock)
      BY DEF IInv, TimersGood
    <3> QED BY <2>2, <3>1, <3>2 DEF GoodTimer
  <2> QED BY <2>2, <2>3, <2>4 DEF IInv
<1>2. ASSUME NEW n \in Leads, Schedule(n) PROVE IInv'
  <2> DEFINE e == [id |-> sched.nextId, cycle |-> clock + n, owner |-> USER]
             s == ScheduleEvent(sched, clock + n, USER)
  <2>1. e \in Event({USER}) /\ e \in Event(Owners) /\ e.id = sched.nextId
    BY <1>0, TimerSystemAssumption DEF Event
  <2>2. s.events = sched.events \cup {e} /\ s.nextId = sched.nextId + 1
        /\ s = [events |-> s.events, nextId |-> s.nextId]
    BY DEF ScheduleEvent
  <2> HIDE DEF e, s
  <2>3. s \in Schedulers
    BY <1>0, <2>1, <2>2 DEF Schedulers
  <2>4. QueueStep(sched, s, USER)
    BY <2>1, <2>2, <2>3 DEF QueueStep
  <2> QED BY <1>1, <1>2, <2>4 DEF Schedule, s
<1>3. ASSUME NEW id \in 1 .. MaxEventId, Cancel(id) PROVE IInv'
  <2> DEFINE s == CancelEvent(sched, id)
  <2>1. s \in Schedulers /\ s.nextId = sched.nextId /\ s.events \subseteq sched.events
    BY <1>0 DEF CancelEvent, Schedulers
  <2> QED BY <1>1, <1>3, <2>1 DEF Cancel, QueueStep
<1>4. CASE Clear
  <2> DEFINE s == ClearEvents(sched)
  <2>1. s \in Schedulers /\ s.nextId = sched.nextId /\ s.events \subseteq sched.events
    BY <1>0 DEF ClearEvents, Schedulers
  <2> QED BY <1>1, <1>4, <2>1 DEF Clear, QueueStep
<1> QED BY <1>2, <1>3, <1>4

\* SystemBus::reset leaves no event, and no attached timer that runs.
LEMMA BusResetKeeps ==
  ASSUME IInv, BusReset
  PROVE  IInv'
<1> DEFINE s == ClearEvents(sched)
<1>1. /\ sched \in Schedulers /\ s \in Schedulers /\ s.nextId = sched.nextId /\ s.events = {}
      /\ USER \in Owners
  BY DEF ClearEvents, Schedulers, IInv, EventsGood, Owners
<1>2. /\ sched' = s /\ UNCHANGED <<phase, ready, fired, batchFrom>>
      /\ revoked' = revoked \cup (PendingIds(sched) \ PendingIds(sched'))
      /\ clock' = 0 /\ lines' = {} /\ irq' = {}
  BY <1>1 DEF BusReset, PendingIds
<1>3. QueueStep(sched, sched', USER)
  BY <1>1, <1>2 DEF QueueStep
<1>4. /\ EventsGood'
      /\ sched'.events \subseteq Event(Owners) /\ sched'.nextId \in Nat \ {0}
      /\ ready' \subseteq Event(Owners)
      /\ fired' \cup revoked' \subseteq 1 .. sched'.nextId - 1
      /\ batchFrom' \in 1 .. sched'.nextId
  BY <1>1, <1>2, <1>3, QueueKeeps
<1>5. ASSUME NEW t \in Timers
      PROVE  /\ timers'[t] \in TimerState
             /\ timers'[t].attached => ~TimerRunning(timers'[t])
  <2>1. Called(t, Machine(t), TimerReset(Machine(t), clock), clock)
        /\ ~TimerRunning(TimerReset(Machine(t), clock).timer)
    BY MachineGood, ResetGood
  <2> QED BY <2>1, MachineGood DEF BusReset, Called, Machines
<1>6. TypeOK'
  <2>1. timers' \in [Timers -> TimerState]
    BY <1>5 DEF BusReset
  <2>2. clock' \in 0 .. MaxClock
    BY <1>2, TimerSystemAssumption
  <2> QED BY <1>2, <1>4, <2>1, <2>2 DEF IInv, TypeOK, Owners
<1>7. TimersGood'
  <2> SUFFICES ASSUME NEW u \in Timers PROVE GoodTimer(u, Machine(u)', clock')
    BY DEF TimersGood, GoodTimer, Machine
  <2>1. Machine(u)'.timer = timers'[u] /\ Machine(u)'.sched.events = {}
    BY <1>1, <1>2 DEF Machine
  <2> QED BY <1>5, <2>1 DEF GoodTimer
<1> QED BY <1>4, <1>6, <1>7 DEF IInv

\* A counter that has not reached its limit does not wrap.
LEMMA NoWrap ==
  ASSUME NEW c \in Nat, c < CountRange
  PROVE  c % CountRange = c
BY CountAssumption

\* The tick of a timer on the bus in a step of the CPU.
LEMMA BusTick ==
  ASSUME IInv, NEW t \in Timers, timers[t].attached
  PROVE  LET tm == TimerTick(Machine(t), clock + 1).timer
         IN /\ tm \in TimerState
            /\ TimerRunning(tm) => tm.last = clock + 1
            /\ tm.match = timers[t].match
            /\ \A e \in sched.events : e.owner = t /\ e.cycle > clock + 1
                 => Tracks(e, tm, clock + 1)
<1> DEFINE um == timers[t]
           tm == Counted(um, clock + 1)
<1>1. /\ Machine(t) \in Machines /\ GoodTimer(t, Machine(t), clock)
      /\ Machine(t).timer = um /\ Machine(t).sched = sched
      /\ clock \in Nat /\ um \in TimerState
  BY MachineGood
<1>2. TimerTick(Machine(t), clock + 1).timer = tm
  BY <1>1 DEF TimerTick, MatchesOnTick, Machine
<1> HIDE DEF um
<1>3. um.count \in Nat /\ um.compare \in Nat /\ um.compare < CountRange /\ CountRange \in Nat \ {0}
  BY <1>1, CountAssumption DEF TimerState, Counts
<1>4. CASE TimerRunning(um)
  <2>1. um.last = clock
    BY <1>1, <1>4 DEF GoodTimer, um
  <2>2. Elapsed(um, clock + 1) = 1
    BY <1>1, <2>1 DEF Elapsed, um
  <2>3. (um.count + 1) % CountRange \in Counts
    BY <1>3 DEF Counts
  <2>4. /\ tm \in TimerState /\ tm.last = clock + 1 /\ tm.match = um.match
        /\ tm.count = (um.count + 1) % CountRange
        /\ tm.compare = um.compare /\ tm.ctrl = um.ctrl
        /\ tm.attached /\ tm.eventId = um.eventId
    <3> DEFINE k == (um.count + 1) % CountRange
               cm == [um EXCEPT !.count = k]
    <3>1. um.attached /\ clock + 1 \in Nat
      BY <1>1 DEF um
    <3>2. tm = SyncLast(cm, clock + 1)
      BY <1>4, <2>2 DEF Counted
    <3> HIDE DEF k, tm
    <3>3. k \in Counts
      BY <2>3 DEF k
    <3>4. tm = [cm EXCEPT !.last = clock + 1]
      BY <1>1, <3>1, <3>2, <3>3 DEF SyncLast, TimerState
    <3> QED BY <1>1, <3>1, <3>3, <3>4 DEF TimerState, k
  <2>5. ASSUME NEW e \in sched.events, e.owner = t, e.cycle > clock + 1
        PROVE  Tracks(e, tm, clock + 1)
    <3>1. Tracks(e, um, clock) /\ e.cycle \in Nat
      BY <1>1, <2>5, EventByEvent DEF GoodTimer, um
    <3>2. um.count + 1 < um.compare
      BY <1>1, <1>3, <2>5, <3>1 DEF Tracks
    <3>3. tm.count = um.count + 1
      BY <1>3, <2>4, <3>2, NoWrap
    <3>4. e.cycle - (clock + 1) = tm.compare - tm.count
      BY <1>1, <1>3, <2>4, <3>1, <3>3 DEF Tracks
    <3> QED BY <2>4, <3>1, <3>2, <3>3, <3>4 DEF Tracks, TimerRunning
  <2> HIDE DEF tm
  <2> QED BY <1>2, <2>4, <2>5 DEF um
<1>5. CASE ~TimerRunning(um)
  <2>1. tm \in TimerState /\ tm.match = um.match /\ tm.ctrl = um.ctrl
    BY <1>1, <1>5 DEF Counted, SyncLast, TimerState
  <2>2. \A e \in sched.events : e.owner # t
    BY <1>1, <1>5 DEF GoodTimer, Tracks
  <2> HIDE DEF tm
  <2> QED BY <1>2, <1>5, <2>1, <2>2 DEF TimerRunning, um
<1> QED BY <1>4, <1>5

\* A step of the CPU takes the ready events out of the queue.
LEMMA CpuStepKeeps ==
  ASSUME IInv, CpuStep
  PROVE  IInv'
<1>1. /\ ready = {} /\ clock' = clock + 1 /\ clock' \in 0 .. MaxClock /\ clock \in Nat
      /\ ready' = {e \in sched.events : e.cycle <= clock'}
      /\ UNCHANGED <<lines, irq, fired, revoked>> /\ batchFrom' = sched.nextId
      /\ sched \in Schedulers
  BY TimerSystemAssumption DEF CpuStep, IInv, EventsGood, TypeOK, ReadyEvents
<1>2. /\ sched' \in Schedulers /\ sched'.nextId = sched.nextId
      /\ sched'.events = sched.events \ ready'
  BY <1>1 DEF CpuStep, RemainingEvents, Schedulers
<1>3. Waiting' = Waiting /\ Waiting = sched.events
  BY <1>1, <1>2 DEF Waiting
<1>4. NoEventTwice'
  <2>1. /\ \A e, f \in Waiting' : e.id = f.id => e = f
        /\ \A e \in Waiting' : e.id \notin fired' \cup revoked'
        /\ \A e \in sched'.events, f \in ready' : e.id # f.id
        /\ fired' \cap revoked' = {}
    BY <1>1, <1>2, <1>3, EventByEvent
  <2> QED BY <2>1 DEF NoEventTwice, PendingIds
<1>5. IdsBelowNext'
  BY <1>2, <1>3, EventByEvent DEF IdsBelowNext
<1>6. BatchFirst'
  <2> SUFFICES ASSUME NEW e \in ready', NEW f \in sched'.events PROVE e.cycle < f.cycle
    BY DEF BatchFirst
  <2>1. e \in Waiting /\ f \in Waiting /\ e.cycle <= clock' /\ ~(f.cycle <= clock')
    BY <1>1, <1>2, <1>3
  <2> QED BY <1>1, <2>1, EventByEvent
<1>7. \A t \in Timers : timers'[t] \in TimerState
  BY BusTick, MachineGood, <1>1 DEF CpuStep
<1>8. TypeOK'
  <2>1. timers' \in [Timers -> TimerState]
    BY <1>7 DEF CpuStep
  <2>2. /\ sched'.events \subseteq Event(Owners) /\ sched'.nextId \in Nat \ {0}
        /\ ready' \subseteq Event(Owners)
    BY <1>1, <1>2 DEF Schedulers
  <2>3. /\ phase' \in {"host", "batch", "callback"}
        /\ phase' = "batch" => ready' # {}
        /\ phase' = "host" => ready' = {}
    BY DEF CpuStep
  <2>4. batchFrom' \in 1 .. sched'.nextId
    BY <1>1, <1>2, <2>2
  <2> QED BY <1>1, <1>2, <2>1, <2>2, <2>3, <2>4 DEF IInv, TypeOK, Owners
<1>9. TimersGood'
  <2> SUFFICES ASSUME NEW u \in Timers PROVE GoodTimer(u, Machine(u)', clock')
    BY DEF TimersGood, GoodTimer, Machine
  <2>1. Machine(u)'.timer = timers'[u] /\ Machine(u)'.sched = sched'
    BY DEF Machine
  <2>2. \A e \in sched'.events : e \in sched.events /\ e.cycle > clock + 1
    BY <1>1, <1>2, <1>3, EventByEvent
  <2>3. CASE timers[u].attached
    <3>1. timers'[u] = TimerTick(Machine(u), clock + 1).timer
      BY <1>1, <2>3 DEF CpuStep
    <3> QED BY <1>1, <2>1, <2>2, <2>3, <3>1, BusTick DEF GoodTimer
  <2>4. CASE ~timers[u].attached
    <3>1. timers'[u] = timers[u]
      BY <2>4 DEF CpuStep
    <3>2. \A e \in sched.events : e.owner # u
      BY <2>4, MachineGood DEF GoodTimer, Tracks
    <3> QED BY <2>1, <2>2, <2>4, <3>1, <3>2 DEF GoodTimer
  <2> QED BY <2>3, <2>4
<1> QED BY <1>2, <1>4, <1>5, <1>6, <1>8, <1>9 DEF IInv, EventsGood

\* The batch has a first event: an earliest cycle, and a least id in it.
LEMMA FirstReadyExists ==
  ASSUME IInv, ready # {}
  PROVE  /\ FirstReady(ready) \in ready
         /\ \A f \in ready \ {FirstReady(ready)} : Before(FirstReady(ready), f)
<1>1. /\ \A e \in ready : e.id \in Nat /\ e.cycle \in Nat
      /\ \A e, f \in ready : e.id = f.id => e = f
  BY EventByEvent
<1> DEFINE C == {e.cycle : e \in ready}
<1>2. C \in SUBSET Nat /\ C # {}
  BY <1>1
<1>3. PICK c \in C : \A d \in C : c <= d
  <2> HIDE DEF C
  <2> QED BY <1>2, LeastNat
<1> DEFINE I == {e.id : e \in {f \in ready : f.cycle = c}}
<1>4. I \in SUBSET Nat /\ I # {}
  BY <1>1
<1>5. PICK i \in I : \A j \in I : i <= j
  <2> HIDE DEF I
  <2> QED BY <1>4, LeastNat
<1>6. PICK e \in ready : e.cycle = c /\ e.id = i
  OBVIOUS
<1>7. \A f \in ready : f.cycle \in C /\ (f.cycle = c => f.id \in I)
  OBVIOUS
<1> HIDE DEF C, I
<1>8. \A f \in ready \ {e} : Before(e, f)
  <2> SUFFICES ASSUME NEW f \in ready \ {e} PROVE Before(e, f)
    OBVIOUS
  <2>1. f.id # e.id /\ e.cycle <= f.cycle /\ (f.cycle = e.cycle => e.id <= f.id)
    BY <1>1, <1>3, <1>5, <1>6, <1>7
  <2> QED BY <1>1, <2>1 DEF Before
<1> QED BY <1>8 DEF FirstReady

\* The loop of executeReadyEvents and the callbacks.
LEMMA BatchKeeps ==
  ASSUME IInv, RunTimerEvent \/ RunUserEvent \/ UserReturns \/ UserThrows
  PROVE  IInv'
<1>1. CASE RunTimerEvent
  <2> DEFINE e == FirstReady(ready)
             t == e.owner
             m == HandleCompareMatch(Machine(t))
  <2>1. ready # {}
    BY <1>1 DEF RunTimerEvent, IInv, TypeOK
  <2>2. e \in ready
    BY <2>1, FirstReadyExists
  <2>3. /\ t \in Timers
        /\ timers' = [timers EXCEPT ![t] = m.timer]
        /\ sched' = m.sched
        /\ revoked' = revoked \cup (PendingIds(sched) \ PendingIds(m.sched))
        /\ irq' = IF TimerRunning(timers[t]) THEN Triggered(t) ELSE irq
        /\ ready' = ready \ {e}
        /\ fired' = fired \cup {e.id}
        /\ phase' = Loop(ready')
        /\ UNCHANGED <<clock, lines, batchFrom>>
    BY <1>1 DEF RunTimerEvent
  <2> HIDE DEF e, m
  <2>4. Called(t, Machine(t), m, clock)
    BY <2>3, MachineGood, MatchGood DEF m
  <2>5. irq' \subseteq lines
    BY <2>3, MachineGood DEF Triggered
  <2>6. /\ phase' \in {"host", "batch", "callback"}
        /\ phase' = "batch" => ready' # {}
        /\ phase' = "host" => ready' = {}
    BY <2>3 DEF Loop
  <2>7. ready' \subseteq ready /\ fired \subseteq fired'
    BY <2>3
  <2>8. \A i \in fired' \ fired : \E f \in ready \ ready' : f.id = i
    BY <2>2, <2>3
  <2> HIDE DEF t
  <2> QED BY <2>3, <2>4, <2>5, <2>6, <2>7, <2>8, CallKeeps
<1>2. CASE RunUserEvent \/ UserReturns \/ UserThrows
  <2>1. /\ UNCHANGED <<clock, timers, sched, lines, irq, revoked, batchFrom>>
        /\ ready' \subseteq ready /\ fired \subseteq fired'
        /\ \A i \in fired' \ fired : \E e \in ready \ ready' : e.id = i
        /\ phase' \in {"host", "batch", "callback"}
        /\ phase' = "batch" => ready' # {}
        /\ phase' = "host" => ready' = {}
    <3>1. CASE RunUserEvent
      <4>1. ready # {}
        BY <3>1 DEF RunUserEvent, IInv, TypeOK
      <4>2. FirstReady(ready) \in ready
        BY <4>1, FirstReadyExists
      <4> QED BY <3>1, <4>2 DEF RunUserEvent
    <3>2. CASE UserReturns
      BY <3>2 DEF UserReturns, Loop
    <3>3. CASE UserThrows
      BY <3>3 DEF UserThrows
    <3> QED BY <1>2, <3>1, <3>2, <3>3
  <2>2. /\ sched \in Schedulers /\ USER \in Owners
        /\ revoked' = revoked \cup (PendingIds(sched) \ PendingIds(sched'))
    BY <2>1 DEF IInv, EventsGood, Owners
  <2>3. QueueStep(sched, sched', USER)
    BY <2>1, <2>2 DEF QueueStep
  <2>4. /\ EventsGood'
        /\ sched'.events \subseteq Event(Owners) /\ sched'.nextId \in Nat \ {0}
        /\ ready' \subseteq Event(Owners)
        /\ fired' \cup revoked' \subseteq 1 .. sched'.nextId - 1
        /\ batchFrom' \in 1 .. sched'.nextId
    BY <2>1, <2>2, <2>3, QueueKeeps
  <2>5. TypeOK'
    BY <2>1, <2>4 DEF IInv, TypeOK, Owners
  <2>6. TimersGood'
    BY <2>1 DEF IInv, TimersGood, Machine
  <2> QED BY <2>4, <2>5, <2>6 DEF IInv
<1> QED BY <1>1, <1>2

THEOREM Inductive == Spec => []IInv
<1>1. Init => IInv
  <2> SUFFICES ASSUME Init PROVE IInv
    OBVIOUS
  <2>0. sched.events = {} /\ sched.nextId = 1 /\ sched = [events |-> {}, nextId |-> 1]
    BY DEF Init, NewEventScheduler
  <2>1. NewTimer \in TimerState
    <3>1. 0 \in Counts
      BY CountAssumption DEF Counts
    <3> QED BY <3>1 DEF NewTimer, TimerState, CtrlBits
  <2>2. TypeOK
    BY <2>0, <2>1, TimerSystemAssumption DEF Init, TypeOK
  <2>3. EventsGood
    BY <2>0 DEF Init, EventsGood, Schedulers, NoEventTwice, PendingIds, IdsBelowNext,
       BatchFirst, Waiting
  <2>4. TimersGood
    BY <2>0 DEF Init, TimersGood, GoodTimer, Machine, NewTimer, TimerRunning
  <2> QED BY <2>2, <2>3, <2>4 DEF IInv
<1>2. IInv /\ [Next]_vars => IInv'
  <2> SUFFICES ASSUME IInv, [Next]_vars PROVE IInv'
    OBVIOUS
  <2>1. CASE UNCHANGED vars
    BY <2>1 DEF vars, IInv, TypeOK, EventsGood, NoEventTwice, PendingIds, IdsBelowNext,
       BatchFirst, Waiting, TimersGood, Machine
  <2>2. CASE Next
    BY <2>2, TimerActionsKeep, QueueActionsKeep, BusResetKeeps, CpuStepKeeps, BatchKeeps
       DEF Next
  <2> QED BY <2>1, <2>2
<1> QED BY <1>1, <1>2, PTL DEF Spec

\* All variables keep their types.
THEOREM TypeCorrect == Spec => []TypeOK
<1>1. IInv => TypeOK
  BY DEF IInv
<1> QED BY <1>1, Inductive, PTL

\* Each event is waiting, run or revoked, never two of these.
THEOREM EventsRunOnce == Spec => []NoEventTwice
<1>1. IInv => NoEventTwice
  BY DEF IInv, EventsGood
<1> QED BY <1>1, Inductive, PTL

\* A timer has at most one event in the queue, and only while it runs on the
\* bus.
THEOREM AtMostOneEvent == Spec => []OneEventPerTimer
<1>1. IInv => OneEventPerTimer
  <2> SUFFICES ASSUME IInv, NEW t \in Timers, NEW e \in EventsOf(t)
               PROVE  /\ Cardinality(EventsOf(t)) = 1
                      /\ TimerRunning(timers[t]) /\ timers[t].attached
    BY DEF OneEventPerTimer
  <2>1. \A f \in EventsOf(t) : Tracks(f, timers[t], clock) /\ f \in Waiting
    BY MachineGood DEF GoodTimer, EventsOf, Waiting
  <2>2. EventsOf(t) = {e}
    BY <2>1, EventByEvent DEF Tracks
  <2>3. Cardinality({e}) = 1
    BY FS_Singleton
  <2> QED BY <2>1, <2>2, <2>3 DEF Tracks
<1> QED BY <1>1, Inductive, PTL

\* The event of a timer is due exactly when its counter reaches COMPARE.
THEOREM EventFollowsCounter == Spec => []EventTracksCounter
<1>1. IInv => EventTracksCounter
  BY MachineGood DEF EventTracksCounter, EventsOf, GoodTimer, Tracks
<1> QED BY <1>1, Inductive, PTL

\* No callback is entered before one that is due earlier and was there when
\* the batch was taken.
THEOREM RunsInOrder == Spec => NothingOvertaken
<1> DEFINE InOrder(e) == \A f \in sched.events \cup ready : Before(f, e) => f.id >= batchFrom
<1>1. IInv /\ [Next]_vars => [\A e \in ready \ ready' : e.id \in fired' => InOrder(e)]_vars
  <2> SUFFICES ASSUME IInv, [Next]_vars, NEW e \in ready \ ready', e.id \in fired',
                      NEW f \in sched.events \cup ready, Before(f, e)
               PROVE  f.id >= batchFrom
    OBVIOUS
  <2>1. e.id \notin fired /\ fired' # fired /\ ready # {}
    BY EventByEvent
  <2>2. RunTimerEvent \/ RunUserEvent
    BY <2>1 DEF Next, vars, Start, Stop, Reset, ClearMatch, WriteCompare, SetCtrlBit,
       ClearCtrlBit, AttachTimer, DetachTimer, TickDirectly, TimerCall, Becomes,
       RegisterLine, ClearIrq, Schedule, Cancel, Clear, Queue, BusReset, CpuStep,
       UserReturns, UserThrows
  <2>3. e = FirstReady(ready)
    BY <2>2 DEF RunTimerEvent, RunUserEvent
  <2>4. \A g \in ready \ {e} : Before(e, g)
    BY <2>1, <2>3, FirstReadyExists
  <2>5. /\ e.id \in Nat /\ e.cycle \in Nat /\ f.id \in Nat /\ f.cycle \in Nat
    BY EventByEvent
  <2>6. f \notin ready
    <3>1. f # e
      BY <2>5 DEF Before
    <3> QED BY <2>4, <2>5, <3>1 DEF Before
  <2>7. batchFrom \in Nat /\ (f.id < batchFrom => e.cycle < f.cycle)
    BY <2>6 DEF IInv, EventsGood, BatchFirst, TypeOK
  <2> QED BY <2>5, <2>7 DEF Before
<1> QED BY <1>1, Inductive, PTL DEF Spec, NothingOvertaken

\* A match bit that is set comes with the interrupt, if the line is
\* registered, and with the timer stopped.
THEOREM MatchInterrupts == Spec => MatchRaisesInterrupt
<1> DEFINE Raised(t) == timers'[t].match /\ ~timers[t].match
                          => (t \in lines => t \in irq') /\ ~TimerRunning(timers'[t])
<1>1. IInv /\ [Next]_vars => [\A t \in Timers : Raised(t)]_vars
  <2> SUFFICES ASSUME IInv, [Next]_vars, NEW t \in Timers,
                      timers'[t].match, ~timers[t].match
               PROVE  (t \in lines => t \in irq') /\ ~TimerRunning(timers'[t])
    OBVIOUS
  <2>0. /\ Machine(t) \in Machines /\ GoodTimer(t, Machine(t), clock)
        /\ Machine(t).timer = timers[t] /\ t \in Owners /\ clock \in Nat
        /\ timers \in [Timers -> TimerState]
    BY MachineGood DEF IInv, TypeOK
  <2>1. timers' # timers
    OBVIOUS
  <2>2. ASSUME NEW u \in Timers, NEW m, timers' = [timers EXCEPT ![u] = m.timer]
        PROVE  u = t /\ timers'[t] = m.timer
    <3>1. u = t
      BY <2>0, <2>2
    <3> QED BY <2>0, <2>2, <3>1
  <2>3. ASSUME NEW u \in Timers, NEW m, timers' = [timers EXCEPT ![u] = m.timer],
               m.timer.match = Machine(u).timer.match
        PROVE  FALSE
    BY <2>0, <2>2, <2>3
  <2>4. ASSUME NEW u \in Timers,
               \/ Start(u) \/ Stop(u) \/ Reset(u) \/ ClearMatch(u)
               \/ \E v \in Compares : WriteCompare(u, v)
               \/ \E b \in Options : SetCtrlBit(u, b) \/ ClearCtrlBit(u, b)
               \/ AttachTimer(u) \/ DetachTimer(u)
        PROVE  FALSE
    <3>0. /\ Machine(u) \in Machines /\ GoodTimer(u, Machine(u), clock)
          /\ Machine(u).timer = timers[u] /\ u \in Owners /\ Machine(u).timer \in TimerState
      BY MachineGood
    <3>1. CASE Start(u)
      BY <2>0, <2>3, <3>0, <3>1, StartGood DEF Start, TimerCall, Becomes
    <3>2. CASE Stop(u)
      BY <2>0, <2>3, <3>0, <3>2, StopGood DEF Stop, TimerCall, Becomes
    <3>3. CASE Reset(u)
      <4>1. TimerReset(Machine(u), clock).timer.match = FALSE
        BY <2>0, <3>0, ResetGood
      <4> QED BY <2>2, <3>3, <4>1 DEF Reset, TimerCall, Becomes
    <3>4. CASE ClearMatch(u)
      <4>1. [Machine(u) EXCEPT !.timer.match = FALSE].timer.match = FALSE
        BY <3>0 DEF Machines, TimerState
      <4> QED BY <2>2, <3>4, <4>1 DEF ClearMatch, TimerCall, Becomes
    <3>5. ASSUME NEW v \in Compares, WriteCompare(u, v) PROVE FALSE
      <4>1. v \in Counts
        BY TimerSystemAssumption
      <4> QED BY <2>0, <2>3, <3>0, <3>5, <4>1, SetCompareGood
              DEF WriteCompare, TimerCall, Becomes
    <3>6. ASSUME NEW b \in Options, SetCtrlBit(u, b) \/ ClearCtrlBit(u, b) PROVE FALSE
      <4>1. /\ [Machine(u) EXCEPT !.timer.ctrl = @ \cup {b}].timer.match
               = Machine(u).timer.match
            /\ [Machine(u) EXCEPT !.timer.ctrl = @ \ {b}].timer.match
               = Machine(u).timer.match
        BY <3>0 DEF Machines, TimerState
      <4> QED BY <2>3, <3>6, <4>1 DEF SetCtrlBit, ClearCtrlBit, TimerCall, Becomes
    <3>7. CASE AttachTimer(u)
      BY <2>0, <2>3, <3>0, <3>7, AttachGood DEF AttachTimer, TimerCall, Becomes
    <3>8. CASE DetachTimer(u)
      BY <2>0, <2>3, <3>0, <3>8, DetachGood DEF DetachTimer, TimerCall, Becomes
    <3> QED BY <2>4, <3>1, <3>2, <3>3, <3>4, <3>5, <3>6, <3>7, <3>8
  <2>5. ASSUME NEW u \in Timers, TickDirectly(u)
        PROVE  (t \in lines => t \in irq') /\ ~TimerRunning(timers'[t])
    <3>1. u = t /\ timers'[t] = TimerTick(Machine(t), clock).timer
      BY <2>2, <2>5 DEF TickDirectly, Becomes
    <3>2. MatchesOnTick(timers[t], clock) /\ ~TimerRunning(timers'[t])
      BY <2>0, <2>5, <3>1, TickGood DEF TickDirectly
    <3> QED BY <2>5, <3>1, <3>2 DEF TickDirectly, Triggered
  <2>6. CASE RunTimerEvent
    <3> DEFINE u == FirstReady(ready).owner
    <3>1. u = t /\ timers'[t] = HandleCompareMatch(Machine(t)).timer
      BY <2>2, <2>6 DEF RunTimerEvent
    <3>2. TimerRunning(timers[t]) /\ ~TimerRunning(timers'[t])
      BY <2>0, <3>1, MatchGood
    <3> QED BY <2>6, <3>1, <3>2 DEF RunTimerEvent, Triggered
  <2>7. CASE BusReset
    <3>1. TimerReset(Machine(t), clock).timer.match = FALSE
      BY <2>0, ResetGood
    <3> QED BY <2>7, <3>1 DEF BusReset
  <2>8. CASE CpuStep
    <3>1. timers[t].attached => TimerTick(Machine(t), clock + 1).timer.match = timers[t].match
      BY BusTick
    <3> QED BY <2>8, <3>1 DEF CpuStep
  <2>9. CASE \/ \E u \in Timers : RegisterLine(u) \/ ClearIrq(u)
             \/ \E n \in Leads : Schedule(n)
             \/ \E id \in 1 .. MaxEventId : Cancel(id)
             \/ Clear \/ RunUserEvent \/ UserReturns \/ UserThrows \/ UNCHANGED vars
    BY <2>1, <2>9 DEF RegisterLine, ClearIrq, Schedule, Cancel, Clear, Queue,
       RunUserEvent, UserReturns, UserThrows, vars
  <2> QED BY <2>4, <2>5, <2>6, <2>7, <2>8, <2>9 DEF Next
<1> QED BY <1>1, Inductive, PTL DEF Spec, MatchRaisesInterrupt
=============================================================================
