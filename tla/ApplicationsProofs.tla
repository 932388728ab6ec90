------------------------- MODULE ApplicationsProofs -------------------------
(***************************************************************************)
(* Proofs about the firmware applications, for any pin, any COMPARE, any   *)
(* width of the counter and any bounds.                                    *)
(*                                                                         *)
(* The functions of the timer get a lemma each: the queue never holds an   *)
(* event but the one the timer can cancel (OwnEvents), so whatever cancels *)
(* leaves it empty.  The functions of the applications and of the bus then *)
(* take a sound system to a sound one, and initialize() and every toggle   *)
(* of the blink firmware start its counter from zero (Fresh).              *)
(***************************************************************************)
EXTENDS Applications, TLAPS

Pairs == [timer : TimerState,
          sched : [events : SUBSET Event({TIMER}), nextId : Nat \ {0}]]

Systems == [timer : TimerState,
            sched : [events : SUBSET Event({TIMER}), nextId : Nat \ {0}],
            gpio : Gpio!GpioState(0 .. 31),
            uart : Uart!UartState(Bytes \cup {0}, {1}),
            flag : [Firmwares -> {FRESH, UP, SHUT}],
            counter : 0 .. Interval]

TypeOK == /\ sys \in Systems
          /\ active \in Firmwares /\ running \in BOOLEAN /\ clock \in 0 .. MaxClock
          /\ beat \in [steady : BOOLEAN, steps : Nat, cycles : Nat]

\* Every event in the queue is the one the timer can cancel.
OwnEvents(p) ==
  \A e \in p.sched.events : e.id = p.timer.eventId /\ e.id # 0 /\ p.timer.attached

\* The firmware f is the only one that may be up, and nothing that belongs to
\* the others is on.
Sound(m, f) ==
  /\ m \in Systems /\ OwnEvents(Pair(m))
  /\ \A g \in Firmwares : m.flag[g] = UP => g = f
  /\ Pin \in m.gpio.in => Pin \in m.gpio.dir /\ UP \in {m.flag["basic"], m.flag["blink"]}
  /\ TimerRunning(m.timer) => m.flag["blink"] = UP
  /\ m.uart.enabled => m.flag["echo"] # SHUT

\* The blink firmware is up, and its timer counts for it.
Blinking(m) == /\ m.flag["blink"] = UP /\ PinReady(m)
               /\ m.timer.attached /\ m.timer.compare = Compare

\* Its timer has just been started.
Fresh(m, now) ==
  /\ Blinking(m) /\ TimerRunning(m.timer)
  /\ m.timer.count = 0 /\ ~m.timer.match /\ m.timer.last = now
  /\ \A e \in m.sched.events : e.cycle = now + Compare

(***************************************************************************)
(* Nobody has interfered since then: the counter counts the cycles, the    *)
(* event is not due before Compare of them, and the timer of a CPU that    *)
(* runs has not matched.                                                   *)
(***************************************************************************)
Steady == beat.steady =>
  /\ active = "blink" /\ Blinking(sys) /\ sys.timer.last = clock
  /\ beat.cycles <= clock /\ beat.steps <= beat.cycles /\ beat.steps < Compare
  /\ TimerRunning(sys.timer) => sys.timer.count = beat.cycles /\ ~sys.timer.match
  /\ running => TimerRunning(sys.timer)
  /\ \A e \in sys.sched.events : e.cycle + beat.cycles >= clock + Compare

CounterDoesNotWrap == MaxClock < CountRange

IInv == TypeOK /\ Sound(sys, active)

-----------------------------------------------------------------------------
(***************************************************************************)
(* The functions of the timer.                                             *)
(***************************************************************************)

\* The same timer, but for the event it refers to.
SameButEvent(tm, un) ==
  /\ un.ctrl = tm.ctrl /\ un.count = tm.count /\ un.compare = tm.compare
  /\ un.match = tm.match /\ un.attached = tm.attached /\ un.last = tm.last

LEMMA Numbers ==
  /\ Counts \subseteq Nat /\ 0 \in Counts /\ Compare \in Counts /\ Compare >= 1
  /\ \A n \in Nat : n % CountRange \in Counts /\ (n < CountRange => n % CountRange = n)
BY CountAssumption, ApplicationAssumption DEF Counts

LEMMA CancelEmpties ==
  ASSUME NEW p \in Pairs, OwnEvents(p)
  PROVE  LET c == CancelScheduledEvent(p)
         IN c \in Pairs /\ c.sched.events = {} /\ SameButEvent(p.timer, c.timer)
<1> DEFINE c == CancelScheduledEvent(p)
<1>1. p.timer \in TimerState /\ p.sched.events \subseteq Event({TIMER})
  BY DEF Pairs
<1>2. CASE p.timer.eventId # 0 /\ p.timer.attached
  <2>1. /\ c.timer = [p.timer EXCEPT !.eventId = 0]
        /\ c.sched = [p.sched EXCEPT !.events = {e \in @ : e.id # p.timer.eventId}]
        /\ c = [timer |-> c.timer, sched |-> c.sched]
    BY <1>2 DEF CancelScheduledEvent, CancelEvent
  <2> HIDE DEF c
  <2>2. c.timer \in TimerState /\ SameButEvent(p.timer, c.timer)
    BY <1>1, <2>1 DEF TimerState, SameButEvent
  <2>3. c.sched.events = {} /\ c.sched.nextId = p.sched.nextId
        /\ c.sched = [events |-> {}, nextId |-> p.sched.nextId]
    BY <2>1 DEF OwnEvents, Pairs
  <2>4. c \in Pairs
    BY <2>1, <2>2, <2>3 DEF Pairs
  <2> QED BY <2>2, <2>3, <2>4 DEF c
<1>3. CASE ~(p.timer.eventId # 0 /\ p.timer.attached)
  <2>1. c = p
    BY <1>3 DEF CancelScheduledEvent
  <2>2. p.sched.events = {}
    BY <1>3 DEF OwnEvents
  <2> QED BY <2>1, <2>2 DEF SameButEvent
<1> QED BY <1>2, <1>3

\* A function that ends by cancelling the event.
LEMMA CancelOf ==
  ASSUME NEW p \in Pairs, OwnEvents(p), NEW tm \in TimerState,
         tm.eventId = p.timer.eventId, tm.attached = p.timer.attached
  PROVE  LET c == CancelScheduledEvent([p EXCEPT !.timer = tm])
         IN /\ c \in Pairs /\ c.timer \in TimerState
            /\ c.sched.events = {} /\ SameButEvent(tm, c.timer)
<1> DEFINE n == [p EXCEPT !.timer = tm]
<1>1. n \in Pairs /\ n.timer = tm /\ n.sched = p.sched
  BY DEF Pairs
<1> HIDE DEF n
<1>2. OwnEvents(n)
  BY <1>1 DEF OwnEvents
<1>3. /\ CancelScheduledEvent(n) \in Pairs /\ CancelScheduledEvent(n).sched.events = {}
      /\ SameButEvent(n.timer, CancelScheduledEvent(n).timer)
  BY <1>1, <1>2, CancelEmpties
<1> QED BY <1>1, <1>3 DEF Pairs, n

\* updateScheduledEvent leaves no event but the one that is due at the match.
LEMMA UpdateOf ==
  ASSUME NEW p \in Pairs, OwnEvents(p), NEW tm \in TimerState, NEW now \in Nat,
         tm.eventId = p.timer.eventId, p.timer.attached => tm.attached
  PROVE  LET r == UpdateScheduledEvent([p EXCEPT !.timer = tm], TIMER, now)
         IN /\ r \in Pairs /\ OwnEvents(r) /\ SameButEvent(tm, r.timer)
            /\ \A e \in r.sched.events : e.cycle = now + tm.compare - tm.count
<1> DEFINE n == [p EXCEPT !.timer = tm]
           c == CancelScheduledEvent(n)
           r == UpdateScheduledEvent(n, TIMER, now)
<1>1. n \in Pairs /\ n.timer = tm /\ n.sched = p.sched
  BY DEF Pairs
<1> HIDE DEF n
<1>2. OwnEvents(n)
  BY <1>1 DEF OwnEvents
<1>3. c \in Pairs /\ c.sched.events = {} /\ SameButEvent(tm, c.timer)
  BY <1>1, <1>2, CancelEmpties
<1>4. c.timer \in TimerState /\ c.sched.nextId \in Nat \ {0}
  BY <1>3 DEF Pairs
<1>5. tm.count \in Nat /\ tm.compare \in Nat
  BY Numbers DEF TimerState
<1> DEFINE due == TimerRunning(c.timer) /\ c.timer.attached /\ c.timer.count < c.timer.compare
           e == [id |-> c.sched.nextId,
                 cycle |-> now + c.timer.compare - c.timer.count, owner |-> TIMER]
           un == [c.timer EXCEPT !.eventId = c.sched.nextId]
           sc == [events |-> {e}, nextId |-> c.sched.nextId + 1]
<1>6. r = IF due THEN [timer |-> un, sched |-> sc] ELSE c
  BY <1>3 DEF UpdateScheduledEvent, ScheduleEvent
<1> HIDE DEF c, r
<1>7. CASE due
  <2>1. c.timer.count = tm.count /\ c.timer.compare = tm.compare
    BY <1>3 DEF SameButEvent
  <2>2. now + c.timer.compare - c.timer.count \in Nat
    BY <1>5, <1>7, <2>1
  <2>3. e \in Event({TIMER}) /\ e.cycle = now + tm.compare - tm.count
    BY <1>4, <2>1, <2>2 DEF Event
  <2>4. un \in TimerState /\ SameButEvent(tm, un) /\ un.eventId = c.sched.nextId /\ un.attached
    BY <1>3, <1>4, <1>7 DEF TimerState, SameButEvent
  <2>5. r = [timer |-> un, sched |-> sc]
    BY <1>6, <1>7
  <2>6. e.id = un.eventId /\ e.id # 0
    BY <1>4, <2>4
  <2> HIDE DEF e, un
  <2>7. r.timer = un /\ r.sched = sc /\ sc.events = {e} /\ r \in Pairs
    BY <1>4, <2>3, <2>4, <2>5 DEF Pairs
  <2> QED BY <2>3, <2>4, <2>6, <2>7 DEF OwnEvents, r, n
<1>8. CASE ~due
  BY <1>3, <1>6, <1>8 DEF OwnEvents, r, n
<1> QED BY <1>7, <1>8

LEMMA StopOf ==
  ASSUME NEW p \in Pairs, OwnEvents(p)
  PROVE  LET r == TimerStop(p)
         IN /\ r \in Pairs /\ r.sched.events = {} /\ ~TimerRunning(r.timer)
            /\ r.timer.count = p.timer.count /\ r.timer.compare = p.timer.compare
            /\ r.timer.match = p.timer.match /\ r.timer.attached = p.timer.attached
            /\ r.timer.last = p.timer.last
<1> DEFINE tm == [p.timer EXCEPT !.ctrl = @ \ {ENABLE}]
           r == TimerStop(p)
<1>1. /\ tm \in TimerState /\ tm.eventId = p.timer.eventId /\ tm.ctrl = p.timer.ctrl \ {ENABLE}
      /\ tm.count = p.timer.count /\ tm.compare = p.timer.compare
      /\ tm.match = p.timer.match /\ tm.attached = p.timer.attached
      /\ tm.last = p.timer.last
  BY DEF Pairs, TimerState
<1>2. r = CancelScheduledEvent([p EXCEPT !.timer = tm])
  BY DEF TimerStop
<1> HIDE DEF tm, r
<1>3. r \in Pairs /\ r.sched.events = {} /\ SameButEvent(tm, r.timer)
  BY <1>1, <1>2, CancelOf
<1> QED BY <1>1, <1>3 DEF SameButEvent, TimerRunning, r

LEMMA StartOf ==
  ASSUME NEW p \in Pairs, OwnEvents(p), NEW now \in Nat
  PROVE  LET r == TimerStart(p, TIMER, now)
         IN /\ r \in Pairs /\ OwnEvents(r) /\ TimerRunning(r.timer)
            /\ r.timer.count = p.timer.count /\ r.timer.compare = p.timer.compare
            /\ r.timer.match = p.timer.match /\ r.timer.attached = p.timer.attached
            /\ r.timer.attached => r.timer.last = now
            /\ \A e \in r.sched.events : e.cycle = now + r.timer.compare - r.timer.count
<1> DEFINE tm == SyncLast([p.timer EXCEPT !.ctrl = @ \cup {ENABLE}], now)
           r == TimerStart(p, TIMER, now)
<1>1. /\ tm \in TimerState /\ tm.eventId = p.timer.eventId /\ TimerRunning(tm)
      /\ tm.count = p.timer.count /\ tm.compare = p.timer.compare
      /\ tm.match = p.timer.match /\ tm.attached = p.timer.attached
      /\ tm.attached => tm.last = now
  BY DEF Pairs, TimerState, SyncLast, CtrlBits, TimerRunning
<1>2. r = UpdateScheduledEvent([p EXCEPT !.timer = tm], TIMER, now)
  BY DEF TimerStart
<1> HIDE DEF tm, r
<1>3. /\ r \in Pairs /\ OwnEvents(r) /\ SameButEvent(tm, r.timer)
      /\ \A e \in r.sched.events : e.cycle = now + tm.compare - tm.count
  BY <1>1, <1>2, UpdateOf
<1> QED BY <1>1, <1>3 DEF SameButEvent, TimerRunning, r

LEMMA ResetOf ==
  ASSUME NEW p \in Pairs, OwnEvents(p), NEW now \in Nat
  PROVE  LET r == TimerReset(p, now)
         IN /\ r \in Pairs /\ r.sched.events = {} /\ ~TimerRunning(r.timer)
            /\ r.timer.count = 0 /\ ~r.timer.match /\ r.timer.compare = p.timer.compare
            /\ r.timer.attached = p.timer.attached
            /\ r.timer.attached => r.timer.last = now
<1> DEFINE c == TimerStop(p)
           tm == SyncLast([c.timer EXCEPT !.ctrl = {}, !.count = 0, !.match = FALSE], now)
           r == TimerReset(p, now)
<1>1. /\ c \in Pairs /\ c.sched.events = {}
      /\ c.timer.compare = p.timer.compare /\ c.timer.attached = p.timer.attached
  BY StopOf
<1>2. r = [c EXCEPT !.timer = tm]
  BY DEF TimerReset
<1> HIDE DEF c, r
<1>3. /\ tm \in TimerState /\ tm.ctrl = {} /\ tm.count = 0 /\ tm.match = FALSE
      /\ tm.compare = c.timer.compare /\ tm.attached = c.timer.attached
      /\ tm.attached => tm.last = now
  BY <1>1, Numbers DEF Pairs, TimerState, SyncLast
<1> HIDE DEF tm
<1>4. r \in Pairs /\ r.timer = tm /\ r.sched = c.sched
  BY <1>1, <1>2, <1>3 DEF Pairs
<1> QED BY <1>1, <1>3, <1>4 DEF TimerRunning, r

LEMMA SetCompareOf ==
  ASSUME NEW p \in Pairs, OwnEvents(p), NEW now \in Nat
  PROVE  LET r == SetCompare(p, TIMER, now, Compare)
         IN /\ r \in Pairs /\ OwnEvents(r) /\ r.timer.compare = Compare
            /\ TimerRunning(r.timer) <=> TimerRunning(p.timer)
            /\ r.timer.count = p.timer.count /\ r.timer.match = p.timer.match
            /\ r.timer.attached = p.timer.attached /\ r.timer.last = p.timer.last
<1> DEFINE tm == [p.timer EXCEPT !.compare = Compare]
           r == SetCompare(p, TIMER, now, Compare)
<1>1. /\ tm \in TimerState /\ tm.eventId = p.timer.eventId /\ tm.compare = Compare
      /\ tm.ctrl = p.timer.ctrl /\ tm.count = p.timer.count /\ tm.match = p.timer.match
      /\ tm.attached = p.timer.attached /\ tm.last = p.timer.last
  BY Numbers DEF Pairs, TimerState
<1>2. [p EXCEPT !.timer.compare = Compare] = [p EXCEPT !.timer = tm]
  BY DEF Pairs
<1>3. r = UpdateScheduledEvent([p EXCEPT !.timer = tm], TIMER, now)
  BY <1>2 DEF SetCompare
<1> HIDE DEF tm, r
<1>4. r \in Pairs /\ OwnEvents(r) /\ SameButEvent(tm, r.timer)
  BY <1>1, <1>3, UpdateOf
<1> QED BY <1>1, <1>4 DEF SameButEvent, TimerRunning, r

LEMMA AttachOf ==
  ASSUME NEW p \in Pairs, OwnEvents(p), NEW now \in Nat
  PROVE  LET r == TimerAttach(p, TIMER, now)
         IN r \in Pairs /\ OwnEvents(r) /\ (TimerRunning(r.timer) <=> TimerRunning(p.timer))
<1> DEFINE tm == [p.timer EXCEPT !.attached = TRUE, !.last = now]
           r == TimerAttach(p, TIMER, now)
<1>1. /\ tm \in TimerState /\ tm.eventId = p.timer.eventId
      /\ tm.ctrl = p.timer.ctrl /\ tm.attached
  BY DEF Pairs, TimerState
<1>2. [p EXCEPT !.timer.attached = TRUE, !.timer.last = now] = [p EXCEPT !.timer = tm]
  BY DEF Pairs, TimerState
<1>3. r = UpdateScheduledEvent([p EXCEPT !.timer = tm], TIMER, now)
  BY <1>2 DEF TimerAttach
<1> HIDE DEF tm, r
<1>4. r \in Pairs /\ OwnEvents(r) /\ SameButEvent(tm, r.timer)
  BY <1>1, <1>3, UpdateOf
<1> QED BY <1>1, <1>4 DEF SameButEvent, TimerRunning, r

LEMMA DetachOf ==
  ASSUME NEW p \in Pairs, OwnEvents(p)
  PROVE  LET r == TimerDetach(p)
         IN r \in Pairs /\ OwnEvents(r) /\ (TimerRunning(r.timer) <=> TimerRunning(p.timer))
<1> DEFINE tm == [p.timer EXCEPT !.last = 0]
           c == CancelScheduledEvent([p EXCEPT !.timer = tm])
           r == TimerDetach(p)
<1>1. /\ tm \in TimerState /\ tm.eventId = p.timer.eventId
      /\ tm.ctrl = p.timer.ctrl /\ tm.attached = p.timer.attached
  BY DEF Pairs, TimerState
<1>2. r = [c EXCEPT !.timer.attached = FALSE]
  BY DEF TimerDetach
<1> HIDE DEF tm, r
<1>3. c \in Pairs /\ c.sched.events = {} /\ SameButEvent(tm, c.timer)
  BY <1>1, CancelOf
<1> HIDE DEF c
<1>4. r \in Pairs /\ r.sched = c.sched /\ r.timer.ctrl = c.timer.ctrl
  BY <1>2, <1>3 DEF Pairs, TimerState
<1> QED BY <1>1, <1>3, <1>4 DEF OwnEvents, SameButEvent, TimerRunning, r

LEMMA MatchOf ==
  ASSUME NEW p \in Pairs, OwnEvents(p)
  PROVE  LET r == HandleCompareMatch(p)
         IN /\ r \in Pairs /\ OwnEvents(r) /\ ~TimerRunning(r.timer)
            /\ r.timer.compare = p.timer.compare /\ r.timer.attached = p.timer.attached
            /\ r.timer.last = p.timer.last
            /\ TimerRunning(p.timer) => r.timer.match /\ r.timer.count = r.timer.compare
            /\ r.sched.events \subseteq p.sched.events
<1> DEFINE n == [p EXCEPT !.timer.count = p.timer.compare, !.timer.match = TRUE]
           r == HandleCompareMatch(p)
<1>1. CASE TimerRunning(p.timer)
  <2>1. /\ n \in Pairs /\ n.sched = p.sched /\ n.timer.eventId = p.timer.eventId
        /\ n.timer.count = p.timer.compare /\ n.timer.compare = p.timer.compare
        /\ n.timer.attached = p.timer.attached /\ n.timer.last = p.timer.last /\ n.timer.match
    BY DEF Pairs, TimerState
  <2>2. r = TimerStop(n)
    BY <1>1 DEF HandleCompareMatch
  <2> HIDE DEF n, r
  <2>3. OwnEvents(n)
    BY <2>1 DEF OwnEvents
  <2>4. /\ r \in Pairs /\ r.sched.events = {} /\ ~TimerRunning(r.timer)
        /\ r.timer.count = n.timer.count /\ r.timer.compare = n.timer.compare
        /\ r.timer.match = n.timer.match /\ r.timer.attached = n.timer.attached
        /\ r.timer.last = n.timer.last
    BY <2>1, <2>2, <2>3, StopOf
  <2> QED BY <2>1, <2>4 DEF OwnEvents, r
<1>2. CASE ~TimerRunning(p.timer)
  BY <1>2 DEF HandleCompareMatch
<1> QED BY <1>1, <1>2

LEMMA TickOf ==
  ASSUME NEW p \in Pairs, OwnEvents(p), NEW now \in Nat
  PROVE  LET r == TimerTick(p, now)
         IN /\ r \in Pairs /\ OwnEvents(r) /\ (TimerRunning(r.timer) => TimerRunning(p.timer))
            /\ p.timer.attached =>
                 /\ r.sched = p.sched /\ r.timer.attached /\ r.timer.last = now
                 /\ TimerRunning(p.timer) => TimerRunning(r.timer)
                 /\ r.timer.compare = p.timer.compare /\ r.timer.match = p.timer.match
                 /\ TimerRunning(p.timer) /\ p.timer.last + 1 = now
                      => r.timer.count = (p.timer.count + 1) % CountRange
<1> DEFINE tm == Counted(p.timer, now)
           c == [p EXCEPT !.timer = tm]
           r == TimerTick(p, now)
<1>1. Elapsed(p.timer, now) \in Nat
  BY DEF Elapsed, Pairs, TimerState
<1>2. p.timer.count \in Nat
  BY Numbers DEF Pairs, TimerState
<1>3. (p.timer.count + Elapsed(p.timer, now)) % CountRange \in Counts
  BY <1>1, <1>2, Numbers
<1>4. /\ tm \in TimerState /\ tm.eventId = p.timer.eventId /\ tm.ctrl = p.timer.ctrl
      /\ tm.compare = p.timer.compare /\ tm.match = p.timer.match
      /\ tm.attached = p.timer.attached /\ (tm.attached => tm.last = now)
      /\ TimerRunning(p.timer)
           => tm.count = (p.timer.count + Elapsed(p.timer, now)) % CountRange
  BY <1>3 DEF Pairs, TimerState, Counted, SyncLast
<1>5. p.timer.attached /\ p.timer.last + 1 = now => Elapsed(p.timer, now) = 1
  BY DEF Elapsed, Pairs, TimerState
<1>6. r = IF MatchesOnTick(p.timer, now) THEN HandleCompareMatch(c) ELSE c
  BY DEF TimerTick
<1> HIDE DEF tm, r
<1>7. c \in Pairs /\ c.timer = tm /\ c.sched = p.sched
  BY <1>4 DEF Pairs
<1> HIDE DEF c
<1>8. OwnEvents(c)
  BY <1>4, <1>7 DEF OwnEvents
<1>9. CASE MatchesOnTick(p.timer, now)
  <2>1. ~p.timer.attached
    BY <1>9 DEF MatchesOnTick
  <2>2. r \in Pairs /\ OwnEvents(r) /\ ~TimerRunning(r.timer)
    BY <1>6, <1>7, <1>8, <1>9, MatchOf
  <2> QED BY <2>1, <2>2 DEF r
<1>10. CASE ~MatchesOnTick(p.timer, now)
  BY <1>4, <1>5, <1>6, <1>7, <1>8, <1>10 DEF TimerRunning, r
<1> QED BY <1>9, <1>10

-----------------------------------------------------------------------------
(***************************************************************************)
(* The calls of the HAL.                                                   *)
(***************************************************************************)
LEMMA PairOf ==
  ASSUME NEW m \in Systems
  PROVE  /\ Pair(m) \in Pairs /\ Pair(m).timer = m.timer /\ Pair(m).sched = m.sched
         /\ m.timer \in TimerState /\ m.gpio \in Gpio!GpioState(0 .. 31)
         /\ m.uart \in Uart!UartState(Bytes \cup {0}, {1})
         /\ m.flag \in [Firmwares -> {FRESH, UP, SHUT}] /\ m.counter \in 0 .. Interval
BY DEF Pair, Pairs, Systems

LEMMA PutOf ==
  ASSUME NEW m \in Systems, NEW p \in Pairs
  PROVE  LET r == Put(m, p)
         IN /\ r \in Systems /\ Pair(r) = p /\ r.timer = p.timer /\ r.sched = p.sched
            /\ r.gpio = m.gpio /\ r.uart = m.uart /\ r.flag = m.flag /\ r.counter = m.counter
<1> DEFINE r == Put(m, p)
<1>1. /\ r \in Systems /\ r.timer = p.timer /\ r.sched = p.sched
      /\ r.gpio = m.gpio /\ r.uart = m.uart /\ r.flag = m.flag /\ r.counter = m.counter
  BY DEF Put, Pairs, Systems
<1>2. p = [timer |-> p.timer, sched |-> p.sched]
  BY DEF Pairs
<1> HIDE DEF r
<1> QED BY <1>1, <1>2 DEF Pair, r

\* A write to an output pin is read back; on an input it throws.
LEMMA WriteOf ==
  ASSUME NEW m \in Systems, NEW high \in BOOLEAN
  PROVE  LET r == HalWrite(m, high)
         IN /\ r \in Systems /\ Pair(r) = Pair(m) /\ r.timer = m.timer /\ r.sched = m.sched
            /\ r.uart = m.uart /\ r.flag = m.flag /\ r.counter = m.counter
            /\ r.gpio.dir = m.gpio.dir /\ (PinReady(r) <=> PinReady(m))
            /\ PinReady(m) => (Pin \in r.gpio.in <=> high)
            /\ ~PinReady(m) => r = m
<1> DEFINE g == Gpio!WritePin(m.gpio, Pin, high)
           r == HalWrite(m, high)
<1>1. m.gpio \in Gpio!GpioState(0 .. 31)
  BY PairOf
<1>2. /\ g \in Gpio!GpioState(0 .. 31) /\ g.dir = m.gpio.dir
      /\ PinReady(m) => (Pin \in g.in <=> high)
      /\ ~PinReady(m) => g = m.gpio
  <2> DEFINE S == Gpio!With(m.gpio.in, Pin, high)
             T == Gpio!With(m.gpio.out, Pin, high)
  <2>1. /\ S \in SUBSET (0 .. 31) /\ (Pin \in S <=> high)
        /\ T \in SUBSET (0 .. 31)
    BY <1>1, ApplicationAssumption DEF Gpio!With, Gpio!GpioState
  <2>2. g = IF PinReady(m) THEN [m.gpio EXCEPT !.out = T, !.in = S] ELSE m.gpio
    BY ApplicationAssumption DEF Gpio!WritePin, Gpio!MAX_PINS, PinReady
  <2> HIDE DEF S, T, g
  <2> QED BY <1>1, <2>1, <2>2 DEF Gpio!GpioState
<1>3. r = [m EXCEPT !.gpio = g]
  BY DEF HalWrite
<1> HIDE DEF g, r
<1>4. /\ r \in Systems /\ r.gpio = g /\ r.timer = m.timer /\ r.sched = m.sched
      /\ r.uart = m.uart /\ r.flag = m.flag /\ r.counter = m.counter
      /\ g = m.gpio => r = m
  BY <1>2, <1>3 DEF Systems
<1> QED BY <1>2, <1>4 DEF Pair, PinReady, Gpio!IsOutputPin, r

LEMMA ToggleOf ==
  ASSUME NEW m \in Systems, PinReady(m)
  PROVE  LET r == HalToggle(m)
         IN /\ r \in Systems /\ Pair(r) = Pair(m) /\ r.timer = m.timer /\ r.sched = m.sched
            /\ r.uart = m.uart /\ r.flag = m.flag /\ r.counter = m.counter
            /\ PinReady(r) /\ Pin \in r.gpio.dir /\ r.gpio # m.gpio
<1> DEFINE high == ~Gpio!ReadPin(m.gpio, Pin)
           r == HalToggle(m)
<1>1. r = HalWrite(m, high)
  BY DEF HalToggle, HalWrite, Gpio!TogglePin
<1>2. high \in BOOLEAN /\ (high <=> Pin \notin m.gpio.in)
  BY DEF Gpio!ReadPin
<1> HIDE DEF high, r
<1>3. /\ r \in Systems /\ Pair(r) = Pair(m) /\ r.timer = m.timer /\ r.sched = m.sched
      /\ r.uart = m.uart /\ r.flag = m.flag /\ r.counter = m.counter
      /\ PinReady(r) /\ (Pin \in r.gpio.in <=> high)
  BY <1>1, <1>2, WriteOf
<1> QED BY <1>2, <1>3 DEF PinReady, Gpio!IsOutputPin, r

LEMMA OutputOf ==
  ASSUME NEW m \in Systems
  PROVE  LET r == HalConfigureOutput(m)
         IN /\ r \in Systems /\ Pair(r) = Pair(m) /\ r.timer = m.timer /\ r.sched = m.sched
            /\ r.uart = m.uart /\ r.flag = m.flag /\ r.counter = m.counter
            /\ PinReady(r)
<1> DEFINE g == Gpio!ConfigurePin(m.gpio, Pin, TRUE)
           r == HalConfigureOutput(m)
<1>1. m.gpio \in Gpio!GpioState(0 .. 31)
  BY PairOf
<1>2. g \in Gpio!GpioState(0 .. 31) /\ Pin \in g.dir
  BY <1>1, ApplicationAssumption
     DEF Gpio!ConfigurePin, Gpio!GpioState, Gpio!With, Gpio!MAX_PINS
<1>3. r = [m EXCEPT !.gpio = g]
  BY DEF HalConfigureOutput
<1> HIDE DEF g, r
<1>4. /\ r \in Systems /\ r.gpio = g /\ r.timer = m.timer /\ r.sched = m.sched
      /\ r.uart = m.uart /\ r.flag = m.flag /\ r.counter = m.counter
  BY <1>2, <1>3 DEF Systems
<1> QED BY <1>2, <1>4 DEF Pair, PinReady, Gpio!IsOutputPin, r

\* What the functions of the serial port leave it as.
LEMMA UartOf ==
  ASSUME NEW m \in Systems, NEW v \in Uart!UartState(Bytes \cup {0}, {1})
  PROVE  LET r == [m EXCEPT !.uart = v]
         IN /\ r \in Systems /\ Pair(r) = Pair(m) /\ r.timer = m.timer /\ r.sched = m.sched
            /\ r.uart = v /\ r.gpio = m.gpio /\ r.flag = m.flag /\ r.counter = m.counter
BY DEF Systems, Pair

LEMMA FlagOf ==
  ASSUME NEW m \in Systems, NEW f \in Firmwares, NEW w \in {FRESH, UP, SHUT}
  PROVE  LET r == [m EXCEPT !.flag[f] = w]
         IN /\ r \in Systems /\ Pair(r) = Pair(m) /\ r.timer = m.timer /\ r.sched = m.sched
            /\ r.uart = m.uart /\ r.gpio = m.gpio /\ r.counter = m.counter
            /\ r.flag[f] = w /\ \A h \in Firmwares \ {f} : r.flag[h] = m.flag[h]
<1> DEFINE r == [m EXCEPT !.flag[f] = w]
           fl == [m.flag EXCEPT ![f] = w]
<1>1. fl \in [Firmwares -> {FRESH, UP, SHUT}] /\ fl[f] = w
      /\ \A h \in Firmwares \ {f} : fl[h] = m.flag[h]
  BY PairOf
<1>2. r = [m EXCEPT !.flag = fl]
  BY DEF Systems
<1> HIDE DEF fl, r
<1>3. /\ r \in Systems /\ r.flag = fl /\ r.timer = m.timer /\ r.sched = m.sched
      /\ r.uart = m.uart /\ r.gpio = m.gpio /\ r.counter = m.counter
  BY <1>1, <1>2 DEF Systems
<1> QED BY <1>1, <1>3 DEF Pair, r

LEMMA CounterOf ==
  ASSUME NEW m \in Systems, NEW n \in 0 .. Interval
  PROVE  LET r == [m EXCEPT !.counter = n]
         IN /\ r \in Systems /\ Pair(r) = Pair(m) /\ r.timer = m.timer /\ r.sched = m.sched
            /\ r.uart = m.uart /\ r.gpio = m.gpio /\ r.flag = m.flag
BY DEF Systems, Pair

LEMMA StatusKeepsType ==
  ASSUME NEW u \in Uart!UartState(Bytes \cup {0}, {1}), NEW v, 
         v = [u EXCEPT !.enabled = v.enabled, !.tx = v.tx, !.rx = v.rx, !.data = v.data],
         v.enabled \in BOOLEAN, v.tx \in Seq(Bytes \cup {0}), v.rx \in Seq(Bytes \cup {0}),
         v.data \in Bytes \cup {0}
  PROVE  LET r == Uart!UpdateStatusRegister(v)
         IN r \in Uart!UartState(Bytes \cup {0}, {1}) /\ r.enabled = v.enabled
<1>1. v \in Uart!UartState(Bytes \cup {0}, {1})
  BY DEF Uart!UartState
<1>2. Uart!StatusOf(v) \in SUBSET {Uart!TX_EMPTY, Uart!RX_AVAIL, Uart!ENABLED_BIT}
  BY DEF Uart!StatusOf
<1> QED BY <1>1, <1>2 DEF Uart!UpdateStatusRegister, Uart!UartState

-----------------------------------------------------------------------------
(***************************************************************************)
(* initialize(), update(), shutdown() and reset() of the applications, and *)
(* what the bus does to the peripherals.                                   *)
(***************************************************************************)
LEMMA Names ==
  /\ Firmwares = {"basic", "blink", "echo"}
  /\ FRESH # UP /\ FRESH # SHUT /\ UP # SHUT
BY DEF Firmwares, FRESH, UP, SHUT

LEMMA BasicInitializeSound ==
  ASSUME NEW m, Sound(m, "basic")
  PROVE  Sound(BasicInitialize(m), "basic")
<1> DEFINE a == HalConfigureOutput(m)
           b == HalWrite(a, FALSE)
           c == [b EXCEPT !.flag["basic"] = UP]
           r == [c EXCEPT !.counter = 0]
<1>1. r = BasicInitialize(m)
  BY DEF BasicInitialize
<1>2. /\ a \in Systems /\ Pair(a) = Pair(m) /\ a.timer = m.timer /\ a.uart = m.uart
      /\ a.flag = m.flag /\ PinReady(a)
  BY OutputOf DEF Sound
<1> HIDE DEF a
<1>3. /\ b \in Systems /\ Pair(b) = Pair(a) /\ b.timer = a.timer /\ b.uart = a.uart
      /\ b.flag = a.flag /\ Pin \notin b.gpio.in
  BY <1>2, WriteOf
<1> HIDE DEF b
<1>4. /\ c \in Systems /\ Pair(c) = Pair(b) /\ c.timer = b.timer /\ c.uart = b.uart
      /\ c.gpio = b.gpio /\ c.flag["basic"] = UP
      /\ \A h \in Firmwares \ {"basic"} : c.flag[h] = b.flag[h]
  BY <1>3, Names, FlagOf
<1> HIDE DEF c
<1>5. /\ r \in Systems /\ Pair(r) = Pair(c) /\ r.timer = c.timer /\ r.uart = c.uart
      /\ r.gpio = c.gpio /\ r.flag = c.flag
  <2>1. 0 \in 0 .. Interval
    BY ApplicationAssumption
  <2> QED BY <1>4, <2>1, CounterOf
<1> HIDE DEF r
<1> QED BY <1>1, <1>2, <1>3, <1>4, <1>5, Names DEF Sound

\* Whatever it was before, the timer is started from zero.
LEMMA BlinkInitializeSound ==
  ASSUME NEW m, Sound(m, "blink"), NEW now \in Nat
  PROVE  LET r == BlinkInitialize(m, now)
         IN Sound(r, "blink") /\ (m.timer.attached => Fresh(r, now))
<1> DEFINE a == HalConfigureOutput(m)
           b == HalWrite(a, FALSE)
           c == HalStop(b)
           d == HalReset(c, now)
           e == HalSetCompare(d, now)
           g == HalStart(e, now)
           r == [g EXCEPT !.flag["blink"] = UP]
<1>1. r = BlinkInitialize(m, now)
  BY DEF BlinkInitialize
<1>2. /\ a \in Systems /\ Pair(a) = Pair(m) /\ a.timer = m.timer /\ a.uart = m.uart
      /\ a.flag = m.flag /\ PinReady(a)
  BY OutputOf DEF Sound
<1> HIDE DEF a
<1>3. /\ b \in Systems /\ Pair(b) = Pair(a) /\ b.timer = a.timer /\ b.uart = a.uart
      /\ b.flag = a.flag /\ Pin \notin b.gpio.in /\ PinReady(b)
  BY <1>2, WriteOf
<1> HIDE DEF b
<1>4. OwnEvents(Pair(b)) /\ Pair(b) \in Pairs /\ Pair(b).timer = b.timer
  BY <1>2, <1>3, PairOf DEF Sound
<1>5. /\ c \in Systems /\ OwnEvents(Pair(c)) /\ Pair(c) \in Pairs /\ Pair(c).timer = c.timer
      /\ c.timer.attached = b.timer.attached
      /\ c.gpio = b.gpio /\ c.uart = b.uart /\ c.flag = b.flag
  <2> DEFINE p == TimerStop(Pair(b))
  <2>1. p \in Pairs /\ p.sched.events = {} /\ p.timer.attached = b.timer.attached
    BY <1>4, StopOf
  <2> HIDE DEF p
  <2>2. OwnEvents(p)
    BY <2>1 DEF OwnEvents
  <2>3. c = Put(b, p)
    BY DEF HalStop, p
  <2> HIDE DEF c
  <2> QED BY <1>3, <2>1, <2>2, <2>3, PutOf
<1> HIDE DEF c
<1>6. /\ d \in Systems /\ OwnEvents(Pair(d)) /\ Pair(d) \in Pairs /\ Pair(d).timer = d.timer
      /\ d.timer.attached = c.timer.attached
      /\ d.timer.count = 0 /\ ~d.timer.match
      /\ d.gpio = c.gpio /\ d.uart = c.uart /\ d.flag = c.flag
  <2> DEFINE p == TimerReset(Pair(c), now)
  <2>1. /\ p \in Pairs /\ p.sched.events = {} /\ p.timer.attached = c.timer.attached
        /\ p.timer.count = 0 /\ ~p.timer.match
    BY <1>5, ResetOf
  <2> HIDE DEF p
  <2>2. OwnEvents(p)
    BY <2>1 DEF OwnEvents
  <2>3. d = Put(c, p)
    BY DEF HalReset, p
  <2> HIDE DEF d
  <2> QED BY <1>5, <2>1, <2>2, <2>3, PutOf
<1> HIDE DEF d
<1>7. /\ e \in Systems /\ OwnEvents(Pair(e)) /\ Pair(e) \in Pairs /\ Pair(e).timer = e.timer
      /\ e.timer.attached = d.timer.attached /\ e.timer.compare = Compare
      /\ e.timer.count = 0 /\ ~e.timer.match
      /\ e.gpio = d.gpio /\ e.uart = d.uart /\ e.flag = d.flag
  <2> DEFINE p == SetCompare(Pair(d), TIMER, now, Compare)
  <2>1. /\ p \in Pairs /\ OwnEvents(p) /\ p.timer.attached = d.timer.attached
        /\ p.timer.compare = Compare /\ p.timer.count = 0 /\ ~p.timer.match
    BY <1>6, SetCompareOf
  <2> HIDE DEF p
  <2>2. e = Put(d, p)
    BY DEF HalSetCompare, p
  <2> HIDE DEF e
  <2> QED BY <1>6, <2>1, <2>2, PutOf
<1> HIDE DEF e
<1>8. /\ g \in Systems /\ OwnEvents(Pair(g)) /\ TimerRunning(g.timer)
      /\ g.timer.attached = e.timer.attached /\ g.timer.compare = Compare
      /\ g.timer.count = 0 /\ ~g.timer.match
      /\ g.timer.attached => g.timer.last = now
      /\ \A ev \in g.sched.events : ev.cycle = now + Compare
      /\ g.gpio = e.gpio /\ g.uart = e.uart /\ g.flag = e.flag
  <2> DEFINE q == Pair(e)
             p == TimerStart(q, TIMER, now)
  <2>1. /\ q \in Pairs /\ OwnEvents(q) /\ q.timer.attached = e.timer.attached
        /\ q.timer.compare = Compare /\ q.timer.count = 0 /\ ~q.timer.match
    BY <1>7
  <2>2. g = Put(e, p)
    BY DEF HalStart
  <2> HIDE DEF q, g
  <2>3. /\ p \in Pairs /\ OwnEvents(p) /\ TimerRunning(p.timer)
        /\ p.timer.count = q.timer.count /\ p.timer.compare = q.timer.compare
        /\ p.timer.match = q.timer.match /\ p.timer.attached = q.timer.attached
        /\ p.timer.attached => p.timer.last = now
        /\ \A ev \in p.sched.events : ev.cycle = now + p.timer.compare - p.timer.count
    BY <2>1, StartOf
  <2> HIDE DEF p
  <2>4. now + Compare - 0 = now + Compare
    BY Numbers
  <2> QED BY <1>7, <2>1, <2>2, <2>3, <2>4, PutOf, SMTT(30)
<1> HIDE DEF g
<1>9. /\ r \in Systems /\ Pair(r) = Pair(g) /\ r.timer = g.timer /\ r.sched = g.sched
      /\ r.uart = g.uart /\ r.gpio = g.gpio /\ r.flag["blink"] = UP
      /\ \A h \in Firmwares \ {"blink"} : r.flag[h] = g.flag[h]
  BY <1>8, Names, FlagOf
<1> HIDE DEF r
<1>10. Sound(r, "blink")
  BY <1>2, <1>3, <1>5, <1>6, <1>7, <1>8, <1>9, Names DEF Sound
<1>11. ASSUME m.timer.attached PROVE Fresh(r, now)
  <2>1. PinReady(r) /\ r.timer.attached
    BY <1>2, <1>3, <1>5, <1>6, <1>7, <1>8, <1>9, <1>11, ZenonT(30) DEF PinReady
  <2> QED BY <1>8, <1>9, <2>1 DEF Fresh, Blinking
<1> QED BY <1>1, <1>10, <1>11

LEMMA EchoInitializeSound ==
  ASSUME NEW m, Sound(m, "echo")
  PROVE  Sound(EchoInitialize(m), "echo")
<1> DEFINE u == m.uart
           b == Uart!SetBaudRate(u, 1)
           v == Uart!Enable(b)
           c == [m EXCEPT !.uart = v]
           r == [c EXCEPT !.flag["echo"] = UP]
<1>1. m \in Systems /\ u \in Uart!UartState(Bytes \cup {0}, {1})
  BY PairOf DEF Sound
<1>2. r = EchoInitialize(m)
  BY DEF EchoInitialize
<1> HIDE DEF u
<1>3. b \in Uart!UartState(Bytes \cup {0}, {1})
  BY <1>1 DEF Uart!SetBaudRate, Uart!UartState
<1> HIDE DEF b
<1>4. v \in Uart!UartState(Bytes \cup {0}, {1})
  <2> DEFINE w == [b EXCEPT !.enabled = TRUE]
  <2>1. /\ w = [b EXCEPT !.enabled = w.enabled, !.tx = w.tx, !.rx = w.rx, !.data = w.data]
        /\ w.enabled \in BOOLEAN /\ w.tx \in Seq(Bytes \cup {0}) /\ w.rx \in Seq(Bytes \cup {0})
        /\ w.data \in Bytes \cup {0}
    BY <1>3 DEF Uart!UartState
  <2>2. v = Uart!UpdateStatusRegister(w)
    BY DEF Uart!Enable
  <2> HIDE DEF w, v
  <2> QED BY <1>3, <2>1, <2>2, StatusKeepsType
<1> HIDE DEF v
<1>5. /\ c \in Systems /\ Pair(c) = Pair(m) /\ c.timer = m.timer
      /\ c.gpio = m.gpio /\ c.flag = m.flag
  BY <1>1, <1>4, UartOf
<1> HIDE DEF c
<1>6. /\ r \in Systems /\ Pair(r) = Pair(c) /\ r.timer = c.timer /\ r.gpio = c.gpio
      /\ r.flag["echo"] = UP /\ \A h \in Firmwares \ {"echo"} : r.flag[h] = c.flag[h]
  BY <1>5, Names, FlagOf
<1> HIDE DEF r
<1> QED BY <1>2, <1>5, <1>6, Names DEF Sound

LEMMA InitializeSound ==
  ASSUME NEW f \in Firmwares, NEW m, Sound(m, f), NEW now \in Nat
  PROVE  LET r == Initialize(m, f, now)
         IN Sound(r, f) /\ (f = "blink" /\ m.timer.attached => Fresh(r, now))
<1>1. CASE f = "basic"
  <2>1. Initialize(m, f, now) = BasicInitialize(m)
    BY <1>1 DEF Initialize
  <2> QED BY <1>1, <2>1, BasicInitializeSound
<1>2. CASE f = "blink"
  <2>1. Initialize(m, f, now) = BlinkInitialize(m, now)
    BY <1>2 DEF Initialize
  <2> QED BY <1>2, <2>1, BlinkInitializeSound
<1>3. CASE f = "echo"
  <2>1. Initialize(m, f, now) = EchoInitialize(m)
    BY <1>3 DEF Initialize
  <2> QED BY <1>3, <2>1, EchoInitializeSound
<1> QED BY <1>1, <1>2, <1>3, Names

LEMMA BasicUpdateSound ==
  ASSUME NEW m, Sound(m, "basic"), m.flag["basic"] = UP
  PROVE  Sound(BasicUpdate(m), "basic")
<1>1. m \in Systems /\ m.counter \in 0 .. Interval /\ Interval \in Nat \ {0}
  BY PairOf, ApplicationAssumption DEF Sound
<1>2. CASE m.counter + 1 < Interval
  <2>1. BasicUpdate(m) = [m EXCEPT !.counter = m.counter + 1]
    BY <1>1, <1>2 DEF BasicUpdate
  <2>2. m.counter + 1 \in 0 .. Interval
    BY <1>1, <1>2
  <2> QED BY <1>1, <2>1, <2>2, CounterOf DEF Sound
<1>3. CASE m.counter + 1 >= Interval /\ PinReady(m)
  <2> DEFINE a == HalToggle(m)
             r == [a EXCEPT !.counter = 0]
  <2>1. BasicUpdate(m) = r
    BY <1>1, <1>3 DEF BasicUpdate
  <2>2. /\ a \in Systems /\ Pair(a) = Pair(m) /\ a.timer = m.timer /\ a.uart = m.uart
        /\ a.flag = m.flag /\ Pin \in a.gpio.dir
    BY <1>1, <1>3, ToggleOf
  <2> HIDE DEF a
  <2>3. /\ r \in Systems /\ Pair(r) = Pair(a) /\ r.timer = a.timer /\ r.uart = a.uart
        /\ r.gpio = a.gpio /\ r.flag = a.flag
    BY <1>1, <2>2, CounterOf
  <2> HIDE DEF r
  <2> QED BY <2>1, <2>2, <2>3 DEF Sound
<1>4. CASE ~(m.counter + 1 < Interval) /\ ~(m.counter + 1 >= Interval /\ PinReady(m))
  <2>1. BasicUpdate(m) = [m EXCEPT !.counter = Interval]
    BY <1>4 DEF BasicUpdate
  <2>2. Interval \in 0 .. Interval
    BY <1>1
  <2> QED BY <1>1, <2>1, <2>2, CounterOf DEF Sound
<1> QED BY <1>2, <1>3, <1>4

\* A toggle restarts the timer from zero, and is seen on the pin.
LEMMA BlinkUpdateSound ==
  ASSUME NEW m, Sound(m, "blink"), m.flag["blink"] = UP, NEW now \in Nat
  PROVE  LET r == BlinkUpdate(m, now)
             toggles == (m.timer.match \/ m.timer.count >= Compare) /\ PinReady(m)
         IN /\ Sound(r, "blink")
            /\ toggles /\ Blinking(m) => Fresh(r, now) /\ r.gpio # m.gpio
            /\ ~toggles => r = m
<1> DEFINE toggles == (m.timer.match \/ m.timer.count >= Compare) /\ PinReady(m)
<1>1. CASE ~toggles
  BY <1>1 DEF BlinkUpdate
<1>2. CASE toggles
  <2> DEFINE b == HalToggle(m)
             c == HalReset(b, now)
             r == HalStart(c, now)
  <2>1. r = BlinkUpdate(m, now)
    BY <1>2 DEF BlinkUpdate
  <2>2. /\ b \in Systems /\ Pair(b) = Pair(m) /\ b.timer = m.timer /\ b.uart = m.uart
        /\ b.flag = m.flag /\ PinReady(b) /\ Pin \in b.gpio.dir /\ b.gpio # m.gpio
    BY <1>2, ToggleOf DEF Sound
  <2> HIDE DEF b
  <2>3. OwnEvents(Pair(b)) /\ Pair(b) \in Pairs /\ Pair(b).timer = b.timer
    BY <2>2, PairOf DEF Sound
  <2>4. /\ c \in Systems /\ OwnEvents(Pair(c)) /\ Pair(c) \in Pairs /\ Pair(c).timer = c.timer
        /\ c.timer.attached = b.timer.attached /\ c.timer.compare = b.timer.compare
        /\ c.timer.count = 0 /\ ~c.timer.match
        /\ c.gpio = b.gpio /\ c.uart = b.uart /\ c.flag = b.flag
    <3> DEFINE p == TimerReset(Pair(b), now)
    <3>1. /\ p \in Pairs /\ p.sched.events = {} /\ p.timer.attached = b.timer.attached
          /\ p.timer.compare = b.timer.compare /\ p.timer.count = 0 /\ ~p.timer.match
      BY <2>3, ResetOf
    <3> HIDE DEF p
    <3>2. OwnEvents(p)
      BY <3>1 DEF OwnEvents
    <3>3. c = Put(b, p)
      BY DEF HalReset, p
    <3> HIDE DEF c
    <3> QED BY <2>2, <3>1, <3>2, <3>3, PutOf
  <2> HIDE DEF c
  <2>5. /\ r \in Systems /\ OwnEvents(Pair(r)) /\ TimerRunning(r.timer)
        /\ r.timer.attached = c.timer.attached /\ r.timer.compare = c.timer.compare
        /\ r.timer.count = 0 /\ ~r.timer.match
        /\ r.timer.attached => r.timer.last = now
        /\ \A ev \in r.sched.events : ev.cycle = now + r.timer.compare - 0
        /\ r.gpio = c.gpio /\ r.uart = c.uart /\ r.flag = c.flag
    <3> DEFINE p == TimerStart(Pair(c), TIMER, now)
    <3>1. /\ p \in Pairs /\ OwnEvents(p) /\ p.timer.attached = c.timer.attached
          /\ TimerRunning(p.timer) /\ (p.timer.attached => p.timer.last = now)
          /\ p.timer.compare = c.timer.compare /\ p.timer.count = 0 /\ ~p.timer.match
          /\ \A ev \in p.sched.events : ev.cycle = now + p.timer.compare - p.timer.count
      BY <2>4, StartOf, SMTT(30)
    <3> HIDE DEF p
    <3>2. r = Put(c, p)
      BY DEF HalStart, p
    <3> HIDE DEF r
    <3> QED BY <2>4, <3>1, <3>2, PutOf
  <2> HIDE DEF r
  <2>6. Sound(r, "blink")
    BY <2>2, <2>4, <2>5 DEF Sound
  <2>7. ASSUME Blinking(m) PROVE Fresh(r, now) /\ r.gpio # m.gpio
    <3>1. /\ PinReady(r) /\ r.timer.attached /\ r.timer.compare = Compare
          /\ r.flag["blink"] = UP
      BY <2>2, <2>4, <2>5, <2>7 DEF PinReady, Blinking
    <3>2. now + Compare - 0 = now + Compare
      BY Numbers
    <3> QED BY <2>2, <2>4, <2>5, <3>1, <3>2 DEF Fresh, Blinking
  <2> QED BY <1>2, <2>1, <2>6, <2>7
<1> QED BY <1>1, <1>2

LEMMA EchoUpdateSound ==
  ASSUME NEW m, Sound(m, "echo")
  PROVE  Sound(EchoUpdate(m), "echo")
<1> DEFINE u == m.uart
           w == [u EXCEPT !.tx = u.tx \o u.rx, !.rx = <<>>, !.data = Last(u.rx)]
           v == Uart!UpdateStatusRegister(w)
<1>1. m \in Systems /\ u \in Uart!UartState(Bytes \cup {0}, {1})
  BY PairOf DEF Sound
<1>2. CASE ~Uart!CanRead(u)
  BY <1>2 DEF EchoUpdate
<1>3. CASE Uart!CanRead(u)
  <2>1. EchoUpdate(m) = [m EXCEPT !.uart = v]
    BY <1>3 DEF EchoUpdate
  <2>2. u.rx \in Seq(Bytes \cup {0}) /\ u.tx \in Seq(Bytes \cup {0}) /\ u.rx # <<>>
    BY <1>1, <1>3 DEF Uart!UartState, Uart!CanRead
  <2>3. Last(u.rx) \in Bytes \cup {0} /\ u.tx \o u.rx \in Seq(Bytes \cup {0})
    BY <2>2 DEF Last
  <2>4. /\ w = [u EXCEPT !.enabled = w.enabled, !.tx = w.tx, !.rx = w.rx, !.data = w.data]
        /\ w.enabled = u.enabled /\ u.enabled \in BOOLEAN
        /\ w.tx = u.tx \o u.rx /\ w.rx = <<>> /\ w.data = Last(u.rx)
    BY <1>1 DEF Uart!UartState
  <2> HIDE DEF w, u
  <2>5. v \in Uart!UartState(Bytes \cup {0}, {1}) /\ v.enabled = u.enabled
    <3>1. /\ w.enabled \in BOOLEAN /\ w.tx \in Seq(Bytes \cup {0})
          /\ w.rx \in Seq(Bytes \cup {0}) /\ w.data \in Bytes \cup {0}
      BY <2>3, <2>4
    <3> QED BY <1>1, <2>4, <3>1, StatusKeepsType
  <2> HIDE DEF v
  <2> DEFINE r == [m EXCEPT !.uart = v]
  <2>6. /\ r \in Systems /\ Pair(r) = Pair(m) /\ r.timer = m.timer /\ r.sched = m.sched
        /\ r.uart = v /\ r.gpio = m.gpio /\ r.flag = m.flag
    BY <1>1, <2>5, UartOf
  <2> HIDE DEF r
  <2> QED BY <2>1, <2>5, <2>6 DEF Sound, u, r
<1> QED BY <1>2, <1>3

LEMMA UpdateSound ==
  ASSUME NEW f \in Firmwares, NEW m, Sound(m, f), NEW now \in Nat
  PROVE  Sound(Update(m, f, now), f)
<1>1. CASE m.flag[f] # UP
  BY <1>1 DEF Update
<1>2. CASE m.flag[f] = UP /\ f = "basic"
  <2>1. Update(m, f, now) = BasicUpdate(m)
    BY <1>2 DEF Update
  <2> QED BY <1>2, <2>1, BasicUpdateSound
<1>3. CASE m.flag[f] = UP /\ f = "blink"
  <2>1. Update(m, f, now) = BlinkUpdate(m, now)
    BY <1>3 DEF Update
  <2> QED BY <1>3, <2>1, BlinkUpdateSound
<1>4. CASE m.flag[f] = UP /\ f = "echo"
  <2>1. Update(m, f, now) = EchoUpdate(m)
    BY <1>4 DEF Update
  <2> QED BY <1>4, <2>1, EchoUpdateSound
<1> QED BY <1>1, <1>2, <1>3, <1>4, Names

\* A firmware that nobody has brought up, or that has let go of everything.
Quiet(m) == /\ m \in Systems /\ OwnEvents(Pair(m))
            /\ Pin \notin m.gpio.in /\ ~TimerRunning(m.timer)
            /\ m.uart.enabled => m.flag["echo"] # SHUT

LEMMA QuietWhenNotUp ==
  ASSUME NEW f \in Firmwares, NEW m, Sound(m, f), m.flag[f] # UP
  PROVE  Quiet(m) /\ \A g \in Firmwares : m.flag[g] # UP
<1>1. \A g \in Firmwares : m.flag[g] # UP
  BY DEF Sound
<1> QED BY <1>1, Names DEF Sound, Quiet

LEMMA SoundWhenDown ==
  ASSUME NEW f, NEW m, Quiet(m), \A g \in Firmwares : m.flag[g] # UP
  PROVE  Sound(m, f)
BY DEF Sound, Quiet

\* What a firmware that is up lets go of.
LEMMA ReleasedSound ==
  ASSUME NEW f \in Firmwares, NEW m, Sound(m, f), m.flag[f] = UP
  PROVE  LET r == Released(m, f)
         IN /\ r \in Systems /\ OwnEvents(Pair(r)) /\ r.flag = m.flag
            /\ Pin \notin r.gpio.in /\ ~TimerRunning(r.timer)
            /\ r.timer.attached = m.timer.attached
            /\ IF f = "echo" THEN ~r.uart.enabled ELSE r.uart = m.uart
<1>1. m \in Systems /\ OwnEvents(Pair(m)) /\ Pair(m) \in Pairs /\ Pair(m).timer = m.timer
  BY PairOf DEF Sound
<1>2. \A g \in Firmwares : g # f => m.flag[g] # UP
  BY DEF Sound
<1>3. ASSUME NEW a, a \in Systems, Pair(a) \in Pairs, OwnEvents(Pair(a)), a.flag = m.flag,
             a.gpio = m.gpio, a.uart = m.uart, ~TimerRunning(a.timer),
             a.timer.attached = m.timer.attached
      PROVE  LET r == HalWrite(a, FALSE)
             IN /\ r \in Systems /\ OwnEvents(Pair(r)) /\ r.flag = m.flag
                /\ Pin \notin r.gpio.in /\ ~TimerRunning(r.timer)
                /\ r.timer.attached = m.timer.attached /\ r.uart = m.uart
  <2> DEFINE r == HalWrite(a, FALSE)
  <2>1. /\ r \in Systems /\ Pair(r) = Pair(a) /\ r.timer = a.timer
        /\ r.uart = a.uart /\ r.flag = a.flag
        /\ PinReady(a) => Pin \notin r.gpio.in
        /\ ~PinReady(a) => r = a
    BY <1>3, WriteOf
  <2>2. ~PinReady(a) => Pin \notin a.gpio.in
    BY <1>3 DEF Sound, PinReady, Gpio!IsOutputPin
  <2> HIDE DEF r
  <2> QED BY <1>3, <2>1, <2>2 DEF r
<1>4. CASE f = "basic"
  <2>1. Released(m, f) = HalWrite(m, FALSE)
    BY <1>4 DEF Released
  <2>2. ~TimerRunning(m.timer)
    BY <1>2, <1>4, Names DEF Sound
  <2> QED BY <1>1, <1>3, <1>4, <2>1, <2>2
<1>5. CASE f = "blink"
  <2> DEFINE p == TimerStop(Pair(m))
             a == HalStop(m)
  <2>1. Released(m, f) = HalWrite(a, FALSE)
    BY <1>5 DEF Released
  <2>2. /\ p \in Pairs /\ p.sched.events = {} /\ ~TimerRunning(p.timer)
        /\ p.timer.attached = m.timer.attached
    BY <1>1, StopOf
  <2> HIDE DEF p
  <2>3. a = Put(m, p)
    BY DEF HalStop, p
  <2>4. OwnEvents(p)
    BY <2>2 DEF OwnEvents
  <2> HIDE DEF a
  <2>5. /\ a \in Systems /\ Pair(a) = p /\ a.timer = p.timer /\ a.flag = m.flag
        /\ a.gpio = m.gpio /\ a.uart = m.uart
    BY <1>1, <2>2, <2>3, PutOf
  <2> QED BY <1>3, <1>5, <2>1, <2>2, <2>4, <2>5
<1>6. CASE f = "echo"
  <2> DEFINE v == Uart!Disable(m.uart)
             r == [m EXCEPT !.uart = v]
  <2>1. Released(m, f) = r
    BY <1>6 DEF Released
  <2>2. v \in Uart!UartState(Bytes \cup {0}, {1}) /\ ~v.enabled
    <3> DEFINE u == m.uart
               w == [u EXCEPT !.enabled = FALSE]
    <3>1. u \in Uart!UartState(Bytes \cup {0}, {1})
      BY <1>1, PairOf
    <3>2. /\ w = [u EXCEPT !.enabled = w.enabled, !.tx = w.tx, !.rx = w.rx, !.data = w.data]
          /\ w.enabled = FALSE /\ w.tx \in Seq(Bytes \cup {0})
          /\ w.rx \in Seq(Bytes \cup {0}) /\ w.data \in Bytes \cup {0}
      BY <3>1 DEF Uart!UartState
    <3>3. v = Uart!UpdateStatusRegister(w)
      BY DEF Uart!Disable
    <3> HIDE DEF u, w, v
    <3> QED BY <3>1, <3>2, <3>3, StatusKeepsType
  <2> HIDE DEF v
  <2>3. /\ r \in Systems /\ Pair(r) = Pair(m) /\ r.timer = m.timer
        /\ r.uart = v /\ r.gpio = m.gpio /\ r.flag = m.flag
    BY <1>1, <2>2, UartOf
  <2> HIDE DEF r
  <2>4. Pin \notin m.gpio.in /\ ~TimerRunning(m.timer)
    BY <1>2, <1>6, Names DEF Sound
  <2> QED BY <1>1, <1>6, <2>1, <2>2, <2>3, <2>4
<1> QED BY <1>4, <1>5, <1>6, Names

\* A firmware that cannot let go of its pin stays up, with nothing on.
LEMMA StuckSound ==
  ASSUME NEW f \in Firmwares, NEW m, Sound(m, f), Stuck(m, f)
  PROVE  Sound(Released(m, f), f)
<1>1. m.flag[f] = UP /\ f # "echo"
  BY DEF Stuck
<1> DEFINE r == Released(m, f)
<1>2. /\ r \in Systems /\ OwnEvents(Pair(r)) /\ r.flag = m.flag
      /\ Pin \notin r.gpio.in /\ ~TimerRunning(r.timer) /\ r.uart = m.uart
  BY <1>1, ReleasedSound
<1> HIDE DEF r
<1> QED BY <1>2 DEF Sound, r

LEMMA ShutdownSound ==
  ASSUME NEW f \in Firmwares, NEW m, Sound(m, f)
  PROVE  /\ Sound(Shutdown(m, f), f)
         /\ ~Stuck(m, f) => \A g : Sound(Shutdown(m, f), g)
<1>1. CASE m.flag[f] # UP
  <2>1. Shutdown(m, f) = m
    BY <1>1 DEF Shutdown, Stuck
  <2> QED BY <1>1, <2>1, QuietWhenNotUp, SoundWhenDown
<1>2. CASE Stuck(m, f)
  <2>1. Shutdown(m, f) = Released(m, f)
    BY <1>2 DEF Shutdown, Stuck
  <2> QED BY <1>2, <2>1, StuckSound
<1>3. CASE m.flag[f] = UP /\ ~Stuck(m, f)
  <2> DEFINE a == Released(m, f)
             r == [a EXCEPT !.flag[f] = SHUT]
  <2>1. Shutdown(m, f) = r
    BY <1>3 DEF Shutdown
  <2>2. /\ a \in Systems /\ OwnEvents(Pair(a)) /\ a.flag = m.flag
        /\ Pin \notin a.gpio.in /\ ~TimerRunning(a.timer)
        /\ IF f = "echo" THEN ~a.uart.enabled ELSE a.uart = m.uart
    BY <1>3, ReleasedSound
  <2> HIDE DEF a
  <2>3. /\ r \in Systems /\ Pair(r) = Pair(a) /\ r.timer = a.timer
        /\ r.uart = a.uart /\ r.gpio = a.gpio
        /\ r.flag[f] = SHUT /\ \A h \in Firmwares \ {f} : r.flag[h] = a.flag[h]
    BY <2>2, FlagOf
  <2> HIDE DEF r
  <2>4. \A g \in Firmwares : r.flag[g] # UP
    BY <2>2, <2>3, Names DEF Sound
  <2>5. Quiet(r)
    BY <2>2, <2>3, Names DEF Sound, Quiet
  <2> QED BY <2>1, <2>4, <2>5, SoundWhenDown
<1> QED BY <1>1, <1>2, <1>3

LEMMA ResetSound ==
  ASSUME NEW f \in Firmwares, NEW m, Sound(m, f)
  PROVE  LET r == Reset(m, f)
         IN /\ Sound(r, f)
            /\ ~Stuck(m, f) => r.flag[f] # UP /\ r.timer.attached = m.timer.attached
<1>1. CASE Stuck(m, f)
  <2>1. Reset(m, f) = Released(m, f)
    BY <1>1 DEF Reset
  <2> QED BY <1>1, <2>1, StuckSound
<1>2. CASE ~Stuck(m, f)
  <2> DEFINE a == IF m.flag[f] = UP THEN Released(m, f) ELSE m
             b == [a EXCEPT !.flag[f] = FRESH]
             n == IF f = "basic" THEN 0 ELSE b.counter
             r == [b EXCEPT !.counter = n]
  <2>1. /\ a \in Systems /\ OwnEvents(Pair(a)) /\ a.flag = m.flag
        /\ Pin \notin a.gpio.in /\ ~TimerRunning(a.timer)
        /\ a.timer.attached = m.timer.attached
        /\ a.uart.enabled => f = "echo" \/ m.flag["echo"] # SHUT
    <3>1. CASE m.flag[f] = UP
      BY <3>1, ReleasedSound DEF Sound
    <3>2. CASE m.flag[f] # UP
      BY <3>2, QuietWhenNotUp DEF Quiet
    <3> QED BY <3>1, <3>2
  <2>2. a \in Systems /\ a.counter \in 0 .. Interval
    BY <2>1, PairOf
  <2>3. Reset(m, f) = r
    <3> HIDE DEF a
    <3>1. [a EXCEPT !.flag[f] = FRESH, !.counter = IF f = "basic" THEN 0 ELSE @] = r
      BY <2>2 DEF Systems
    <3>2. Reset(m, f) = [a EXCEPT !.flag[f] = FRESH, !.counter = IF f = "basic" THEN 0 ELSE @]
      BY <1>2 DEF Reset, a
    <3> QED BY <3>1, <3>2
  <2> HIDE DEF a
  <2>4. /\ b \in Systems /\ Pair(b) = Pair(a) /\ b.timer = a.timer
        /\ b.uart = a.uart /\ b.gpio = a.gpio /\ b.counter = a.counter
        /\ b.flag[f] = FRESH /\ \A h \in Firmwares \ {f} : b.flag[h] = a.flag[h]
    BY <2>2, FlagOf
  <2> HIDE DEF b
  <2>5. n \in 0 .. Interval
    BY <2>2, <2>4, ApplicationAssumption
  <2> HIDE DEF n
  <2>6. /\ r \in Systems /\ Pair(r) = Pair(b) /\ r.timer = b.timer
        /\ r.uart = b.uart /\ r.gpio = b.gpio /\ r.flag = b.flag
    BY <2>4, <2>5, CounterOf
  <2> HIDE DEF r
  <2>7. \A g \in Firmwares : r.flag[g] # UP
    BY <2>1, <2>4, <2>6, Names DEF Sound
  <2>8. Quiet(r)
    BY <2>1, <2>4, <2>6, Names DEF Quiet
  <2> QED BY <1>2, <2>1, <2>3, <2>4, <2>6, <2>7, <2>8, SoundWhenDown
<1> QED BY <1>1, <1>2

\* A function of the timer that leaves it running only if it was.
LEMMA PutSound ==
  ASSUME NEW f, NEW m, Sound(m, f), NEW p \in Pairs, OwnEvents(p),
         TimerRunning(p.timer) => TimerRunning(m.timer)
  PROVE  Sound(Put(m, p), f)
<1> DEFINE r == Put(m, p)
<1>1. /\ r \in Systems /\ Pair(r) = p /\ r.timer = p.timer
      /\ r.gpio = m.gpio /\ r.uart = m.uart /\ r.flag = m.flag
  BY PutOf DEF Sound
<1> HIDE DEF r
<1> QED BY <1>1 DEF Sound, r

LEMMA PairSound ==
  ASSUME NEW f, NEW m, Sound(m, f)
  PROVE  Pair(m) \in Pairs /\ OwnEvents(Pair(m)) /\ Pair(m).timer = m.timer
         /\ Pair(m).sched = m.sched
BY PairOf DEF Sound

\* A queue that loses events.
LEMMA FewerEventsSound ==
  ASSUME NEW f, NEW m, Sound(m, f), NEW E \in SUBSET m.sched.events
  PROVE  LET r == [m EXCEPT !.sched = [@ EXCEPT !.events = E]]
         IN Sound(r, f) /\ r.timer = m.timer /\ r.sched.events = E
            /\ r.gpio = m.gpio /\ r.uart = m.uart /\ r.flag = m.flag
<1> DEFINE s == [m.sched EXCEPT !.events = E]
           p == [timer |-> m.timer, sched |-> s]
           r == [m EXCEPT !.sched = s]
<1>1. m \in Systems /\ m.timer \in TimerState
      /\ m.sched \in [events : SUBSET Event({TIMER}), nextId : Nat \ {0}]
  BY DEF Sound, Systems
<1>2. /\ s \in [events : SUBSET Event({TIMER}), nextId : Nat \ {0}] /\ s.events = E
  BY <1>1
<1>3. p \in Pairs /\ p.timer = m.timer /\ p.sched = s
  BY <1>1, <1>2 DEF Pairs
<1>4. r = Put(m, p)
  BY <1>1 DEF Put, Systems
<1>5. OwnEvents(p)
  BY <1>2, <1>3, PairSound DEF OwnEvents
<1> HIDE DEF s, p
<1>6. Sound(r, f)
  BY <1>3, <1>4, <1>5, PutSound
<1>7. r.timer = m.timer /\ r.sched = s
      /\ r.gpio = m.gpio /\ r.uart = m.uart /\ r.flag = m.flag
  BY <1>1, <1>3, <1>4, PutOf
<1> HIDE DEF r
<1> QED BY <1>2, <1>6, <1>7 DEF r, s

\* A bus reset leaves every firmware as up as it was.
LEMMA PeripheralsResetSound ==
  ASSUME NEW f, NEW m, Sound(m, f), NEW now \in Nat
  PROVE  LET r == PeripheralsReset(m, now)
         IN Sound(r, f) /\ r.flag = m.flag /\ r.timer.attached = m.timer.attached
<1> DEFINE t == IF m.timer.attached THEN HalReset(m, now) ELSE m
           g == Gpio!Reset(t.gpio)
           v == Uart!Reset(t.uart)
           a == [t EXCEPT !.sched = ClearEvents(t.sched)]
           b == [a EXCEPT !.uart = v]
           r == [b EXCEPT !.gpio = g]
<1>1. Sound(t, f) /\ t.flag = m.flag /\ t.timer.attached = m.timer.attached
  <2>1. CASE m.timer.attached
    <3> DEFINE p == TimerReset(Pair(m), now)
    <3>1. /\ p \in Pairs /\ p.sched.events = {} /\ ~TimerRunning(p.timer)
          /\ p.timer.attached = m.timer.attached
      BY PairSound, ResetOf
    <3> HIDE DEF p
    <3>2. OwnEvents(p)
      BY <3>1 DEF OwnEvents
    <3>3. t = Put(m, p)
      BY <2>1 DEF HalReset, p
    <3>4. Put(m, p).flag = m.flag /\ Put(m, p).timer = p.timer
      BY <3>1, PutOf DEF Sound
    <3> HIDE DEF t
    <3> QED BY <3>1, <3>2, <3>3, <3>4, PutSound
  <2> QED BY <2>1
<1> HIDE DEF t
<1>2. t \in Systems
  BY <1>1 DEF Sound
<1>3. PeripheralsReset(m, now) = r
  <2>1. PeripheralsReset(m, now)
          = [t EXCEPT !.gpio = g, !.uart = v, !.sched = ClearEvents(t.sched)]
    BY DEF PeripheralsReset, t
  <2> HIDE DEF g, v
  <2> QED BY <1>2, <2>1 DEF Systems
<1>4. Sound(a, f) /\ a.timer = t.timer /\ a.uart = t.uart /\ a.flag = t.flag
  <2>1. a = [t EXCEPT !.sched = [@ EXCEPT !.events = {}]]
    BY DEF ClearEvents
  <2> DEFINE E == {}
  <2>2. E \in SUBSET t.sched.events
    OBVIOUS
  <2>3. a = [t EXCEPT !.sched = [@ EXCEPT !.events = E]]
    BY <2>1
  <2> HIDE DEF a, E
  <2> QED BY <1>1, <2>2, <2>3, FewerEventsSound, ZenonT(30)
<1> HIDE DEF a
<1>5. a \in Systems /\ t.uart \in Uart!UartState(Bytes \cup {0}, {1})
  BY <1>2, <1>4, PairOf DEF Sound
<1>6. v \in Uart!UartState(Bytes \cup {0}, {1}) /\ ~v.enabled
  <2> DEFINE u == t.uart
             w == [u EXCEPT !.enabled = FALSE, !.tx = <<>>, !.rx = <<>>, !.data = 0]
  <2>1. /\ w = [u EXCEPT !.enabled = w.enabled, !.tx = w.tx, !.rx = w.rx, !.data = w.data]
        /\ w.enabled = FALSE /\ w.tx \in Seq(Bytes \cup {0})
        /\ w.rx \in Seq(Bytes \cup {0}) /\ w.data \in Bytes \cup {0}
    BY <1>5 DEF Uart!UartState
  <2>2. v = Uart!UpdateStatusRegister(w)
    BY DEF Uart!Reset
  <2>3. u \in Uart!UartState(Bytes \cup {0}, {1})
    BY <1>5
  <2> HIDE DEF u, w, v
  <2> QED BY <2>1, <2>2, <2>3, StatusKeepsType
<1> HIDE DEF v
<1>7. /\ b \in Systems /\ Pair(b) = Pair(a) /\ b.timer = a.timer
      /\ b.uart = v /\ b.gpio = a.gpio /\ b.flag = a.flag
  BY <1>5, <1>6, UartOf
<1> HIDE DEF b
<1>8. g \in Gpio!GpioState(0 .. 31) /\ Pin \notin g.in
  BY DEF Gpio!Reset, Gpio!NewGPIO, Gpio!GpioState
<1> HIDE DEF g
<1>9. /\ r \in Systems /\ Pair(r) = Pair(b) /\ r.timer = b.timer
      /\ r.uart = b.uart /\ r.gpio = g /\ r.flag = b.flag
  BY <1>7, <1>8 DEF Systems, Pair
<1> HIDE DEF r
<1> QED BY <1>1, <1>3, <1>4, <1>6, <1>7, <1>8, <1>9 DEF Sound

\* The clock and the timer, and the batch taken out of the queue.
LEMMA TickedSound ==
  ASSUME NEW f, Sound(sys, f), clock \in Nat
  PROVE  /\ Sound(Ticked, f)
         /\ Ticked.flag = sys.flag /\ Ticked.gpio = sys.gpio
         /\ sys.timer.attached =>
              /\ Ticked.timer.attached /\ Ticked.timer.last = clock + 1
              /\ TimerRunning(Ticked.timer) <=> TimerRunning(sys.timer)
              /\ Ticked.timer.compare = sys.timer.compare
              /\ Ticked.timer.match = sys.timer.match
              /\ TimerRunning(sys.timer) /\ sys.timer.last = clock
                   => Ticked.timer.count = (sys.timer.count + 1) % CountRange
              /\ Ticked.sched.events = sys.sched.events \ ReadyEvents(sys.sched, clock + 1)
<1> DEFINE p == TimerTick(Pair(sys), clock + 1)
           m == IF sys.timer.attached THEN Put(sys, p) ELSE sys
           E == m.sched.events \ ReadyEvents(m.sched, clock + 1)
           r == [m EXCEPT !.sched = [@ EXCEPT !.events = E]]
<1>1. /\ p \in Pairs /\ OwnEvents(p) /\ (TimerRunning(p.timer) => TimerRunning(sys.timer))
      /\ sys.timer.attached =>
           /\ p.sched = sys.sched /\ p.timer.attached /\ p.timer.last = clock + 1
           /\ TimerRunning(sys.timer) => TimerRunning(p.timer)
           /\ p.timer.compare = sys.timer.compare /\ p.timer.match = sys.timer.match
           /\ TimerRunning(sys.timer) /\ sys.timer.last + 1 = clock + 1
                => p.timer.count = (sys.timer.count + 1) % CountRange
  <2>1. clock + 1 \in Nat
    OBVIOUS
  <2>2. /\ Pair(sys) \in Pairs /\ OwnEvents(Pair(sys)) /\ Pair(sys).timer = sys.timer
        /\ Pair(sys).sched = sys.sched
    BY PairSound
  <2> QED BY <2>1, <2>2, TickOf
<1> HIDE DEF p
<1>2. /\ Put(sys, p).timer = p.timer /\ Put(sys, p).sched = p.sched
      /\ Put(sys, p).flag = sys.flag /\ Put(sys, p).gpio = sys.gpio
      /\ Sound(Put(sys, p), f)
  BY <1>1, PutOf, PutSound DEF Sound
<1>3. /\ Sound(m, f) /\ m.flag = sys.flag /\ m.gpio = sys.gpio
      /\ sys.timer.attached => m.timer = p.timer /\ m.sched = sys.sched
  BY <1>1, <1>2
<1>4. Ticked = r
  BY DEF Ticked, RemainingEvents, p
<1> HIDE DEF m
<1>5. E \in SUBSET m.sched.events
  OBVIOUS
<1>6. /\ Sound(r, f) /\ r.timer = m.timer /\ r.sched.events = E
      /\ r.gpio = m.gpio /\ r.flag = m.flag
  <2> HIDE DEF E
  <2> QED BY <1>3, <1>5, FewerEventsSound
<1> HIDE DEF r
<1> QED BY <1>1, <1>3, <1>4, <1>6

\* The event of the timer, if it is due.
LEMMA MatchedSound ==
  ASSUME NEW f, Sound(sys, f), clock \in Nat
  PROVE  /\ Sound(Matched, f)
         /\ Matched.flag = sys.flag /\ Matched.gpio = sys.gpio
         /\ ReadyEvents(sys.sched, clock + 1) = {} => Matched = Ticked
         /\ ReadyEvents(sys.sched, clock + 1) # {} =>
              /\ ~TimerRunning(Matched.timer)
              /\ Matched.timer.attached = Ticked.timer.attached
              /\ Matched.timer.compare = Ticked.timer.compare
              /\ Matched.timer.last = Ticked.timer.last
              /\ TimerRunning(Ticked.timer) => Matched.timer.match
              /\ Matched.sched.events \subseteq Ticked.sched.events
<1> DEFINE t == Ticked
           p == HandleCompareMatch(Pair(t))
<1>1. Sound(t, f) /\ t.flag = sys.flag /\ t.gpio = sys.gpio
  BY TickedSound
<1>2. CASE ReadyEvents(sys.sched, clock + 1) = {}
  <2>1. Matched = t
    BY <1>2 DEF Matched
  <2> QED BY <1>1, <1>2, <2>1
<1>3. CASE ReadyEvents(sys.sched, clock + 1) # {}
  <2>1. Matched = Put(t, p)
    BY <1>3 DEF Matched
  <2> HIDE DEF t
  <2>2. /\ p \in Pairs /\ OwnEvents(p) /\ ~TimerRunning(p.timer)
        /\ p.timer.compare = t.timer.compare /\ p.timer.attached = t.timer.attached
        /\ p.timer.last = t.timer.last
        /\ TimerRunning(t.timer) => p.timer.match
        /\ p.sched.events \subseteq t.sched.events
    BY <1>1, PairSound, MatchOf
  <2> HIDE DEF p
  <2>3. /\ Put(t, p).timer = p.timer /\ Put(t, p).sched = p.sched
        /\ Put(t, p).flag = t.flag /\ Put(t, p).gpio = t.gpio
        /\ Sound(Put(t, p), f)
    BY <1>1, <2>2, PutOf, PutSound DEF Sound
  <2> QED BY <1>1, <1>3, <2>1, <2>2, <2>3 DEF t
<1> QED BY <1>2, <1>3

LEMMA UartSound ==
  ASSUME NEW f, NEW m, Sound(m, f), NEW v \in Uart!UartState(Bytes \cup {0}, {1}),
         v.enabled => m.uart.enabled
  PROVE  Sound([m EXCEPT !.uart = v], f)
<1> DEFINE r == [m EXCEPT !.uart = v]
<1>1. /\ r \in Systems /\ Pair(r) = Pair(m) /\ r.timer = m.timer
      /\ r.uart = v /\ r.gpio = m.gpio /\ r.flag = m.flag
  BY UartOf DEF Sound
<1> HIDE DEF r
<1> QED BY <1>1 DEF Sound, r

\* What the host does at the serial port.
LEMMA HostUartSound ==
  ASSUME NEW f, NEW m, Sound(m, f)
  PROVE  /\ \A b \in Bytes : Sound([m EXCEPT !.uart = Uart!PushReceivedByte(@, b)], f)
         /\ Sound([m EXCEPT !.uart = Uart!PopTxByte(@)], f)
         /\ Sound([m EXCEPT !.uart = Uart!Disable(@)], f)
<1> DEFINE u == m.uart
           U == Uart!UartState(Bytes \cup {0}, {1})
<1>1. u \in U
  BY PairOf DEF Sound
<1>0. /\ u.enabled \in BOOLEAN /\ u.data \in Bytes \cup {0}
      /\ u.tx \in Seq(Bytes \cup {0}) /\ u.rx \in Seq(Bytes \cup {0})
  BY <1>1 DEF Uart!UartState
<1>2. ASSUME NEW b \in Bytes PROVE Sound([m EXCEPT !.uart = Uart!PushReceivedByte(@, b)], f)
  <2> DEFINE w == [u EXCEPT !.rx = Append(@, b)]
             v == Uart!PushReceivedByte(u, b)
  <2>1. /\ w = [u EXCEPT !.enabled = w.enabled, !.tx = w.tx, !.rx = w.rx, !.data = w.data]
        /\ w.enabled = u.enabled /\ w.enabled \in BOOLEAN /\ w.tx \in Seq(Bytes \cup {0})
        /\ w.rx \in Seq(Bytes \cup {0}) /\ w.data \in Bytes \cup {0}
    <3>1. Append(u.rx, b) \in Seq(Bytes \cup {0})
      BY <1>0
    <3>2. w = [u EXCEPT !.rx = w.rx] /\ w.rx = Append(u.rx, b)
          /\ w.enabled = u.enabled /\ w.tx = u.tx /\ w.data = u.data
      BY <1>1 DEF Uart!UartState
    <3>3. w = [u EXCEPT !.enabled = w.enabled, !.tx = w.tx, !.rx = w.rx, !.data = w.data]
      BY <1>1, <3>2 DEF Uart!UartState
    <3> HIDE DEF w, u
    <3> QED BY <1>0, <3>1, <3>2, <3>3
  <2>2. v = IF ~u.enabled THEN u ELSE Uart!UpdateStatusRegister(w)
    BY DEF Uart!PushReceivedByte
  <2>3. [m EXCEPT !.uart = Uart!PushReceivedByte(@, b)] = [m EXCEPT !.uart = v]
    OBVIOUS
  <2> HIDE DEF w, v
  <2>4. Uart!UpdateStatusRegister(w) \in U /\ Uart!UpdateStatusRegister(w).enabled = w.enabled
    <3> HIDE DEF u
    <3> QED BY <1>1, <2>1, StatusKeepsType
  <2>5. v \in U /\ v.enabled = u.enabled
    BY <1>1, <2>1, <2>2, <2>4
  <2> QED BY <2>3, <2>5, UartSound
<1>3. Sound([m EXCEPT !.uart = Uart!PopTxByte(@)], f)
  <2> DEFINE w == [u EXCEPT !.tx = Tail(@)]
             v == Uart!PopTxByte(u)
  <2>1. CASE u.tx # <<>>
    <3>1. /\ w = [u EXCEPT !.enabled = w.enabled, !.tx = w.tx, !.rx = w.rx, !.data = w.data]
          /\ w.enabled = u.enabled /\ w.enabled \in BOOLEAN /\ w.tx \in Seq(Bytes \cup {0})
          /\ w.rx \in Seq(Bytes \cup {0}) /\ w.data \in Bytes \cup {0}
      <4>1. Tail(u.tx) \in Seq(Bytes \cup {0})
        BY <1>0, <2>1
      <4>2. w = [u EXCEPT !.tx = w.tx] /\ w.tx = Tail(u.tx)
            /\ w.enabled = u.enabled /\ w.rx = u.rx /\ w.data = u.data
        BY <1>1 DEF Uart!UartState
      <4>3. w = [u EXCEPT !.enabled = w.enabled, !.tx = w.tx, !.rx = w.rx, !.data = w.data]
        BY <1>1, <4>2 DEF Uart!UartState
      <4> HIDE DEF w, u
      <4> QED BY <1>0, <4>1, <4>2, <4>3
    <3>2. v = Uart!UpdateStatusRegister(w)
      BY <2>1 DEF Uart!PopTxByte
    <3>3. [m EXCEPT !.uart = Uart!PopTxByte(@)] = [m EXCEPT !.uart = v]
      OBVIOUS
    <3> HIDE DEF w, v
    <3>4. v \in U /\ v.enabled = w.enabled
      <4> HIDE DEF u
      <4> QED BY <1>1, <3>1, <3>2, StatusKeepsType
    <3> QED BY <3>1, <3>3, <3>4, UartSound
  <2>2. CASE u.tx = <<>>
    <3>1. [m EXCEPT !.uart = Uart!PopTxByte(@)] = [m EXCEPT !.uart = u]
      BY <2>2 DEF Uart!PopTxByte
    <3> QED BY <1>1, <3>1, UartSound
  <2> QED BY <2>1, <2>2
<1>4. Sound([m EXCEPT !.uart = Uart!Disable(@)], f)
  <2> DEFINE w == [u EXCEPT !.enabled = FALSE]
             v == Uart!Disable(u)
  <2>1. /\ w = [u EXCEPT !.enabled = w.enabled, !.tx = w.tx, !.rx = w.rx, !.data = w.data]
        /\ w.enabled = FALSE /\ w.tx \in Seq(Bytes \cup {0})
        /\ w.rx \in Seq(Bytes \cup {0}) /\ w.data \in Bytes \cup {0}
    BY <1>1 DEF Uart!UartState
  <2>2. v = Uart!UpdateStatusRegister(w)
    BY DEF Uart!Disable
  <2>3. [m EXCEPT !.uart = Uart!Disable(@)] = [m EXCEPT !.uart = v]
    OBVIOUS
  <2> HIDE DEF w, v
  <2>4. v \in U /\ v.enabled = FALSE
    <3> HIDE DEF u
    <3> QED BY <1>1, <2>1, <2>2, StatusKeepsType
  <2> QED BY <2>3, <2>4, UartSound
<1> QED BY <1>2, <1>3, <1>4

-----------------------------------------------------------------------------
(***************************************************************************)
(* The inductive invariant, action by action.                              *)
(***************************************************************************)
LEMMA Beats ==
  /\ NoBeat \in [steady : BOOLEAN, steps : Nat, cycles : Nat]
  /\ FirstBeat \in [steady : BOOLEAN, steps : Nat, cycles : Nat]
  /\ ~NoBeat.steady /\ FirstBeat.steady /\ FirstBeat.steps = 0 /\ FirstBeat.cycles = 0
  /\ \A m : Begun(m) = IF active = "blink" /\ m.timer.attached THEN FirstBeat ELSE NoBeat
BY DEF NoBeat, FirstBeat, Begun

LEMMA InitHolds == Init => IInv /\ Steady
<1> SUFFICES ASSUME Init PROVE IInv /\ Steady
  OBVIOUS
<1> DEFINE u == Uart!NewUART(1)
           w == [u EXCEPT !.enabled = TRUE]
           v == Uart!Enable(u)
<1>1. /\ sys = [timer |-> NewTimer, sched |-> NewEventScheduler, gpio |-> Gpio!NewGPIO,
                uart |-> v, flag |-> [f \in Firmwares |-> FRESH], counter |-> 0]
      /\ active \in Firmwares /\ running = FALSE /\ clock = 0 /\ beat = NoBeat
  BY DEF Init
<1>2. u \in Uart!UartState(Bytes \cup {0}, {1})
  BY DEF Uart!NewUART, Uart!UartState, Uart!TX_EMPTY
<1>3. v \in Uart!UartState(Bytes \cup {0}, {1})
  <2>1. /\ w = [u EXCEPT !.enabled = w.enabled, !.tx = w.tx, !.rx = w.rx, !.data = w.data]
        /\ w.enabled \in BOOLEAN /\ w.tx \in Seq(Bytes \cup {0}) /\ w.rx \in Seq(Bytes \cup {0})
        /\ w.data \in Bytes \cup {0}
    BY <1>2 DEF Uart!UartState
  <2>2. v = Uart!UpdateStatusRegister(w)
    BY DEF Uart!Enable
  <2> HIDE DEF u, w, v
  <2> QED BY <1>2, <2>1, <2>2, StatusKeepsType
<1> HIDE DEF v
<1>4. NewTimer \in TimerState /\ ~TimerRunning(NewTimer)
  BY Numbers DEF NewTimer, TimerState, TimerRunning
<1>5. /\ NewEventScheduler \in [events : SUBSET Event({TIMER}), nextId : Nat \ {0}]
      /\ NewEventScheduler.events = {}
  BY DEF NewEventScheduler
<1>6. Gpio!NewGPIO \in Gpio!GpioState(0 .. 31) /\ Gpio!NewGPIO.in = {}
  BY DEF Gpio!NewGPIO, Gpio!GpioState
<1>7. 0 \in 0 .. Interval /\ 0 \in 0 .. MaxClock
  BY ApplicationAssumption
<1>8. sys \in Systems
  BY <1>1, <1>3, <1>4, <1>5, <1>6, <1>7 DEF Systems
<1>9. /\ sys.timer = NewTimer /\ sys.sched = NewEventScheduler /\ sys.gpio = Gpio!NewGPIO
      /\ \A f \in Firmwares : sys.flag[f] = FRESH
  BY <1>1
<1>10. Pair(sys).sched.events = {}
  BY <1>5, <1>9 DEF Pair
<1>11. Sound(sys, active)
  BY <1>4, <1>6, <1>8, <1>9, <1>10, Names DEF Sound, OwnEvents
<1> QED BY <1>1, <1>7, <1>8, <1>11, Beats DEF IInv, TypeOK, Steady

\* What holds of the variables in a state of the invariant.
LEMMA IInvFacts ==
  ASSUME IInv
  PROVE  /\ sys \in Systems /\ Sound(sys, active)
         /\ active \in Firmwares /\ running \in BOOLEAN
         /\ clock \in Nat /\ clock <= MaxClock /\ 0 \in 0 .. MaxClock /\ MaxClock \in Nat
         /\ beat.steady \in BOOLEAN /\ beat.steps \in Nat /\ beat.cycles \in Nat
         /\ beat \in [steady : BOOLEAN, steps : Nat, cycles : Nat]
BY ApplicationAssumption DEF IInv, TypeOK

\* Begun(sys) says whether initialize() has just started the timer.
LEMMA BegunSteady ==
  ASSUME NEW m \in Systems, NEW a \in Firmwares, NEW now \in Nat, active = a,
         a = "blink" /\ sys.timer.attached => Fresh(m, now),
         sys' = m, clock' = now, beat' = Begun(sys), active' = a
  PROVE  Steady'
<1>1. beat'.steady => a = "blink" /\ sys.timer.attached /\ beat' = FirstBeat
  BY Beats
<1>2. Compare \in Nat /\ Compare >= 1
  BY Numbers
<1> SUFFICES ASSUME beat'.steady
             PROVE  /\ active' = "blink" /\ Blinking(sys') /\ sys'.timer.last = clock'
                    /\ beat'.cycles <= clock' /\ beat'.steps <= beat'.cycles
                    /\ beat'.steps < Compare
                    /\ TimerRunning(sys'.timer)
                         => sys'.timer.count = beat'.cycles /\ ~sys'.timer.match
                    /\ running' => TimerRunning(sys'.timer)
                    /\ \A e \in sys'.sched.events : e.cycle + beat'.cycles >= clock' + Compare
  BY DEF Steady, Blinking, TimerRunning, PinReady
<1>3. Fresh(m, now) /\ beat'.cycles = 0 /\ beat'.steps = 0 /\ a = "blink"
  BY <1>1, Beats
<1>4. \A e \in m.sched.events : e.cycle + 0 >= now + Compare
  BY <1>2, <1>3 DEF Fresh
<1> QED BY <1>2, <1>3, <1>4 DEF Fresh

\* A firmware is brought up, now or after a reset of the peripherals.
LEMMA BringUpKeeps ==
  ASSUME IInv, NEW m, Sound(m, active), NEW now \in 0 .. MaxClock,
         m.timer.attached = sys.timer.attached,
         sys' = Initialize(m, active, now), clock' = now, beat' = Begun(sys),
         active' = active, running' \in BOOLEAN
  PROVE  IInv' /\ Steady'
<1> DEFINE r == Initialize(m, active, now)
<1>1. now \in Nat /\ active \in Firmwares
  BY IInvFacts
<1>2. Sound(r, active) /\ (active = "blink" /\ m.timer.attached => Fresh(r, now))
  BY <1>1, InitializeSound
<1> HIDE DEF r
<1>3. r \in Systems /\ sys' = r
  BY <1>2 DEF Sound, r
<1>4. Steady'
  BY <1>1, <1>2, <1>3, BegunSteady
<1>5. beat' \in [steady : BOOLEAN, steps : Nat, cycles : Nat]
  BY Beats
<1>6. Sound(sys', active')
  BY <1>2, <1>3
<1>7. IInv'
  BY <1>1, <1>3, <1>5, <1>6 DEF IInv, TypeOK, Sound, Systems, Pair, OwnEvents, TimerRunning
<1> QED BY <1>4, <1>7

\* A step that ends whatever was measured.
LEMMA NoBeatKeeps ==
  ASSUME IInv, NEW m, NEW a \in Firmwares, Sound(m, a), sys' = m, active' = a,
         running' \in BOOLEAN, clock' \in 0 .. MaxClock, beat' = NoBeat
  PROVE  IInv' /\ Steady'
<1>1. beat' \in [steady : BOOLEAN, steps : Nat, cycles : Nat] /\ ~beat'.steady
  BY Beats
<1>2. m \in Systems
  BY DEF Sound
<1>3. IInv'
  BY <1>1, <1>2 DEF IInv, TypeOK, Sound, Systems, Pair, OwnEvents, TimerRunning
<1> QED BY <1>1, <1>3 DEF Steady

LEMMA StartKeeps == ASSUME IInv, Start PROVE IInv' /\ Steady'
<1>1. clock \in 0 .. MaxClock /\ Sound(sys, active)
  BY DEF IInv, TypeOK
<1> QED BY <1>1, BringUpKeeps DEF Start

LEMMA StopKeeps == ASSUME IInv, Stop PROVE IInv' /\ Steady'
<1> DEFINE m == Shutdown(sys, active)
<1>1. active \in Firmwares /\ Sound(m, active) /\ clock \in 0 .. MaxClock
  BY ShutdownSound DEF IInv, TypeOK
<1>2. /\ sys' = m /\ active' = active /\ running' \in BOOLEAN
      /\ clock' \in 0 .. MaxClock /\ beat' = NoBeat
  BY <1>1 DEF Stop
<1> HIDE DEF m
<1> QED BY <1>1, <1>2, NoBeatKeeps

\* The old firmware is down before another one is selected.
LEMMA LoadKeeps ==
  ASSUME IInv, NEW f \in Firmwares, Load(f)
  PROVE  IInv' /\ (Steady => Steady')
<1> DEFINE m == Shutdown(sys, active)
<1>1. active \in Firmwares /\ clock \in 0 .. MaxClock /\ Sound(sys, active)
  BY DEF IInv, TypeOK
<1>2. Sound(m, active) /\ (~Stuck(sys, active) => Sound(m, f))
  BY <1>1, ShutdownSound
<1>3. CASE running \/ f # active
  <2>1. /\ sys' = m /\ active' = (IF Stuck(sys, active) THEN active ELSE f)
        /\ running' \in BOOLEAN /\ clock' \in 0 .. MaxClock /\ beat' = NoBeat
    BY <1>1, <1>3 DEF Load
  <2> HIDE DEF m
  <2>2. CASE Stuck(sys, active)
    BY <1>1, <1>2, <2>1, <2>2, NoBeatKeeps
  <2>3. CASE ~Stuck(sys, active)
    BY <1>2, <2>1, <2>3, NoBeatKeeps
  <2> QED BY <2>2, <2>3
<1>4. CASE ~running /\ f = active
  <2>1. sys' = sys /\ active' = active /\ ~running' /\ running' \in BOOLEAN
        /\ beat' = beat /\ clock' = clock
    BY <1>4 DEF Load
  <2>2. IInv'
    BY <2>1 DEF IInv, TypeOK, Sound, Systems, Pair, OwnEvents, TimerRunning
  <2>3. Steady => Steady'
    BY <2>1 DEF Steady, Blinking, TimerRunning, PinReady
  <2> QED BY <2>2, <2>3
<1> QED BY <1>3, <1>4

LEMMA ResetPeripheralsKeeps == ASSUME IInv, ResetPeripherals PROVE IInv' /\ Steady'
<1> DEFINE m == PeripheralsReset(sys, clock)
<1>1. active \in Firmwares /\ Sound(m, active) /\ running \in BOOLEAN /\ 0 \in 0 .. MaxClock
  BY IInvFacts, PeripheralsResetSound
<1>2. /\ sys' = m /\ active' = active /\ running' \in BOOLEAN
      /\ clock' \in 0 .. MaxClock /\ beat' = NoBeat
  BY <1>1 DEF ResetPeripherals
<1> HIDE DEF m
<1> QED BY <1>1, <1>2, NoBeatKeeps

\* A reset() that throws ends a reset of the CPU, of the firmware or of the system.
LEMMA StuckKeeps ==
  ASSUME IInv, sys' = Reset(sys, active), clock' = clock, beat' = NoBeat,
         UNCHANGED <<active, running>>
  PROVE  IInv' /\ Steady'
<1> DEFINE m == Reset(sys, active)
<1>1. /\ active \in Firmwares /\ Sound(m, active) /\ running \in BOOLEAN
      /\ clock \in 0 .. MaxClock
  BY IInvFacts, ResetSound DEF IInv, TypeOK
<1> HIDE DEF m
<1> QED BY <1>1, NoBeatKeeps DEF m

LEMMA ResetCPUKeeps == ASSUME IInv, ResetCPU PROVE IInv' /\ Steady'
<1> DEFINE s == Reset(sys, active)
           m == PeripheralsReset(s, clock)
<1>1. CASE Stuck(sys, active)
  BY <1>1, StuckKeeps DEF ResetCPU
<1>2. CASE ~Stuck(sys, active)
  <2>1. active \in Firmwares /\ Sound(m, active) /\ running \in BOOLEAN /\ 0 \in 0 .. MaxClock
    <3>1. Sound(s, active)
      BY IInvFacts, ResetSound
    <3> HIDE DEF s
    <3> QED BY <3>1, IInvFacts, PeripheralsResetSound
  <2>2. /\ sys' = m /\ active' = active /\ running' \in BOOLEAN
        /\ clock' \in 0 .. MaxClock /\ beat' = NoBeat
    BY <1>2, <2>1 DEF ResetCPU
  <2> HIDE DEF m
  <2> QED BY <2>1, <2>2, NoBeatKeeps
<1> QED BY <1>1, <1>2

LEMMA ResetFirmwareKeeps == ASSUME IInv, ResetFirmware PROVE IInv' /\ Steady'
<1> DEFINE s == Reset(sys, active)
<1>1. CASE Stuck(sys, active)
  BY <1>1, StuckKeeps DEF ResetFirmware
<1>2. CASE ~Stuck(sys, active)
  <2>1. Sound(s, active) /\ s.timer.attached = sys.timer.attached
    BY <1>2, IInvFacts, ResetSound
  <2>2. /\ sys' = Initialize(s, active, clock) /\ clock' = clock /\ beat' = Begun(sys)
        /\ active' = active /\ running' \in BOOLEAN /\ clock \in 0 .. MaxClock
    BY <1>2 DEF ResetFirmware, IInv, TypeOK
  <2> HIDE DEF s
  <2> QED BY <2>1, <2>2, BringUpKeeps
<1> QED BY <1>1, <1>2

\* resetFirmware finds the firmware already reset.
LEMMA ResetSystemKeeps == ASSUME IInv, ResetSystem PROVE IInv' /\ Steady'
<1> DEFINE s == Reset(sys, active)
           p == PeripheralsReset(s, clock)
           q == PeripheralsReset(p, 0)
           m == Reset(q, active)
<1>1. CASE Stuck(sys, active)
  BY <1>1, StuckKeeps DEF ResetSystem
<1>2. CASE ~Stuck(sys, active)
  <2>1. sys' = Initialize(m, active, 0) /\ clock' = 0 /\ beat' = Begun(sys)
        /\ active' = active /\ running' = running
    BY <1>2 DEF ResetSystem
  <2>2. Sound(s, active) /\ s.flag[active] # UP /\ s.timer.attached = sys.timer.attached
    BY <1>2, IInvFacts, ResetSound
  <2> HIDE DEF s
  <2>3. Sound(p, active) /\ p.flag[active] # UP /\ p.timer.attached = sys.timer.attached
    BY <2>2, IInvFacts, PeripheralsResetSound
  <2> HIDE DEF p
  <2>4. Sound(q, active) /\ q.flag[active] # UP /\ q.timer.attached = sys.timer.attached
    <3> DEFINE now == 0
    <3>1. now \in Nat /\ q = PeripheralsReset(p, now)
      OBVIOUS
    <3> HIDE DEF now, q
    <3> QED BY <2>3, <3>1, PeripheralsResetSound
  <2> HIDE DEF q
  <2>5. Sound(m, active) /\ m.timer.attached = sys.timer.attached
    BY <2>4, IInvFacts, ResetSound DEF Stuck
  <2> HIDE DEF m
  <2> QED BY <2>1, <2>5, IInvFacts, BringUpKeeps
<1> QED BY <1>1, <1>2

LEMMA AttachTimerKeeps == ASSUME IInv, AttachTimer PROVE IInv' /\ Steady'
<1> DEFINE p == TimerAttach(Pair(sys), TIMER, clock)
           m == Put(sys, p)
<1>1. p \in Pairs /\ OwnEvents(p) /\ (TimerRunning(p.timer) => TimerRunning(sys.timer))
  BY IInvFacts, PairSound, AttachOf
<1>2. sys' = m /\ UNCHANGED <<active, running, clock>> /\ beat' = NoBeat
  BY DEF AttachTimer, Host
<1> HIDE DEF p
<1>3. Sound(m, active)
  BY <1>1, IInvFacts, PutSound
<1> HIDE DEF m
<1> QED BY <1>2, <1>3, NoBeatKeeps DEF IInv, TypeOK

LEMMA DetachTimerKeeps == ASSUME IInv, DetachTimer PROVE IInv' /\ Steady'
<1> DEFINE p == TimerDetach(Pair(sys))
           m == Put(sys, p)
<1>1. p \in Pairs /\ OwnEvents(p) /\ (TimerRunning(p.timer) => TimerRunning(sys.timer))
  BY IInvFacts, PairSound, DetachOf
<1>2. sys' = m /\ UNCHANGED <<active, running, clock>> /\ beat' = NoBeat
  BY DEF DetachTimer, Host
<1> HIDE DEF p
<1>3. Sound(m, active)
  BY <1>1, IInvFacts, PutSound
<1> HIDE DEF m
<1> QED BY <1>2, <1>3, NoBeatKeeps DEF IInv, TypeOK

\* The host at the serial port does not disturb what is measured.
LEMMA HostUartKeeps ==
  ASSUME IInv, (\E b \in Bytes : PushReceivedByte(b)) \/ PopTxByte \/ DisableUART
  PROVE  IInv' /\ (Steady => Steady')
<1>1. PICK m : Sound(m, active) /\ sys' = m /\ UNCHANGED <<active, running, clock, beat>>
               /\ \E v : m = [sys EXCEPT !.uart = v]
  BY IInvFacts, HostUartSound DEF PushReceivedByte, PopTxByte, DisableUART, Host
<1>2. m.timer = sys.timer /\ m.sched = sys.sched /\ m.gpio = sys.gpio /\ m.flag = sys.flag
      /\ m \in Systems
  BY <1>1, IInvFacts DEF Systems, Sound
<1>3. IInv'
  BY <1>1, <1>2 DEF IInv, TypeOK, Sound, Systems, Pair, OwnEvents, TimerRunning
<1>4. Steady => Steady'
  BY <1>1, <1>2 DEF Steady, Blinking, TimerRunning, PinReady
<1> QED BY <1>3, <1>4

\* The clock goes on, and with it the counter, whatever else happens.
LEMMA SteadyTick ==
  ASSUME CounterDoesNotWrap, IInv, Steady, beat.steady, clock < MaxClock
  PROVE  /\ Blinking(Ticked) /\ Ticked.timer.last = clock + 1
         /\ TimerRunning(Ticked.timer) <=> TimerRunning(sys.timer)
         /\ TimerRunning(Ticked.timer)
              => Ticked.timer.count = beat.cycles + 1 /\ ~Ticked.timer.match
         /\ \A e \in Ticked.sched.events :
              e.cycle + (beat.cycles + 1) >= (clock + 1) + Compare
         /\ ReadyEvents(sys.sched, clock + 1) # {} => beat.cycles + 1 >= Compare
<1>1. /\ Sound(sys, active) /\ clock \in Nat /\ beat.cycles \in Nat /\ MaxClock \in Nat
  BY IInvFacts
<1>2. /\ active = "blink" /\ Blinking(sys) /\ sys.timer.last = clock
      /\ beat.cycles <= clock
      /\ TimerRunning(sys.timer) => sys.timer.count = beat.cycles /\ ~sys.timer.match
      /\ \A e \in sys.sched.events : e.cycle + beat.cycles >= clock + Compare
  BY DEF Steady
<1>3. sys.timer.attached /\ sys.timer.compare = Compare /\ sys.flag["blink"] = UP /\ PinReady(sys)
  BY <1>2 DEF Blinking
<1>4. /\ Ticked.flag = sys.flag /\ Ticked.gpio = sys.gpio
      /\ Ticked.timer.attached /\ Ticked.timer.last = clock + 1
      /\ TimerRunning(Ticked.timer) <=> TimerRunning(sys.timer)
      /\ Ticked.timer.compare = sys.timer.compare
      /\ Ticked.timer.match = sys.timer.match
      /\ TimerRunning(sys.timer) => Ticked.timer.count = (sys.timer.count + 1) % CountRange
      /\ Ticked.sched.events = sys.sched.events \ ReadyEvents(sys.sched, clock + 1)
  BY <1>1, <1>2, <1>3, TickedSound
<1>5. (beat.cycles + 1) % CountRange = beat.cycles + 1
  <2>1. beat.cycles + 1 \in Nat /\ beat.cycles + 1 < CountRange
    BY <1>1, <1>2, CountAssumption DEF CounterDoesNotWrap
  <2> QED BY <2>1, Numbers
<1>6. Blinking(Ticked)
  BY <1>3, <1>4 DEF Blinking, PinReady
<1>7. \A e \in sys.sched.events : e.cycle \in Nat
  BY IInvFacts DEF Systems, Event
<1>8. Compare \in Nat
  BY Numbers
<1>9. \A e \in Ticked.sched.events : e.cycle + (beat.cycles + 1) >= (clock + 1) + Compare
  BY <1>1, <1>2, <1>4, <1>7, <1>8
<1>10. ASSUME ReadyEvents(sys.sched, clock + 1) # {} PROVE beat.cycles + 1 >= Compare
  <2>1. PICK e \in sys.sched.events : e.cycle <= clock + 1
    BY <1>10 DEF ReadyEvents
  <2>2. e.cycle + beat.cycles >= clock + Compare /\ e.cycle \in Nat
    BY <1>2, <1>7
  <2> QED BY <1>1, <1>8, <2>1, <2>2
<1> QED BY <1>2, <1>4, <1>5, <1>6, <1>9, <1>10

\* The same after the event of the timer, if it was due.
LEMMA SteadyMatch ==
  ASSUME CounterDoesNotWrap, IInv, Steady, beat.steady, clock < MaxClock
  PROVE  /\ Blinking(Matched) /\ Matched.timer.last = clock + 1
         /\ TimerRunning(Matched.timer)
              => Matched.timer.count = beat.cycles + 1 /\ ~Matched.timer.match
         /\ \A e \in Matched.sched.events :
              e.cycle + (beat.cycles + 1) >= (clock + 1) + Compare
         /\ TimerRunning(sys.timer)
              => IF TimerRunning(Matched.timer) THEN TRUE
                 ELSE Matched.timer.match /\ beat.cycles + 1 >= Compare
<1> DEFINE t == Ticked
           m == Matched
           R == ReadyEvents(sys.sched, clock + 1)
<1>1. Sound(sys, active) /\ clock \in Nat
  BY IInvFacts
<1>2. /\ m.flag = sys.flag /\ m.gpio = sys.gpio
      /\ R = {} => m = t
      /\ R # {} =>
              /\ ~TimerRunning(m.timer)
              /\ m.timer.attached = t.timer.attached
              /\ m.timer.compare = t.timer.compare
              /\ m.timer.last = t.timer.last
              /\ TimerRunning(t.timer) => m.timer.match
              /\ m.sched.events \subseteq t.sched.events
  BY <1>1, MatchedSound
<1>3. /\ Blinking(t) /\ t.timer.last = clock + 1
      /\ TimerRunning(t.timer) <=> TimerRunning(sys.timer)
      /\ TimerRunning(t.timer)
           => t.timer.count = beat.cycles + 1 /\ ~t.timer.match
      /\ \A e \in t.sched.events : e.cycle + (beat.cycles + 1) >= (clock + 1) + Compare
      /\ R # {} => beat.cycles + 1 >= Compare
  BY SteadyTick
<1>4. Blinking(sys)
  BY DEF Steady
<1> HIDE DEF t, m, R
<1>5. CASE R = {}
  BY <1>2, <1>3, <1>5 DEF m
<1>6. CASE R # {}
  <2>1. Blinking(m)
    BY <1>2, <1>3, <1>4, <1>6 DEF Blinking, PinReady
  <2> QED BY <1>2, <1>3, <1>6, <2>1 DEF m
<1> QED BY <1>5, <1>6

\* The batch with the event of the timer is lost: the counter goes on.
LEMMA CpuStepThrowsKeeps ==
  ASSUME IInv, CpuStepThrows
  PROVE  IInv' /\ (CounterDoesNotWrap /\ Steady => Steady')
<1> DEFINE m == Ticked
<1>0. Sound(sys, active) /\ clock \in Nat /\ clock < MaxClock /\ MaxClock \in Nat
      /\ active \in Firmwares /\ running \in BOOLEAN
      /\ beat.cycles \in Nat /\ beat.steps \in Nat
      /\ beat \in [steady : BOOLEAN, steps : Nat, cycles : Nat]
  BY IInvFacts DEF CpuStepThrows
<1>1. /\ clock' = clock + 1 /\ sys' = m /\ active' = active /\ running' = running
      /\ beat' = IF beat.steady THEN [beat EXCEPT !.cycles = @ + 1] ELSE beat
  BY DEF CpuStepThrows
<1>2. Sound(m, active)
  BY <1>0, TickedSound
<1>3. beat' \in [steady : BOOLEAN, steps : Nat, cycles : Nat] /\ clock' \in 0 .. MaxClock
  BY <1>0, <1>1
<1>4. m \in Systems
  BY <1>2 DEF Sound
<1>5. ASSUME CounterDoesNotWrap, Steady, beat'.steady PROVE Steady'
  <2>1. beat.steady /\ beat'.cycles = beat.cycles + 1 /\ beat'.steps = beat.steps
    BY <1>0, <1>1, <1>5
  <2>2. /\ Blinking(m) /\ m.timer.last = clock + 1
        /\ TimerRunning(m.timer) <=> TimerRunning(sys.timer)
        /\ TimerRunning(m.timer) => m.timer.count = beat.cycles + 1 /\ ~m.timer.match
        /\ \A e \in m.sched.events : e.cycle + (beat.cycles + 1) >= (clock + 1) + Compare
    BY <1>0, <1>5, <2>1, SteadyTick
  <2> HIDE DEF m
  <2>3. /\ active = "blink" /\ beat.cycles <= clock /\ beat.steps <= beat.cycles
        /\ beat.steps < Compare /\ (running => TimerRunning(sys.timer))
    BY <1>5, <2>1 DEF Steady
  <2> QED BY <1>0, <1>1, <2>1, <2>2, <2>3 DEF Steady, Blinking, TimerRunning, PinReady
<1>6. Steady \/ ~Steady
  OBVIOUS
<1> HIDE DEF m
<1>7. IInv'
  BY <1>0, <1>1, <1>2, <1>3, <1>4 DEF IInv, TypeOK, Sound, Systems, Pair, OwnEvents, TimerRunning
<1> QED BY <1>5, <1>7 DEF Steady

LEMMA CpuStepKeeps == ASSUME IInv, CpuStep PROVE IInv'
<1> DEFINE m == IF running THEN Update(Matched, active, clock + 1) ELSE Matched
<1>0. Sound(sys, active) /\ clock \in Nat /\ clock < MaxClock /\ MaxClock \in Nat
      /\ active \in Firmwares /\ running \in BOOLEAN /\ clock + 1 \in Nat
      /\ beat.cycles \in Nat /\ beat.steps \in Nat
      /\ beat \in [steady : BOOLEAN, steps : Nat, cycles : Nat]
  BY IInvFacts DEF CpuStep
<1>1. /\ clock' = clock + 1 /\ sys' = m /\ active' = active /\ running' = running
  BY DEF CpuStep
<1>2. Sound(Matched, active)
  BY <1>0, MatchedSound
<1>3. Sound(m, active)
  BY <1>0, <1>2, UpdateSound
<1>4. beat' \in [steady : BOOLEAN, steps : Nat, cycles : Nat] /\ clock' \in 0 .. MaxClock
  <2>1. clock' \in 0 .. MaxClock
    BY <1>0, <1>1
  <2>2. CASE ~beat.steady
    BY <1>0, <2>1, <2>2 DEF CpuStep
  <2>3. CASE beat.steady /\ sys'.gpio # sys.gpio
    BY <2>1, <2>3, Beats DEF CpuStep
  <2>4. CASE beat.steady /\ ~(sys'.gpio # sys.gpio)
    <3>1. beat' = [beat EXCEPT !.cycles = @ + 1, !.steps = IF running THEN @ + 1 ELSE @]
      BY <2>4 DEF CpuStep
    <3>2. beat.cycles + 1 \in Nat /\ (IF running THEN beat.steps + 1 ELSE beat.steps) \in Nat
      BY <1>0
    <3>3. beat' = [beat EXCEPT !.cycles = beat.cycles + 1,
                               !.steps = IF running THEN beat.steps + 1 ELSE beat.steps]
      BY <3>1
    <3> QED BY <1>0, <2>1, <3>2, <3>3
  <2> QED BY <2>2, <2>3, <2>4
<1> HIDE DEF m
<1>5. m \in Systems
  BY <1>3 DEF Sound
<1> QED BY <1>0, <1>1, <1>3, <1>4, <1>5
        DEF IInv, TypeOK, Sound, Systems, Pair, OwnEvents, TimerRunning

\* A call of update() either toggles the pin, not before Compare cycles have
\* passed, or leaves fewer than Compare cycles, and calls, behind it.
LEMMA CpuStepSteady ==
  ASSUME CounterDoesNotWrap, IInv, Steady, CpuStep
  PROVE  /\ Steady'
         /\ beat.steady /\ beat' = FirstBeat => beat.cycles + 1 >= Compare
<1> DEFINE a == Matched
           m == IF running THEN Update(a, active, clock + 1) ELSE a
           toggles == (a.timer.match \/ a.timer.count >= Compare) /\ PinReady(a)
           Good(b) == /\ active = "blink" /\ Blinking(m) /\ m.timer.last = clock + 1
                      /\ b.cycles <= clock + 1 /\ b.steps <= b.cycles /\ b.steps < Compare
                      /\ TimerRunning(m.timer) => m.timer.count = b.cycles /\ ~m.timer.match
                      /\ running => TimerRunning(m.timer)
                      /\ \A e \in m.sched.events : e.cycle + b.cycles >= (clock + 1) + Compare
<1>0. /\ Sound(sys, active) /\ clock \in Nat /\ clock < MaxClock /\ MaxClock \in Nat
      /\ running \in BOOLEAN /\ clock + 1 \in Nat
      /\ beat.cycles \in Nat /\ beat.steps \in Nat
      /\ beat \in [steady : BOOLEAN, steps : Nat, cycles : Nat]
      /\ Compare \in Nat /\ Compare >= 1
  BY IInvFacts, Numbers DEF CpuStep
<1>1. /\ clock' = clock + 1 /\ sys' = m /\ active' = active /\ running' = running
  BY DEF CpuStep
<1>2. ~beat.steady => beat' = beat
  BY DEF CpuStep
<1>3. ASSUME beat.steady
      PROVE  Good(beat') /\ (beat' = FirstBeat => beat.cycles + 1 >= Compare)
  <2>1. /\ active = "blink" /\ beat.cycles <= clock /\ beat.steps <= beat.cycles
        /\ beat.steps < Compare /\ (running => TimerRunning(sys.timer)) /\ Blinking(sys)
    BY <1>3 DEF Steady
  <2>2. /\ Blinking(a) /\ a.timer.last = clock + 1
        /\ TimerRunning(a.timer) => a.timer.count = beat.cycles + 1 /\ ~a.timer.match
        /\ \A e \in a.sched.events : e.cycle + (beat.cycles + 1) >= (clock + 1) + Compare
        /\ TimerRunning(sys.timer)
             => IF TimerRunning(a.timer) THEN TRUE
                ELSE a.timer.match /\ beat.cycles + 1 >= Compare
    BY <1>0, <1>3, SteadyMatch
  <2>3. /\ Sound(a, "blink") /\ a.gpio = sys.gpio /\ a.flag["blink"] = UP /\ PinReady(a)
    BY <1>0, <2>1, <2>2, MatchedSound DEF Blinking
  <2>4. beat' = IF m.gpio # sys.gpio THEN FirstBeat
                ELSE [beat EXCEPT !.cycles = @ + 1, !.steps = IF running THEN @ + 1 ELSE @]
    BY <1>1, <1>3 DEF CpuStep
  <2> HIDE DEF a
  <2>5. CASE ~running
    <3>1. m = a
      BY <2>5
    <3>2. beat'.cycles = beat.cycles + 1 /\ beat'.steps = beat.steps
      BY <1>0, <2>3, <2>4, <2>5, <3>1
    <3>3. beat' # FirstBeat
      BY <1>0, <3>2, Beats
    <3> HIDE DEF m
    <3> QED BY <1>0, <2>1, <2>2, <2>5, <3>1, <3>2, <3>3
  <2>6. CASE running
    <3>1. m = BlinkUpdate(a, clock + 1)
      BY <2>1, <2>3, <2>6, Names DEF Update
    <3>2. /\ toggles => Fresh(m, clock + 1) /\ m.gpio # a.gpio
          /\ ~toggles => m = a
      BY <1>0, <2>2, <2>3, <3>1, BlinkUpdateSound
    <3> HIDE DEF m
    <3>3. CASE toggles
      <4>1. beat' = FirstBeat /\ beat'.cycles = 0 /\ beat'.steps = 0
        BY <2>3, <2>4, <3>2, <3>3, Beats
      <4>2. beat.cycles + 1 >= Compare
        <5>1. CASE TimerRunning(a.timer)
          BY <2>2, <3>3, <5>1
        <5>2. CASE ~TimerRunning(a.timer)
          BY <2>1, <2>2, <2>6, <5>2
        <5> QED BY <5>1, <5>2
      <4>3. /\ Blinking(m) /\ TimerRunning(m.timer) /\ m.timer.count = 0 /\ ~m.timer.match
            /\ m.timer.last = clock + 1
            /\ \A e \in m.sched.events : e.cycle = (clock + 1) + Compare
        BY <3>2, <3>3 DEF Fresh
      <4>4. \A e \in m.sched.events : e.cycle + 0 >= (clock + 1) + Compare
        BY <1>0, <4>3
      <4> QED BY <1>0, <2>1, <4>1, <4>2, <4>3, <4>4
    <3>4. CASE ~toggles
      <4>1. m = a /\ ~a.timer.match /\ ~(a.timer.count >= Compare)
        BY <2>3, <3>2, <3>4
      <4>2. TimerRunning(a.timer) /\ a.timer.count = beat.cycles + 1
        BY <2>1, <2>2, <2>6, <4>1
      <4>3. beat.cycles + 1 < Compare
        BY <1>0, <4>1, <4>2
      <4>4. beat'.cycles = beat.cycles + 1 /\ beat'.steps = beat.steps + 1
        BY <1>0, <2>3, <2>4, <2>6, <4>1
      <4>5. beat' # FirstBeat
        BY <1>0, <4>4, Beats
      <4> QED BY <1>0, <2>1, <2>2, <4>1, <4>2, <4>3, <4>4, <4>5
    <3> QED BY <3>3, <3>4
  <2> QED BY <1>0, <2>5, <2>6
<1>4. ASSUME beat'.steady PROVE Good(beat')
  BY <1>2, <1>3, <1>4
<1> HIDE DEF m
<1>5. Steady'
  BY <1>1, <1>4 DEF Steady, Blinking, TimerRunning, PinReady
<1> QED BY <1>3, <1>5

-----------------------------------------------------------------------------
(***************************************************************************)
(* The theorems.                                                           *)
(***************************************************************************)

\* What BlinkPeriod says of a step.
KeepsTime ==
  beat.steady /\ beat'.steady =>
    /\ beat'.steps < Compare
    /\ clock' = clock + 1 /\ beat' = FirstBeat => beat.cycles + 1 >= Compare

LEMMA StutterKeeps == ASSUME UNCHANGED vars PROVE (IInv => IInv') /\ (Steady => Steady')
BY DEF vars, IInv, TypeOK, Sound, Systems, Pair, OwnEvents, TimerRunning,
       Steady, Blinking, PinReady

\* The invariant, whatever the width of the counter.
LEMMA NextKeeps == ASSUME IInv, Next PROVE IInv'
BY StartKeeps, StopKeeps, LoadKeeps, ResetPeripheralsKeeps, ResetCPUKeeps,
   ResetFirmwareKeeps, ResetSystemKeeps, AttachTimerKeeps, DetachTimerKeeps,
   HostUartKeeps, CpuStepKeeps, CpuStepThrowsKeeps DEF Next

\* The steps that are not one of the clock set it to zero or leave it.
LEMMA ClockElsewhere ==
  ASSUME Next, ~CpuStep, ~CpuStepThrows
  PROVE  clock' = 0 \/ clock' = clock
<1>1. ASSUME Start \/ Stop \/ (\E f \in Firmwares : Load(f)) PROVE clock' = clock
  BY <1>1 DEF Start, Stop, Load
<1>2. ASSUME ResetPeripherals \/ ResetCPU \/ ResetFirmware \/ ResetSystem
      PROVE  clock' = 0 \/ clock' = clock
  BY <1>2 DEF ResetPeripherals, ResetCPU, ResetFirmware, ResetSystem
<1>3. ASSUME AttachTimer \/ DetachTimer \/ (\E b \in Bytes : PushReceivedByte(b))
               \/ PopTxByte \/ DisableUART
      PROVE  clock' = clock
  BY <1>3 DEF AttachTimer, DetachTimer, PushReceivedByte, PopTxByte, DisableUART, Host
<1> QED BY <1>1, <1>2, <1>3 DEF Next

LEMMA SteadyStep ==
  ASSUME CounterDoesNotWrap, IInv, Steady, Next
  PROVE  Steady' /\ KeepsTime
<1>0. clock \in Nat /\ beat.cycles \in Nat
      /\ beat \in [steady : BOOLEAN, steps : Nat, cycles : Nat]
  BY IInvFacts
<1>1. Steady'
  BY StartKeeps, StopKeeps, LoadKeeps, ResetPeripheralsKeeps, ResetCPUKeeps,
     ResetFirmwareKeeps, ResetSystemKeeps, AttachTimerKeeps, DetachTimerKeeps,
     HostUartKeeps, CpuStepSteady, CpuStepThrowsKeeps DEF Next
<1>2. beat'.steady => beat'.steps < Compare
  BY <1>1 DEF Steady
<1>3. ASSUME beat.steady, clock' = clock + 1, beat' = FirstBeat
      PROVE  beat.cycles + 1 >= Compare
  <2>1. CASE CpuStep
    BY <1>3, <2>1, CpuStepSteady
  <2>2. CASE CpuStepThrows
    <3>1. beat'.cycles = beat.cycles + 1
      BY <1>0, <1>3, <2>2 DEF CpuStepThrows
    <3> QED BY <1>0, <1>3, <3>1, Beats
  <2>3. CASE ~CpuStep /\ ~CpuStepThrows
    BY <1>0, <1>3, <2>3, ClockElsewhere
  <2> QED BY <2>1, <2>2, <2>3
<1> QED BY <1>1, <1>2, <1>3 DEF KeepsTime

(***************************************************************************)
(* The types and soundness: only the selected firmware is ever up, and     *)
(* what belongs to the others is off; the queue holds no event that the    *)
(* timer has lost track of.                                                *)
(***************************************************************************)
THEOREM Inductive == Spec => []IInv
<1>1. Init => IInv
  BY InitHolds
<1>2. IInv /\ [Next]_vars => IInv'
  BY NextKeeps, StutterKeeps
<1> QED BY <1>1, <1>2, PTL DEF Spec

(***************************************************************************)
(* A firmware that is down drives nothing (shutdown() and reset() of the   *)
(* three applications), in whatever order they are loaded, started,        *)
(* stopped and reset, and also when a shutdown throws.                     *)
(***************************************************************************)
THEOREM DownIsQuiet == Spec => []QuietWhenDown
<1>1. IInv => QuietWhenDown
  BY DEF IInv, Sound, QuietWhenDown, Gpio!ReadPin
<1> QED BY <1>1, Inductive, PTL

(***************************************************************************)
(* TimerBlinkFirmware::update toggles the pin in at most Compare calls and *)
(* never before Compare cycles have passed, also when the event of its     *)
(* timer is lost, as long as the counter does not wrap: past its width, an *)
(* event that was lost is not made up for by polling COUNT.                *)
(***************************************************************************)
THEOREM BlinkKeepsTime == ASSUME CounterDoesNotWrap PROVE Spec => BlinkPeriod
<1>1. Init => Steady
  BY InitHolds
<1>2. IInv /\ Steady /\ [Next]_vars => Steady'
  BY SteadyStep, StutterKeeps
<1>3. IInv /\ Steady /\ [Next]_vars =>
        [beat.steady /\ beat'.steady =>
           /\ beat'.steps < Compare
           /\ clock' = clock + 1 /\ beat' = FirstBeat => beat.cycles + 1 >= Compare]_vars
  BY SteadyStep DEF KeepsTime
<1> QED BY <1>1, <1>2, <1>3, Inductive, PTL DEF Spec, BlinkPeriod
=============================================================================
