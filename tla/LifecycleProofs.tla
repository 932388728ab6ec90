--------------------------- MODULE LifecycleProofs ---------------------------
(***************************************************************************)
(* Proofs about the life cycle of firmware, for any set of names and of    *)
(* firmware objects.                                                       *)
(*                                                                         *)
(* The invariant speaks of the manager's state alone, so every member      *)
(* function of FirmwareManager has one lemma: it preserves GoodManager,    *)
(* and it only takes firmware down or only brings firmware up.  The second *)
(* half is what the refinement of FirmwareSlot needs.  A shutdown() that   *)
(* throws takes nothing down, and then nothing else is changed either.     *)
(***************************************************************************)
EXTENDS Lifecycle, QueueTheorems

Managers == [registry : [Names -> Images \cup {NoImage}],
             active : Names \cup {NoName},
             fw : [Images -> Flags]]

Up(m) == {f \in Images : m.fw[f] \in {UP, STUCK}}

GoodManager(m) ==
  /\ m \in Managers
  /\ Registered(m) = {} => m.active = NoName
  /\ Registered(m) # {} => m.active \in Registered(m)
  /\ Up(m) \subseteq Active(m)

\* The inductive invariant.
IInv == TypeOK /\ GoodManager(mgr)

\* There is at most one active image.
LEMMA OneActive ==
  ASSUME NEW m, GoodManager(m)
  PROVE  /\ Active(m) \subseteq Images
         /\ \A f, g \in Active(m) : f = g
         /\ m.active \in Registered(m) => Active(m) = {m.registry[m.active]}
         /\ m.active \notin Registered(m) => Active(m) = {}
BY DEF GoodManager, Managers, Active, Registered

\* What a function does that changes nothing but the flags.
LEMMA FlagsOnly ==
  ASSUME NEW m, GoodManager(m), NEW F \in [Images -> Flags],
         \A f \in Images : F[f] \in {UP, STUCK} => f \in Active(m)
  PROVE  LET n == [m EXCEPT !.fw = F]
         IN /\ GoodManager(n)
            /\ Active(n) = Active(m)
            /\ Up(n) = {f \in Images : F[f] \in {UP, STUCK}}
            /\ n.active = m.active
            /\ Registered(n) = Registered(m)
<1> DEFINE n == [m EXCEPT !.fw = F]
<1>1. n \in Managers /\ n.fw = F /\ n.registry = m.registry /\ n.active = m.active
  BY DEF GoodManager, Managers
<1> HIDE DEF n
<1>2. Registered(n) = Registered(m) /\ Active(n) = Active(m)
  BY <1>1 DEF Registered, Active
<1>3. Up(n) = {f \in Images : F[f] \in {UP, STUCK}}
  BY <1>1 DEF Up
<1>4. GoodManager(n)
  BY <1>1, <1>2, <1>3 DEF GoodManager
<1> QED BY <1>1, <1>2, <1>3, <1>4 DEF n

\* initialize() brings up exactly the active firmware.
LEMMA InitializeGood ==
  ASSUME NEW m, GoodManager(m)
  PROVE  GoodManager(Initialize(m)) /\ Up(Initialize(m)) = Active(m)
<1> DEFINE F == [f \in Images |-> IF f \in Active(m) THEN UP ELSE m.fw[f]]
<1>1. /\ F \in [Images -> Flags]
      /\ \A f \in Images : F[f] \in {UP, STUCK} <=> f \in Active(m)
  BY DEF GoodManager, Managers, Up, Flags
<1>2. Initialize(m) = [m EXCEPT !.fw = F]
  BY DEF GoodManager, Managers, Initialize
<1> HIDE DEF F
<1> QED BY <1>1, <1>2, FlagsOnly, OneActive

\* shutdown() takes down whatever is up, unless it throws.
LEMMA ShutdownGood ==
  ASSUME NEW m, GoodManager(m)
  PROVE  /\ GoodManager(Shutdown(m)) /\ Up(Shutdown(m)) \subseteq Up(m)
         /\ ~Stuck(m) => Up(Shutdown(m)) = {}
         /\ Shutdown(m).active = m.active /\ Registered(Shutdown(m)) = Registered(m)
         /\ Shutdown(m).registry = m.registry
<1> DEFINE F == [f \in Images |-> IF f \in Active(m) /\ m.fw[f] = UP THEN SHUT ELSE m.fw[f]]
<1>1. /\ F \in [Images -> Flags]
      /\ \A f \in Images : F[f] \in {UP, STUCK} => f \in Up(m) /\ m.fw[f] = STUCK
  BY DEF GoodManager, Managers, Up, Flags, UP, STUCK, SHUT
<1>2. Shutdown(m) = [m EXCEPT !.fw = F]
  BY DEF GoodManager, Managers, Shutdown
<1> HIDE DEF F
<1>3. Shutdown(m).registry = m.registry
  BY <1>2 DEF GoodManager, Managers
<1>4. Up(m) \subseteq Active(m)
  BY DEF GoodManager
<1>5. \A f \in Images : F[f] \in {UP, STUCK} => Stuck(m)
  BY <1>1, <1>4 DEF Stuck
<1> QED BY <1>1, <1>2, <1>3, <1>4, <1>5, FlagsOnly

\* reset() takes down whatever is up, if it returns.
LEMMA ResetActiveGood ==
  ASSUME NEW m, GoodManager(m), ~Stuck(m)
  PROVE  /\ GoodManager(ResetActive(m)) /\ Up(ResetActive(m)) = {}
         /\ Active(ResetActive(m)) = Active(m)
<1> DEFINE F == [f \in Images |->
                   IF f \in Active(m) /\ m.fw[f] # STUCK THEN FRESH ELSE m.fw[f]]
<1>1. /\ F \in [Images -> Flags]
      /\ \A f \in Images : F[f] \notin {UP, STUCK}
  BY DEF GoodManager, Managers, Up, Flags, UP, STUCK, FRESH, Stuck
<1>2. ResetActive(m) = [m EXCEPT !.fw = F]
  BY DEF GoodManager, Managers, ResetActive
<1> HIDE DEF F
<1> QED BY <1>1, <1>2, FlagsOnly

\* What is done to a pin makes an up firmware stuck or frees it: it stays up.
LEMMA PinGood ==
  ASSUME NEW m, GoodManager(m), NEW f \in Images, m.fw[f] \in {UP, STUCK},
         NEW v \in {UP, STUCK}
  PROVE  /\ GoodManager([m EXCEPT !.fw[f] = v])
         /\ Up([m EXCEPT !.fw[f] = v]) = Up(m)
         /\ Active([m EXCEPT !.fw[f] = v]) = Active(m)
<1> DEFINE F == [m.fw EXCEPT ![f] = v]
<1>1. m.fw \in [Images -> Flags] /\ Up(m) \subseteq Active(m)
  BY DEF GoodManager, Managers
<1>2. F \in [Images -> Flags] /\ \A g \in Images : F[g] \in {UP, STUCK} <=> g \in Up(m)
  BY <1>1 DEF Flags, Up
<1>3. [m EXCEPT !.fw[f] = v] = [m EXCEPT !.fw = F]
  BY DEF GoodManager, Managers
<1> HIDE DEF F
<1>4. {g \in Images : F[g] \in {UP, STUCK}} = Up(m)
  BY <1>2 DEF Up
<1> DEFINE n == [m EXCEPT !.fw = F]
<1>5. GoodManager(n) /\ Active(n) = Active(m) /\ Up(n) = Up(m)
  BY <1>1, <1>2, <1>4, FlagsOnly
<1> HIDE DEF n
<1> QED BY <1>3, <1>5 DEF n

\* registerFirmware leaves the flags alone.
LEMMA RegisterGood ==
  ASSUME NEW m, GoodManager(m), NEW n \in Names, NEW f \in Images
  PROVE  GoodManager(RegisterFirmware(m, n, f)) /\ Up(RegisterFirmware(m, n, f)) = Up(m)
<1>1. CASE n \in Registered(m)
  BY <1>1 DEF RegisterFirmware
<1>2. CASE n \notin Registered(m)
  <2> DEFINE r == RegisterFirmware(m, n, f)
             R == [m.registry EXCEPT ![n] = f]
             a == IF m.active = NoName THEN n ELSE m.active
  <2>1. r \in Managers /\ r.registry = R /\ r.active = a /\ r.fw = m.fw
    BY <1>2 DEF RegisterFirmware, GoodManager, Managers
  <2>2. R[n] = f /\ \A k \in Names \ {n} : R[k] = m.registry[k]
    BY DEF GoodManager, Managers
  <2> HIDE DEF r, R
  <2>3. Registered(r) = Registered(m) \cup {n}
    BY <2>1, <2>2, ImagesAssumption DEF Registered
  <2>4. Up(r) = Up(m)
    BY <2>1 DEF Up
  <2>5. CASE m.active = NoName
    <3>1. m.active \notin Registered(m)
      BY <2>5, NamesAssumption DEF Registered
    <3>2. Up(m) = {}
      BY <3>1, OneActive DEF GoodManager
    <3> QED BY <2>1, <2>3, <2>4, <2>5, <3>2 DEF GoodManager, r
  <2>6. CASE m.active # NoName
    <3>1. m.active \in Registered(m) /\ m.active # n
      BY <2>6, <1>2 DEF GoodManager
    <3>2. Active(r) = Active(m)
      BY <2>1, <2>2, <2>3, <2>6, <3>1 DEF Active, Registered
    <3> QED BY <2>1, <2>3, <2>4, <2>6, <3>1, <3>2 DEF GoodManager, r
  <2> QED BY <2>5, <2>6
<1> QED BY <1>1, <1>2

\* Which firmware unregisterFirmware selects.
LEMMA LeastRegistered ==
  ASSUME NEW S, S \subseteq Names, S # {}
  PROVE  (CHOOSE a \in S : \A b \in S : a <= b) \in S
<1>1. \E a \in S : \A b \in S : a <= b
  BY NamesAssumption, LeastNat
<1> QED BY <1>1

\* unregisterFirmware takes the firmware down if it is the active one.
LEMMA UnregisterGood ==
  ASSUME NEW m, GoodManager(m), NEW n \in Names
  PROVE  /\ GoodManager(UnregisterFirmware(m, n))
         /\ Up(UnregisterFirmware(m, n)) \subseteq Up(m)
<1>1. CASE n \notin Registered(m) \/ (m.active = n /\ Stuck(m))
  BY <1>1 DEF UnregisterFirmware
<1>2. CASE n \in Registered(m) /\ ~(m.active = n /\ Stuck(m))
  <2> DEFINE s == IF m.active = n THEN Shutdown(m) ELSE m
             rest == Registered(m) \ {n}
             next == IF rest = {} THEN NoName ELSE CHOOSE a \in rest : \A b \in rest : a <= b
             R == [m.registry EXCEPT ![n] = NoImage]
             c == IF m.active = n THEN next ELSE m.active
             u == UnregisterFirmware(m, n)
  <2>1. /\ GoodManager(s) /\ s.active = m.active /\ s.registry = m.registry
        /\ Up(s) \subseteq Up(m)
        /\ m.active = n => Up(s) = {}
    BY <1>2, ShutdownGood
  <2>2. u = [s EXCEPT !.registry[n] = NoImage, !.active = IF @ = n THEN next ELSE @]
    BY <1>2 DEF UnregisterFirmware
  <2>3. next \in rest \cup {NoName} /\ (rest # {} => next \in rest)
                                   /\ (rest = {} => next = NoName)
    BY LeastRegistered DEF Registered
  <2> HIDE DEF s, next
  <2>4. u \in Managers /\ u.registry = R /\ u.active = c /\ u.fw = s.fw
    <3>1. s \in Managers /\ s.active = m.active /\ s.registry = m.registry
      BY <2>1 DEF GoodManager
    <3>2. s = [registry |-> m.registry, active |-> m.active, fw |-> s.fw]
      BY <3>1 DEF Managers
    <3>3. u = [registry |-> R, active |-> c, fw |-> s.fw]
      BY <2>2, <3>1, <3>2
    <3>4. /\ R \in [Names -> Images \cup {NoImage}]
          /\ c \in Names \cup {NoName}
          /\ s.fw \in [Images -> Flags]
      BY <2>3, <3>1 DEF Managers, Registered
    <3> HIDE DEF u, R, c
    <3> QED BY <3>3, <3>4 DEF Managers
  <2>5. R[n] = NoImage /\ \A k \in Names \ {n} : R[k] = m.registry[k]
    BY DEF GoodManager, Managers
  <2> HIDE DEF u, R
  <2>6. Registered(u) = rest
    BY <2>4, <2>5 DEF Registered
  <2>7. Up(u) = Up(s)
    BY <2>4 DEF Up
  <2>8. m.active \in Registered(m)
    BY <1>2 DEF GoodManager
  <2>9. Up(u) \subseteq Active(u)
    <3>1. CASE m.active = n
      BY <3>1, <2>1, <2>7
    <3>2. CASE m.active # n
      <4>1. Active(u) = Active(m)
        BY <3>2, <2>4, <2>5, <2>6, <2>8 DEF Active, Registered
      <4> QED BY <4>1, <2>1, <2>7 DEF GoodManager
    <3> QED BY <3>1, <3>2
  <2>10. /\ Registered(u) = {} => u.active = NoName
         /\ Registered(u) # {} => u.active \in Registered(u)
    BY <2>3, <2>4, <2>6, <2>8
  <2> QED BY <2>1, <2>4, <2>7, <2>9, <2>10 DEF GoodManager, u
<1> QED BY <1>1, <1>2

\* setActiveFirmware shuts the previous firmware down.
LEMMA SetActiveGood ==
  ASSUME NEW m, GoodManager(m), NEW n \in Names
  PROVE  /\ GoodManager(SetActiveFirmware(m, n))
         /\ Up(SetActiveFirmware(m, n)) \subseteq Up(m)
<1>1. CASE n \notin Registered(m) \/ m.active = n \/ Stuck(m)
  BY <1>1 DEF SetActiveFirmware
<1>2. CASE n \in Registered(m) /\ m.active # n /\ ~Stuck(m)
  <2> DEFINE s == Shutdown(m)
             a == SetActiveFirmware(m, n)
  <2>1. GoodManager(s) /\ Up(s) = {} /\ Registered(s) = Registered(m)
    BY <1>2, ShutdownGood
  <2>2. a = [s EXCEPT !.active = n]
    BY <1>2 DEF SetActiveFirmware
  <2> HIDE DEF s
  <2>3. a \in Managers /\ a.active = n /\ a.registry = s.registry /\ a.fw = s.fw
    BY <2>1, <2>2 DEF GoodManager, Managers
  <2> HIDE DEF a
  <2>4. Registered(a) = Registered(m) /\ Up(a) = {}
    BY <2>1, <2>3 DEF Registered, Up
  <2> QED BY <1>2, <2>3, <2>4 DEF GoodManager, a
<1> QED BY <1>1, <1>2

\* A step that only takes firmware down or only brings firmware up.
Monotone(m, n) == Up(n) \subseteq Up(m) \/ Up(m) \subseteq Up(n)

\* CPU::stop takes everything down, finds the CPU stopped, or throws.
LEMMA StoppedGood ==
  ASSUME IInv
  PROVE  /\ GoodManager(Stopped) /\ Up(Stopped) \subseteq Up(mgr)
         /\ running /\ ~Stuck(mgr) => Up(Stopped) = {}
BY ShutdownGood DEF IInv, Stopped

\* loadFirmware only takes firmware down.
LEMMA LoadGood ==
  ASSUME IInv, NEW f \in Images, NEW n \in Names
  PROVE  LET m == SetActiveFirmware(RegisterFirmware(Stopped, n, f), n)
         IN /\ GoodManager(m) /\ Up(m) \subseteq Up(mgr)
            /\ running /\ ~Stuck(mgr) => Up(m) = {}
<1> DEFINE r == RegisterFirmware(Stopped, n, f)
           m == SetActiveFirmware(r, n)
<1>1. GoodManager(r) /\ Up(r) = Up(Stopped)
  BY StoppedGood, RegisterGood
<1>2. GoodManager(m) /\ Up(m) \subseteq Up(r)
  <2> HIDE DEF r
  <2> QED BY <1>1, SetActiveGood
<1> QED BY <1>1, <1>2, StoppedGood

\* unloadFirmware only takes firmware down.
LEMMA UnloadGood ==
  ASSUME IInv
  PROVE  LET m == IF mgr.active = NoName THEN Stopped
                  ELSE UnregisterFirmware(Stopped, mgr.active)
         IN /\ GoodManager(m) /\ Up(m) \subseteq Up(mgr)
            /\ running /\ ~Stuck(mgr) => Up(m) = {}
<1>1. mgr.active # NoName => mgr.active \in Names
  BY DEF IInv, GoodManager, Managers
<1> QED BY <1>1, StoppedGood, UnregisterGood

\* What a call that begins with stop() leaves, whatever it does after it.
LEMMA HaltGood ==
  ASSUME IInv, NEW m, Halt(m), GoodManager(m), Up(m) \subseteq Up(mgr),
         running /\ ~Stuck(mgr) => Up(m) = {}
  PROVE  /\ GoodManager(mgr') /\ Up(mgr') \subseteq Up(mgr)
         /\ running /\ ~Stuck(mgr) => Up(mgr') = {} /\ (attached => ~rtosRunning')
<1>1. mgr' = (IF running /\ Stuck(mgr) THEN mgr ELSE m) /\ GoodManager(mgr)
  BY DEF Halt, IInv
<1>2. running /\ ~Stuck(mgr) => (attached => ~rtosRunning')
  BY DEF Halt
<1> QED BY <1>1, <1>2

\* Every step preserves GoodManager, takes firmware down or brings firmware up
\* but never both, and takes everything down when it halts the CPU and no
\* shutdown() throws.
LEMMA ManagerStep ==
  ASSUME IInv, [Next]_vars
  PROVE  /\ GoodManager(mgr') /\ Monotone(mgr, mgr')
         /\ running /\ ~running' /\ ~Stuck(mgr)
              => Up(mgr') = {} /\ (attached => ~rtosRunning')
<1> USE DEF Monotone
<1>g. GoodManager(mgr)
  BY DEF IInv
<1>1. ASSUME NEW n \in Names, Unregister(n) \/ SetActive(n)
      PROVE  GoodManager(mgr') /\ Monotone(mgr, mgr') /\ (running => running')
  BY <1>g, <1>1, UnregisterGood, SetActiveGood DEF Unregister, SetActive, ManagerCall
<1>2. ASSUME NEW n \in Names, NEW f \in Images, Register(n, f)
      PROVE  GoodManager(mgr') /\ Monotone(mgr, mgr') /\ (running => running')
  BY <1>g, <1>2, RegisterGood DEF Register, ManagerCall
<1>3. ASSUME NEW n \in Names, NEW f \in Images, LoadFirmware(f, n)
      PROVE  /\ GoodManager(mgr') /\ Monotone(mgr, mgr')
             /\ running /\ ~Stuck(mgr) => Up(mgr') = {} /\ (attached => ~rtosRunning')
  <2> DEFINE m == SetActiveFirmware(RegisterFirmware(Stopped, n, f), n)
  <2>1. Halt(m)
    BY <1>3 DEF LoadFirmware
  <2>2. /\ GoodManager(m) /\ Up(m) \subseteq Up(mgr)
        /\ running /\ ~Stuck(mgr) => Up(m) = {}
    BY LoadGood
  <2> HIDE DEF m
  <2> QED BY <2>1, <2>2, HaltGood
<1>4. ASSUME Stop \/ UnloadFirmware
      PROVE  /\ GoodManager(mgr') /\ Monotone(mgr, mgr')
             /\ running /\ ~Stuck(mgr) => Up(mgr') = {} /\ (attached => ~rtosRunning')
  <2>1. CASE Stop
    BY <2>1, StoppedGood, HaltGood DEF Stop
  <2>2. CASE UnloadFirmware
    <3> DEFINE m == IF mgr.active = NoName THEN Stopped
                    ELSE UnregisterFirmware(Stopped, mgr.active)
    <3>1. Halt(m)
      BY <2>2 DEF UnloadFirmware
    <3>2. /\ GoodManager(m) /\ Up(m) \subseteq Up(mgr)
          /\ running /\ ~Stuck(mgr) => Up(m) = {}
      BY UnloadGood
    <3> HIDE DEF m
    <3> QED BY <3>1, <3>2, HaltGood
  <2> QED BY <1>4, <2>1, <2>2
<1>6. GoodManager(Initialize(mgr)) /\ Monotone(mgr, Initialize(mgr))
  BY <1>g, InitializeGood DEF GoodManager
<1>7. ASSUME Start \/ \E n \in Cycles : Run(n)
      PROVE  GoodManager(mgr') /\ Monotone(mgr, mgr') /\ running'
  <2>1. mgr' \in {mgr, Initialize(mgr)} /\ running'
    BY <1>7 DEF Start, Run, Started
  <2> QED BY <1>g, <1>6, <2>1
<1>8. ASSUME ResetCPU \/ ResetFirmware \/ ResetSystem
      PROVE  GoodManager(mgr') /\ Monotone(mgr, mgr') /\ (running => running')
  <2>1. ~Stuck(mgr) => /\ GoodManager(ResetActive(mgr)) /\ Up(ResetActive(mgr)) = {}
                       /\ Active(ResetActive(mgr)) = Active(mgr)
    BY <1>g, ResetActiveGood
  <2>2. ~Stuck(mgr) => /\ GoodManager(Initialize(ResetActive(mgr)))
                       /\ Up(Initialize(ResetActive(mgr))) = Active(mgr)
    BY <2>1, InitializeGood
  <2>3. Up(mgr) \subseteq Active(mgr)
    BY <1>g DEF GoodManager
  <2>4. /\ Stuck(mgr) => mgr' = mgr
        /\ ~Stuck(mgr) => mgr' \in {ResetActive(mgr), Initialize(ResetActive(mgr))}
        /\ running => running'
    BY <1>8 DEF ResetCPU, ResetFirmware, ResetSystem, ResetTo, ManagerCall
  <2> QED BY <1>g, <2>1, <2>2, <2>3, <2>4
<1>11. ASSUME NEW f \in Images, ResetPeripherals(f) \/ ConfigurePin(f)
       PROVE  GoodManager(mgr') /\ Monotone(mgr, mgr') /\ (running => running')
  <2>1. CASE ResetPeripherals(f)
    <3>1. mgr.fw[f] = UP /\ mgr' = [mgr EXCEPT !.fw[f] = STUCK] /\ running' = running
      BY <2>1 DEF ResetPeripherals, ManagerCall
    <3>2. mgr.fw[f] \in {UP, STUCK} /\ STUCK \in {UP, STUCK}
      BY <3>1
    <3>3. GoodManager(mgr') /\ Active(mgr') = Active(mgr) /\ Up(mgr') = Up(mgr)
      BY <1>g, <3>1, <3>2, PinGood
    <3> QED BY <1>g, <3>1, <3>3
  <2>2. CASE ConfigurePin(f)
    <3>1. mgr.fw[f] = STUCK /\ mgr' = [mgr EXCEPT !.fw[f] = UP] /\ running' = running
      BY <2>2 DEF ConfigurePin, ManagerCall
    <3>2. mgr.fw[f] \in {UP, STUCK} /\ UP \in {UP, STUCK}
      BY <3>1
    <3>3. GoodManager(mgr') /\ Active(mgr') = Active(mgr) /\ Up(mgr') = Up(mgr)
      BY <1>g, <3>1, <3>2, PinGood
    <3> QED BY <1>g, <3>1, <3>3
  <2> QED BY <1>11, <2>1, <2>2
<1>9. ASSUME \/ \E b \in BOOLEAN : AttachRTOSScheduler(b) \/ RtosSetRunning(b)
             \/ PowerOn \/ PowerOff \/ Sleep \/ Wake
             \/ Step \/ Loop \/ Body \/ Return \/ Throw
             \/ UNCHANGED vars
      PROVE  mgr' = mgr /\ (running => running')
  BY <1>9 DEF AttachRTOSScheduler, RtosSetRunning, PowerOn, PowerOff, Sleep, Wake,
              Power, Step, Loop, Body, Return, Throw, vars
<1>10. mgr' = mgr => GoodManager(mgr') /\ Monotone(mgr, mgr')
  BY <1>g
<1> HIDE DEF Monotone
<1> QED BY <1>1, <1>2, <1>3, <1>4, <1>7, <1>8, <1>9, <1>10, <1>11 DEF Next

\* The invariant holds when the CPU is constructed.
LEMMA InitGood ==
  ASSUME Init
  PROVE  IInv
<1>1. /\ mgr \in Managers /\ mgr.active = NoName
      /\ \A n \in Names : mgr.registry[n] = NoImage
      /\ \A f \in Images : mgr.fw[f] \notin {UP, STUCK}
  BY DEF Init, Managers, Flags, UP, STUCK, FRESH
<1>2. Registered(mgr) = {} /\ Up(mgr) = {}
  BY <1>1 DEF Registered, Up
<1>3. GoodManager(mgr)
  BY <1>1, <1>2 DEF GoodManager
<1>4. TypeOK
  BY <1>1 DEF TypeOK, Managers, Init
<1> QED BY <1>3, <1>4 DEF IInv

\* The variables other than the manager keep their types.
LEMMA TypeStep ==
  ASSUME IInv, [Next]_vars
  PROVE  TypeOK'
<1>1. mgr' \in Managers
  BY ManagerStep DEF GoodManager
<1> SUFFICES /\ running' \in BOOLEAN /\ attached' \in BOOLEAN /\ rtosRunning' \in BOOLEAN
             /\ power' \in {"ON", "OFF", "SLEEP"}
             /\ phase' \in {"host", "loop", "callbacks", "body"}
             /\ left' \in Nat
             /\ phase' = "host" => left' = 0
  BY <1>1 DEF TypeOK, Managers
<1> USE DEF IInv, TypeOK
<1>2. ASSUME NEW n \in Names,
             \/ Unregister(n) \/ SetActive(n)
             \/ \E f \in Images : Register(n, f) \/ LoadFirmware(f, n)
      PROVE  /\ running' \in BOOLEAN /\ rtosRunning' \in BOOLEAN
             /\ UNCHANGED <<attached, power, phase, left>>
  BY <1>2 DEF Unregister, SetActive, Register, LoadFirmware, ManagerCall, Halt
<1>3. ASSUME Start \/ Stop \/ UnloadFirmware \/ ResetCPU \/ ResetFirmware \/ ResetSystem
      PROVE  /\ running' \in BOOLEAN /\ rtosRunning' \in BOOLEAN
             /\ UNCHANGED <<attached, power, phase, left>>
  BY <1>3 DEF Start, Stop, UnloadFirmware, ResetCPU, ResetFirmware, ResetSystem,
              ManagerCall, Halt, ResetTo, Started
<1>8. ASSUME NEW f \in Images, ResetPeripherals(f) \/ ConfigurePin(f)
      PROVE  UNCHANGED <<running, rtosRunning, attached, power, phase, left>>
  BY <1>8 DEF ResetPeripherals, ConfigurePin, ManagerCall
<1>4. ASSUME NEW b \in BOOLEAN, AttachRTOSScheduler(b) \/ RtosSetRunning(b)
      PROVE  /\ attached' \in BOOLEAN /\ rtosRunning' \in BOOLEAN
             /\ UNCHANGED <<running, power, phase, left>>
  BY <1>4 DEF AttachRTOSScheduler, RtosSetRunning
<1>5. ASSUME PowerOn \/ PowerOff \/ Sleep \/ Wake
      PROVE  /\ power' \in {"ON", "OFF", "SLEEP"}
             /\ UNCHANGED <<running, attached, rtosRunning, phase, left>>
  BY <1>5 DEF PowerOn, PowerOff, Sleep, Wake, Power
<1>6. ASSUME \/ Step \/ (\E n \in Cycles : Run(n)) \/ Loop \/ Body \/ Return \/ Throw
      PROVE  /\ running' \in BOOLEAN /\ rtosRunning' \in BOOLEAN
             /\ phase' \in {"host", "loop", "callbacks", "body"}
             /\ left' \in Nat
             /\ phase' = "host" => left' = 0
             /\ UNCHANGED <<attached, power>>
  <2>1. CASE Step \/ Body \/ Return \/ Throw
    BY <2>1 DEF Step, Body, Return, Throw
  <2>2. CASE Loop
    BY <2>2 DEF Loop
  <2>3. ASSUME NEW n \in Cycles, Run(n)
        PROVE  /\ running' \in BOOLEAN /\ rtosRunning' \in BOOLEAN
               /\ phase' \in {"loop", "host"} /\ left' \in Nat
               /\ phase' = "host" => left' = 0
               /\ UNCHANGED <<attached, power>>
    BY <2>3, CyclesAssumption DEF Run, Started
  <2> QED BY <1>6, <2>1, <2>2, <2>3
<1>7. CASE UNCHANGED vars
  BY <1>7 DEF vars
<1> QED BY <1>2, <1>3, <1>4, <1>5, <1>6, <1>7, <1>8 DEF Next

\* The invariant holds in every state the program reaches.
THEOREM Inductive == Spec => []IInv
<1>1. IInv /\ [Next]_vars => IInv'
  <2> SUFFICES ASSUME IInv, [Next]_vars PROVE IInv'
    OBVIOUS
  <2>1. GoodManager(mgr)' <=> GoodManager(mgr')
    BY DEF GoodManager, Managers, Registered, Active, Up
  <2> QED BY <2>1, ManagerStep, TypeStep DEF IInv
<1> QED BY <1>1, InitGood, PTL DEF Spec

\* All variables keep their types.
THEOREM TypeCorrect == Spec => []TypeOK
<1>1. IInv => TypeOK
  BY DEF IInv
<1> QED BY <1>1, Inductive, PTL

\* The active name always names a registered firmware, and some firmware is
\* active whenever one is registered.
THEOREM ActiveRegistered == Spec => []ActiveIsRegistered
<1>1. IInv => ActiveIsRegistered
  BY DEF IInv, GoodManager, ActiveIsRegistered
<1> QED BY <1>1, Inductive, PTL

\* No firmware other than the active one is ever up.
THEOREM OnlyActiveUp == Spec => []OnlyActiveIsUp
<1>1. IInv => OnlyActiveIsUp
  BY DEF IInv, GoodManager, OnlyActiveIsUp, UpImages, Up
<1> QED BY <1>1, Inductive, PTL

\* Halting the CPU leaves no firmware up and no attached RTOS running, if the
\* shutdown() of the active firmware returns.
THEOREM HaltTakesDown == Spec => HaltMeansDown
<1>1. IInv /\ [Next]_vars
        => [running /\ ~running' /\ ~Stuck(mgr)
              => UpImages' = {} /\ (attached => ~rtosRunning')]_vars
  <2> SUFFICES ASSUME IInv, [Next]_vars, running, ~running', ~Stuck(mgr)
               PROVE  UpImages' = {} /\ (attached => ~rtosRunning')
    OBVIOUS
  <2>1. Up(mgr') = {} /\ (attached => ~rtosRunning')
    BY ManagerStep
  <2> QED BY <2>1 DEF UpImages, Up
<1> QED BY <1>1, Inductive, PTL DEF Spec, HaltMeansDown

\* The manager, the CPU and the reset controller implement FirmwareSlot: one
\* firmware is never replaced by another without both being down in between.
THEOREM ImplementsSlot == Spec => SlotSpec
<1>1. Init => Slot!Init
  BY InitGood DEF IInv, Init, Slot!Init, UpImage, UpImages, UP, STUCK, FRESH
<1>2. IInv /\ [Next]_vars => [Slot!Next]_UpImage
  <2> SUFFICES ASSUME IInv, [Next]_vars, UpImage' # UpImage
               PROVE  Slot!Next
    OBVIOUS
  <2>1. /\ GoodManager(mgr) /\ GoodManager(mgr')
        /\ Monotone(mgr, mgr')
    BY ManagerStep DEF IInv
  <2>2. UpImages = Up(mgr) /\ UpImages' = Up(mgr')
    BY DEF UpImages, Up
  <2>3. /\ \A f, g \in Up(mgr) : f = g
        /\ \A f, g \in Up(mgr') : f = g
    BY <2>1, OneActive DEF GoodManager
  <2>4. /\ Up(mgr) # {} => UpImage \in Up(mgr)
        /\ Up(mgr) = {} => UpImage = NoImage
        /\ Up(mgr') # {} => UpImage' \in Up(mgr')
        /\ Up(mgr') = {} => UpImage' = NoImage
    BY <2>2 DEF UpImage
  <2>5. Up(mgr) \subseteq Images /\ Up(mgr') \subseteq Images
    BY DEF Up
  <2>6. CASE Up(mgr) = {}
    <3>1. UpImage = NoImage /\ UpImage' \in Images
      BY <2>4, <2>5, <2>6
    <3> QED BY <3>1 DEF Slot!Next, Slot!BringUp
  <2>7. CASE Up(mgr) # {}
    <3>1. Up(mgr') = {}
      BY <2>1, <2>3, <2>4, <2>7 DEF Monotone
    <3> QED BY <2>4, <2>5, <2>7, <3>1, ImagesAssumption DEF Slot!Next, Slot!TakeDown
  <2> QED BY <2>6, <2>7
<1> QED BY <1>1, <1>2, Inductive, PTL DEF Spec, SlotSpec, Slot!Spec
=============================================================================
