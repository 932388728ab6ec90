------------------------------ MODULE Lifecycle ------------------------------
(***************************************************************************)
(* Who is allowed to execute: the CPU (src/src/cpu/cpu.cpp), the firmware  *)
(* manager and the firmwares it switches between (src/src/firmware), the   *)
(* power and reset controllers (src/src/system/power), and whether the     *)
(* RTOS scheduler takes the firmware's place.                              *)
(*                                                                         *)
(* All firmwares of the repository follow one protocol of two flags,       *)
(* m_initialized and m_shutdown; their three reachable values are FRESH,   *)
(* UP and SHUT.  A firmware that is up is STUCK while its shutdown() and   *)
(* reset() throw, as they do when its pin has become an input: the flags   *)
(* are set last, so it stays up.  initialize() sets them first and may     *)
(* throw, too.  What an update does to peripherals, the cycle counter and  *)
(* the register file are left out; Applications has the peripherals.       *)
(*                                                                         *)
(* A CPU step runs code of the program twice: the event callbacks and the  *)
(* interrupt handler, then the tasks or the firmware's update.  Any of it  *)
(* may call the operations below, in the middle of run().  It does not     *)
(* call step() or run() again.                                             *)
(***************************************************************************)
EXTENDS Naturals

CONSTANTS
  Names,      \* firmware names; their order is the order of the std::map
  Images,     \* firmware objects
  NoImage,    \* the null pointer
  Cycles      \* the arguments run() is called with

NoName == 0   \* the empty string

ASSUME NamesAssumption == Names \subseteq Nat \ {NoName}
ASSUME ImagesAssumption == NoImage \notin Images
ASSUME CyclesAssumption == Cycles \subseteq Nat

FRESH == "fresh"
UP == "up"
STUCK == "stuck"
SHUT == "shut"
Flags == {FRESH, UP, STUCK, SHUT}

VARIABLES
  mgr,          \* FirmwareManager: m_firmwareRegistry, m_activeName; the flags
  running,      \* CPU::m_running
  power,        \* PowerController::m_state
  attached,     \* CPU::m_rtosScheduler is not null
  rtosRunning,  \* rtos::Scheduler::m_running
  phase,        \* where the thread is: "host", "loop", "callbacks", "body"
  left          \* iterations left in the loop of run()

vars == <<mgr, running, power, attached, rtosRunning, phase, left>>

TypeOK == /\ mgr \in [registry : [Names -> Images \cup {NoImage}],
                      active : Names \cup {NoName},
                      fw : [Images -> Flags]]
          /\ running \in BOOLEAN /\ attached \in BOOLEAN /\ rtosRunning \in BOOLEAN
          /\ power \in {"ON", "OFF", "SLEEP"}
          /\ phase \in {"host", "loop", "callbacks", "body"}
          /\ left \in Nat
          /\ phase = "host" => left = 0

Init == /\ mgr = [registry |-> [n \in Names |-> NoImage], active |-> NoName,
                  fw |-> [f \in Images |-> FRESH]]
        /\ running = FALSE /\ power = "ON"
        /\ attached = FALSE /\ rtosRunning = FALSE
        /\ phase = "host" /\ left = 0

-----------------------------------------------------------------------------
(***************************************************************************)
(* The member functions of FirmwareManager, on its state.                  *)
(***************************************************************************)
Registered(m) == {n \in Names : m.registry[n] # NoImage}

\* activeFirmware(): the image, if there is one.
Active(m) == {m.registry[n] : n \in {m.active} \cap Registered(m)}

\* shutdown() and reset() throw.
Stuck(m) == \E f \in Active(m) : m.fw[f] = STUCK

\* initialize(), shutdown() and reset(), with the firmware's own function; a
\* firmware that is stuck stays so.
Initialize(m) == [m EXCEPT !.fw = [f \in Images |-> IF f \in Active(m) THEN UP ELSE @[f]]]
Shutdown(m) == [m EXCEPT !.fw = [f \in Images |->
                                   IF f \in Active(m) /\ @[f] = UP THEN SHUT ELSE @[f]]]
ResetActive(m) == [m EXCEPT !.fw = [f \in Images |->
                                   IF f \in Active(m) /\ @[f] # STUCK THEN FRESH ELSE @[f]]]

\* registerFirmware: the first firmware becomes the active one.
RegisterFirmware(m, n, f) ==
  IF n \in Registered(m) THEN m
  ELSE [m EXCEPT !.registry[n] = f,
                 !.active = IF m.active = NoName THEN n ELSE m.active]

\* Mutant: the active firmware is dropped without being shut down.
UnregisterOnly(m, n) ==
  LET rest == Registered(m) \ {n}
  IN [m EXCEPT !.registry[n] = NoImage,
               !.active = IF m.active # n THEN m.active
                          ELSE IF rest = {} THEN NoName
                          ELSE CHOOSE a \in rest : \A b \in rest : a <= b]

\* Mutant: no other firmware is selected.
UnregisterSelectsNone(m, n) ==
  [(IF m.active = n THEN Shutdown(m) ELSE m)
     EXCEPT !.registry[n] = NoImage, !.active = IF @ = n THEN NoName ELSE @]

\* unregisterFirmware: the next firmware in the map's order is selected, but
\* not initialized.  A shutdown() that throws comes before any change.
UnregisterFirmware(m, n) ==
  LET rest == Registered(m) \ {n}
      next == IF rest = {} THEN NoName ELSE CHOOSE a \in rest : \A b \in rest : a <= b
  IN IF n \notin Registered(m) \/ (m.active = n /\ Stuck(m)) THEN m
     ELSE [(IF m.active = n THEN Shutdown(m) ELSE m)
             EXCEPT !.registry[n] = NoImage, !.active = IF @ = n THEN next ELSE @]

\* Mutant: the previous firmware is left running.
SwitchOnly(m, n) == IF n \notin Registered(m) THEN m ELSE [m EXCEPT !.active = n]

\* setActiveFirmware: the new firmware is not initialized, and not selected if
\* shutdown() throws.
SetActiveFirmware(m, n) ==
  IF n \notin Registered(m) \/ m.active = n \/ Stuck(m) THEN m
  ELSE [Shutdown(m) EXCEPT !.active = n]

-----------------------------------------------------------------------------
(***************************************************************************)
(* Calls of the program.                                                   *)
(***************************************************************************)
MayCall == phase # "loop"

\* A call that leaves the CPU and the scheduler as they are.
ManagerCall(m) == /\ MayCall
                  /\ mgr' = m
                  /\ UNCHANGED <<running, power, attached, rtosRunning, phase, left>>

Register(n, f) == ManagerCall(RegisterFirmware(mgr, n, f))
Unregister(n) == ManagerCall(UnregisterFirmware(mgr, n))
SetActive(n) == ManagerCall(SetActiveFirmware(mgr, n))

\* A reset of the peripherals, or the program, makes a pin an input, or the
\* program makes it an output again.
ResetPeripherals(f) == mgr.fw[f] = UP /\ ManagerCall([mgr EXCEPT !.fw[f] = STUCK])
ConfigurePin(f) == mgr.fw[f] = STUCK /\ ManagerCall([mgr EXCEPT !.fw[f] = UP])

\* CPU::start.  An initialize() that throws leaves the RTOS as it was.
MayThrow == ~running /\ Active(mgr) # {}
Started(returns) ==
  /\ returns \/ MayThrow
  /\ running' = TRUE
  /\ mgr' = IF running THEN mgr ELSE Initialize(mgr)
  /\ rtosRunning' = (rtosRunning \/ (returns /\ ~running /\ attached))

Start == /\ MayCall
         /\ \E returns \in BOOLEAN : Started(returns)
         /\ UNCHANGED <<power, attached, phase, left>>

\* CPU::stop, and the calls that begin with it.  m_running is cleared first; a
\* shutdown() that throws leaves the RTOS as it was.  m is the manager after
\* the call if the CPU was not running or shutdown() returned.
Halt(m) == /\ MayCall
           /\ running' = FALSE
           /\ mgr' = IF running /\ Stuck(mgr) THEN mgr ELSE m
           /\ rtosRunning' = (rtosRunning /\ ~(running /\ attached /\ ~Stuck(mgr)))
           /\ UNCHANGED <<power, attached, phase, left>>

\* Mutant: the firmware is not shut down.
StopOnly == Halt(mgr)

Stopped == IF running THEN Shutdown(mgr) ELSE mgr
Stop == Halt(Stopped)

\* loadFirmware: if the name is taken, the firmware it names is activated.
LoadFirmware(f, n) ==
  Halt(SetActiveFirmware(RegisterFirmware(Stopped, n, f), n))

UnloadFirmware ==
  Halt(IF mgr.active = NoName THEN Stopped ELSE UnregisterFirmware(Stopped, mgr.active))

\* CPU::reset and ResetController::resetCPU.  running is not touched.  Neither
\* the RTOS nor what follows is reached if reset() throws.
ResetTo(m) == /\ MayCall
              /\ mgr' = IF Stuck(mgr) THEN mgr ELSE m
              /\ rtosRunning' = (rtosRunning /\ ~(attached /\ ~Stuck(mgr)))
              /\ UNCHANGED <<running, power, attached, phase, left>>

ResetCPU == ResetTo(ResetActive(mgr))

\* ResetController::resetFirmware and resetSystem.  That initialize() throws at
\* their end makes no difference.
ResetFirmware == ManagerCall(IF Stuck(mgr) THEN mgr ELSE Initialize(ResetActive(mgr)))
ResetSystem == ResetTo(Initialize(ResetActive(mgr)))

\* attachRTOSScheduler, with the scheduler or with null.
AttachRTOSScheduler(b) ==
  /\ MayCall
  /\ attached' = b
  /\ UNCHANGED <<mgr, running, power, rtosRunning, phase, left>>

\* Scheduler::start and stop, called by the program itself.
RtosSetRunning(b) == /\ MayCall
                     /\ rtosRunning' = b
                     /\ UNCHANGED <<mgr, running, power, attached, phase, left>>

Power(from, to) == /\ MayCall
                   /\ power \in from
                   /\ power' = to
                   /\ UNCHANGED <<mgr, running, attached, rtosRunning, phase, left>>

PowerOn == Power({"OFF", "SLEEP"}, "ON")
PowerOff == Power({"ON", "SLEEP"}, "OFF")
Sleep == Power({"ON"}, "SLEEP")
Wake == Power({"SLEEP"}, "ON")

-----------------------------------------------------------------------------
(***************************************************************************)
(* CPU::step and CPU::run.                                                 *)
(***************************************************************************)
Step == /\ phase = "host"
        /\ power = "ON"
        /\ phase' = "callbacks"
        /\ UNCHANGED <<mgr, running, power, attached, rtosRunning, left>>

\* run() starts the CPU and enters its loop, unless start() throws.
Run(n) == /\ phase = "host"
          /\ \E returns \in BOOLEAN :
               /\ Started(returns)
               /\ phase' = IF returns THEN "loop" ELSE "host"
               /\ left' = IF returns THEN n ELSE 0
          /\ UNCHANGED <<power, attached>>

\* Mutant: the loop does not count its steps.
LoopUncounted == /\ phase = "loop"
                 /\ IF left > 0 /\ running /\ power = "ON"
                    THEN phase' = "callbacks" /\ left' = left
                    ELSE phase' = "host" /\ left' = 0
                 /\ UNCHANGED <<mgr, running, power, attached, rtosRunning>>

\* Mutant: the loop tests its counter only after the step.
LoopPastEnd == /\ phase = "loop"
               /\ IF running /\ power = "ON"
                  THEN phase' = "callbacks" /\ left' = left - 1
                  ELSE phase' = "host" /\ left' = 0
               /\ UNCHANGED <<mgr, running, power, attached, rtosRunning>>

\* The head of the loop; a plain step() comes here with nothing left.
Loop == /\ phase = "loop"
        /\ IF left > 0 /\ running /\ power = "ON"
           THEN phase' = "callbacks" /\ left' = left - 1
           ELSE phase' = "host" /\ left' = 0
        /\ UNCHANGED <<mgr, running, power, attached, rtosRunning>>

(***************************************************************************)
(* The end of step(), after the callbacks: the tasks, or else the update   *)
(* of an active firmware that is up.                                       *)
(***************************************************************************)
Updates == running /\ \E f \in Active(mgr) : mgr.fw[f] \in {UP, STUCK}
Body == /\ phase = "callbacks"
        /\ phase' = IF (attached /\ rtosRunning) \/ Updates THEN "body" ELSE "loop"
        /\ UNCHANGED <<mgr, running, power, attached, rtosRunning, left>>

Return == /\ phase = "body"
          /\ phase' = "loop"
          /\ UNCHANGED <<mgr, running, power, attached, rtosRunning, left>>

\* An exception leaves step() and run().
Throw == /\ phase \in {"callbacks", "body"}
         /\ phase' = "host" /\ left' = 0
         /\ UNCHANGED <<mgr, running, power, attached, rtosRunning>>

Next == \/ \E n \in Names : \/ Unregister(n) \/ SetActive(n)
                            \/ \E f \in Images : Register(n, f) \/ LoadFirmware(f, n)
        \/ \E f \in Images : ResetPeripherals(f) \/ ConfigurePin(f)
        \/ Start \/ Stop \/ UnloadFirmware
        \/ ResetCPU \/ ResetFirmware \/ ResetSystem
        \/ \E b \in BOOLEAN : AttachRTOSScheduler(b) \/ RtosSetRunning(b)
        \/ PowerOn \/ PowerOff \/ Sleep \/ Wake
        \/ Step \/ (\E n \in Cycles : Run(n)) \/ Loop \/ Body \/ Return \/ Throw

Spec == Init /\ [][Next]_vars

\* The thread goes on: callbacks, tasks and updates return or throw.
FairSpec == Spec /\ WF_vars(Loop) /\ WF_vars(Body \/ Throw) /\ WF_vars(Return \/ Throw)

-----------------------------------------------------------------------------
(***************************************************************************)
(* Properties.                                                             *)
(***************************************************************************)

\* The active name always names a registered firmware, and some firmware is
\* active whenever one is registered, through any sequence of registerFirmware,
\* unregisterFirmware, setActiveFirmware, loadFirmware and unloadFirmware.
ActiveIsRegistered == IF Registered(mgr) = {} THEN mgr.active = NoName
                                              ELSE mgr.active \in Registered(mgr)

\* Only the active firmware can be up: nobody leaves an initialized firmware
\* behind, out of reach of stop(), when it switches, unloads or resets.
UpImages == {f \in Images : mgr.fw[f] \in {UP, STUCK}}
OnlyActiveIsUp == UpImages \subseteq Active(mgr)

\* When the CPU halts (stop, loadFirmware, unloadFirmware, also from a callback
\* in the middle of run) and the shutdown() of its firmware returns, no firmware
\* is left up and no attached RTOS running.
HaltMeansDown ==
  [][running /\ ~running' /\ ~Stuck(mgr)
       => UpImages' = {} /\ (attached => ~rtosRunning')]_vars

\* run() comes back, whatever the program's code does meanwhile to the power,
\* the CPU and the firmware.
RunReturns == (phase # "host") ~> (phase = "host")

\* The refinement mapping: the firmware that is up, if any.
UpImage == IF UpImages = {} THEN NoImage ELSE CHOOSE f \in UpImages : TRUE
Slot == INSTANCE FirmwareSlot WITH up <- UpImage

\* The manager, the CPU and the reset controller together implement
\* FirmwareSlot: one firmware is never replaced by another without a moment in
\* which neither is up.
SlotSpec == Slot!Spec
=============================================================================
