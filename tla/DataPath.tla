------------------------------ MODULE DataPath ------------------------------
(***************************************************************************)
(* The data path of a system: the DMA controller on the system bus, the    *)
(* UART, memory, the interrupt line of the controller and the events that  *)
(* are due, driven by the CPU and by the program (src/src/drivers/dma,     *)
(* src/src/system/system_bus.cpp, src/src/cpu/cpu.cpp).                    *)
(*                                                                         *)
(* The clock is left out: an event is here once its cycle has come, and    *)
(* the controller's own is scheduled for cycle 0.                          *)
(***************************************************************************)
EXTENDS Integers, Sequences

CONSTANTS MemSize, DataAddress,
          Transfers,   \* the transfers: source, destination and length
          MaxLength,   \* bound on their length
          Payload,     \* what the program loads: bytes by address
          Bytes, FifoBound

ASSUME MemoryAssumption == MemSize \in Nat \ {0} /\ DataAddress \in Nat /\ DataAddress > MemSize
ASSUME TransferAssumption ==
  /\ MaxLength \in Nat
  /\ LET addresses == (0 .. MemSize - 1) \cup {DataAddress}
     IN Transfers \subseteq addresses \X addresses \X (0 .. MaxLength)
ASSUME BytesAssumption ==
  /\ Bytes \subseteq 1 .. 255 /\ FifoBound \in Nat
  /\ \A a \in DOMAIN Payload : a < MemSize /\ Payload[a] \in Bytes

VARIABLES
  dma, uart, mem,
  units,       \* the pointers of the system bus that are not null, of Units
  irq,         \* the controller's interrupt line: "off", "idle" or "pending"
  doneEvent,   \* the event of a completed transfer is in the queue
  handled,     \* the interrupt handler ran in the last step of the CPU
  taken,       \* history: the bytes that the current transfer has fetched
  fed,         \* history: the bytes that were there for it to fetch in the FIFO
  intact       \* history: nobody has interfered with the current transfer

path == <<dma, uart, mem>>
history == <<taken, fed, intact>>
vars == <<path, units, irq, doneEvent, handled, history>>

D == INSTANCE DMA

Units == {"memory", "mmio", "interrupts", "uart"}

Loaded == [a \in 0 .. MemSize - 1 |-> IF a \in DOMAIN Payload THEN Payload[a] ELSE 0]

Path == [dma |-> dma, uart |-> uart, mem |-> mem]
Become(m) == dma' = m.dma /\ uart' = m.uart /\ mem' = m.mem

\* InterruptController::trigger of the line.
Triggered(line) == IF line = "off" THEN line ELSE "pending"

Forget == taken' = <<>> /\ fed' = <<>> /\ intact' = FALSE
KeepHistory == UNCHANGED history
Undisturbed == UNCHANGED <<units, irq, doneEvent>> /\ handled' = FALSE

-----------------------------------------------------------------------------
Init ==
  /\ dma = D!NewDMA({})
  /\ uart = D!Uart!NewUART(1)
  /\ mem = D!NewMemory
  /\ units \in {Units, Units \ {"uart"}}
  /\ irq = "off"
  /\ doneEvent = FALSE /\ handled = FALSE
  /\ taken = <<>> /\ fed = <<>> /\ intact = FALSE

(***************************************************************************)
(* SystemBus.  Detaching takes the scheduler away from the controller and  *)
(* leaves it everything else.                                              *)
(***************************************************************************)
AttachDMA ==
  /\ "bus" \notin dma.links
  /\ dma' = [dma EXCEPT !.links = @ \cup units \cup {"scheduler", "bus"}]
  /\ Forget
  /\ UNCHANGED <<uart, mem>> /\ Undisturbed

DetachDMA ==
  /\ "bus" \in dma.links
  /\ dma' = [dma EXCEPT !.links = @ \ {"scheduler", "bus"}]
  /\ UNCHANGED <<uart, mem>> /\ KeepHistory /\ Undisturbed

(***************************************************************************)
(* SystemBus::setMemory, setMMIO, setInterrupts and attachUART, with the   *)
(* unit or with null: the controllers on the bus follow.  Bounds: a        *)
(* controller that is known to the bus and not busy; units other than the  *)
(* UART only before its first transfer and one at a time.                  *)
(***************************************************************************)
SetUnit(u) ==
  /\ ~dma.busy /\ ("bus" \in dma.links \/ dma.links = {})
  /\ u # "uart" => dma = D!NewDMA(dma.links) /\ Units \ units \subseteq {u, "uart"}
  /\ units' = IF u \in units THEN units \ {u} ELSE units \cup {u}
  /\ dma' = IF "bus" \notin dma.links THEN dma
            ELSE [dma EXCEPT !.links = (@ \ {u}) \cup ({u} \cap units')]
  /\ IF dma' # dma THEN Forget ELSE KeepHistory
  /\ handled' = FALSE
  /\ UNCHANGED <<uart, mem, irq, doneEvent>>

\* SystemBus::reset, of the units that the bus has: the interrupt lines are
\* unregistered; the events are gone in any case.
BusReset ==
  /\ dma' = IF "bus" \in dma.links THEN D!Reset(dma) ELSE dma
  /\ uart' = IF "uart" \in units THEN D!Uart!Reset(uart) ELSE uart
  /\ mem' = IF "memory" \in units THEN D!NewMemory ELSE mem
  /\ irq' = IF "interrupts" \in units THEN "off" ELSE irq
  /\ doneEvent' = FALSE /\ handled' = FALSE
  /\ Forget
  /\ UNCHANGED units

-----------------------------------------------------------------------------
(***************************************************************************)
(* The program on the controller.  Bounds: it sets a transfer up on a      *)
(* quiet system (the controller attached and without increments of the     *)
(* program's own, its line registered, the FIFOs empty, memory loaded); it *)
(* changes the increments before the first byte and lets no transfer walk  *)
(* over the registers of the UART.                                         *)
(***************************************************************************)
ConfigureDMA(src, dst, len) ==
  /\ D!Startable(dma) /\ irq # "off" /\ ~dma.userSet
  /\ uart.tx = <<>> /\ uart.rx = <<>> /\ mem = Loaded
  /\ dma' = D!Configure(dma, src, dst, len)
  /\ IF dma.busy THEN KeepHistory ELSE Forget
  /\ UNCHANGED <<uart, mem>> /\ Undisturbed

Walks(d) == \/ d.srcInc /\ d.src = DataAddress
            \/ d.dstInc /\ d.dst = DataAddress

SetIncrements(srcInc, dstInc) ==
  /\ dma.n = 0 /\ dma.len > 0
  /\ ~Walks(D!SetIncrements(dma, srcInc, dstInc))
  /\ dma' = D!SetIncrements(dma, srcInc, dstInc)
  /\ IF dma.busy \/ dma.completed THEN Forget ELSE KeepHistory
  /\ UNCHANGED <<uart, mem>> /\ Undisturbed

StartDMA ==
  /\ uart.tx = <<>>
  /\ dma' = D!Start(dma)
  /\ irq' = IF D!StartTriggers(dma) THEN Triggered(irq) ELSE irq
  /\ taken' = <<>> /\ intact' = dma'.busy
  /\ fed' = IF dma'.busy THEN uart.rx ELSE <<>>
  /\ handled' = FALSE
  /\ UNCHANGED <<uart, mem, units, doneEvent>>

StopDMA ==
  /\ dma.busy
  /\ dma' = D!Stop(dma)
  /\ Forget
  /\ UNCHANGED <<uart, mem>> /\ Undisturbed

ResetDMA ==
  /\ dma' = D!Reset(dma)
  /\ Forget
  /\ UNCHANGED <<uart, mem>> /\ Undisturbed

-----------------------------------------------------------------------------
(***************************************************************************)
(* The other users of the UART, of memory and of the interrupt controller. *)
(***************************************************************************)
\* Bytes come in for a transfer that wants them (a bound).
PushReceivedByte(b) ==
  /\ Len(uart.rx) < FifoBound /\ uart.enabled /\ dma.src = DataAddress
  /\ uart' = D!Uart!PushReceivedByte(uart, b)
  /\ fed' = IF intact THEN Append(fed, b) ELSE fed
  /\ UNCHANGED <<dma, mem, taken, intact>> /\ Undisturbed

\* A reader other than the controller, and the far end of the line.
ReadUART ==
  /\ D!Uart!CanRead(uart)
  /\ uart' = D!Uart!ReadByte(uart)
  /\ Forget
  /\ UNCHANGED <<dma, mem>> /\ Undisturbed

PopTxByte ==
  /\ uart.tx # <<>>
  /\ uart' = D!Uart!PopTxByte(uart)
  /\ Forget
  /\ UNCHANGED <<dma, mem>> /\ Undisturbed

SwitchUART ==
  /\ uart' = IF uart.enabled THEN D!Uart!Disable(uart) ELSE D!Uart!Enable(uart)
  /\ UNCHANGED <<dma, mem>> /\ KeepHistory /\ Undisturbed

\* Memory::write, cell by cell: the bytes to be sent, and 0 elsewhere.
LoadMemory ==
  /\ ~dma.busy
  /\ mem' = Loaded
  /\ Forget
  /\ UNCHANGED <<dma, uart>> /\ Undisturbed

\* registerInterrupt, registerHandler and enable of the line.
RegisterLine ==
  /\ irq = "off" /\ irq' = "idle" /\ handled' = FALSE
  /\ UNCHANGED <<path, units, doneEvent, history>>

-----------------------------------------------------------------------------
\* The bookkeeping of one step of the controller.
StepHistory ==
  IF dma' = dma \/ ~intact THEN KeepHistory
  ELSE IF dma'.error THEN Forget
  ELSE taken' = Append(taken, D!ByteRead(Path)) /\ UNCHANGED <<fed, intact>>

\* DMAController::step, called by the program.
StepDMA ==
  /\ dma.busy
  /\ Become(D!Step(Path))
  /\ irq' = IF D!StepTriggers(Path) THEN Triggered(irq) ELSE irq
  /\ doneEvent' = (doneEvent \/ D!StepSchedules(Path))
  /\ StepHistory
  /\ handled' = FALSE
  /\ UNCHANGED units

\* tickTimers ticks the controllers in m_dmas.
TicksDMA == "bus" \in dma.links

(***************************************************************************)
(* CPU::step with the power on: the controller, the events that are due,   *)
(* the interrupt.  If the UART throws, so does the step, and the events    *)
(* and interrupts of this cycle are not looked at.                         *)
(***************************************************************************)
CpuStep ==
  LET ticks == TicksDMA
      s == IF ticks THEN D!Step(Path) ELSE Path
      line == IF ticks /\ D!StepTriggers(Path) THEN Triggered(irq) ELSE irq
  IN IF ticks /\ D!Throws(Path)
     THEN handled' = FALSE /\ UNCHANGED <<path, units, irq, doneEvent, history>>
     ELSE /\ Become(s)
          /\ StepHistory
          /\ doneEvent' = FALSE
          /\ handled' = (line = "pending" /\ "interrupts" \in units)
          /\ irq' = IF handled' THEN "idle" ELSE line
          /\ UNCHANGED units

Next ==
  \/ AttachDMA \/ DetachDMA \/ BusReset
  \/ \E u \in Units : SetUnit(u)
  \/ \E t \in Transfers : ConfigureDMA(t[1], t[2], t[3])
  \/ \E srcInc, dstInc \in BOOLEAN : SetIncrements(srcInc, dstInc)
  \/ StartDMA \/ StopDMA \/ ResetDMA
  \/ \E b \in Bytes : PushReceivedByte(b)
  \/ ReadUART \/ PopTxByte \/ SwitchUART
  \/ LoadMemory \/ RegisterLine
  \/ StepDMA \/ CpuStep

Spec == Init /\ [][Next]_vars

-----------------------------------------------------------------------------
(***************************************************************************)
(* A transfer that nobody interferes with moves exactly the bytes it was   *)
(* asked to, in order: it has fetched as many as it counts, from memory    *)
(* the ones that are there (unless the transfer itself stored over the     *)
(* cell afterwards), from the FIFO the oldest ones, and each is where it   *)
(* belongs in memory or at the end of the transmit FIFO.  That is so after *)
(* every byte, after steps that the UART aborted and after a restart, and  *)
(* a transfer is complete only with all of them.                           *)
(***************************************************************************)
At(a, inc, i) == IF inc THEN a + i - 1 ELSE a

StoredOver(i) ==
  /\ D!Unit(dma, dma.dst) = "memory"
  /\ \E j \in i .. dma.n : At(dma.dst, dma.dstInc, j) = At(dma.src, dma.srcInc, i)

FromMemory == D!Unit(dma, dma.src) = "memory" =>
  \A i \in 1 .. dma.n : StoredOver(i) \/ taken[i] = mem[At(dma.src, dma.srcInc, i)]

FromFifo == D!Unit(dma, dma.src) = "uart" => fed = taken \o uart.rx

ToMemory == D!Unit(dma, dma.dst) = "memory" =>
  \A i \in 1 .. dma.n : dma.dstInc \/ i = dma.n => mem[At(dma.dst, dma.dstInc, i)] = taken[i]

ToFifo == D!Unit(dma, dma.dst) = "uart" =>
  LET len == Len(uart.tx) IN dma.n <= len /\ SubSeq(uart.tx, len - dma.n + 1, len) = taken

BytesArrive ==
  intact /\ (dma.busy \/ dma.completed) =>
    /\ Len(taken) = dma.n
    /\ IF dma.busy THEN dma.n < dma.len ELSE dma.n = dma.len
    /\ FromMemory /\ FromFifo /\ ToMemory /\ ToFifo

(***************************************************************************)
(* Whenever a transfer becomes complete, be it empty, stepped by the CPU   *)
(* or stepped by the program, a registered interrupt line is pending, or   *)
(* its handler has run already in the same step.                           *)
(***************************************************************************)
CompletionSignalled ==
  [][~dma.completed /\ dma'.completed /\ irq # "off" /\ "interrupts" \in dma.links
       => irq' = "pending" \/ handled']_vars
=============================================================================
