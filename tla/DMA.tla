--------------------------------- MODULE DMA ---------------------------------
(***************************************************************************)
(* The DMA controller, class efs::drivers::dma::DMAController              *)
(* (src/src/drivers/dma/dma_controller.cpp), with the UART and the memory  *)
(* (src/src/memory/memory.cpp) that it moves bytes between.                *)
(*                                                                         *)
(* The operators on a whole data path take a record m of the controller,   *)
(* the UART and the memory's bytes.  Of the MMIO registers, DATA of the    *)
(* UART is the one in reach.                                               *)
(***************************************************************************)
EXTENDS Naturals, Sequences

CONSTANTS MemSize,       \* m_storage.size()
          DataAddress    \* the bus address of the UART's DATA register

Uart == INSTANCE UART

Cells == 0 .. MemSize - 1

\* links: which of the pointers memory, mmio, interrupts, uart and scheduler are
\* not null, and bus if the controller is in m_dmas.
NewDMA(links) ==
  [src |-> 0, dst |-> 0, len |-> 0, curSrc |-> 0, curDst |-> 0, n |-> 0,
   srcInc |-> TRUE, dstInc |-> TRUE, userSet |-> FALSE,
   busy |-> FALSE, completed |-> FALSE, error |-> FALSE, links |-> links]

NewMemory == [a \in Cells |-> 0]

(***************************************************************************)
(* What serves an address, in the order in which it is asked: the FIFOs of *)
(* an attached UART, a register on the MMIO bus, memory.                   *)
(***************************************************************************)
Unit(d, a) == IF "uart" \in d.links /\ a = DataAddress THEN "uart"
              ELSE IF "mmio" \in d.links /\ a = DataAddress THEN "mmio"
              ELSE IF "memory" \in d.links /\ a \in Cells THEN "memory"
              ELSE "none"

\* Unless the program has chosen, registers are not stepped over.
Configure(d, src, dst, len) ==
  IF d.busy THEN d
  ELSE [d EXCEPT !.src = src, !.dst = dst, !.len = len,
                 !.curSrc = src, !.curDst = dst, !.n = 0,
                 !.completed = FALSE, !.error = FALSE,
                 !.srcInc = IF d.userSet THEN @ ELSE Unit(d, src) \notin {"uart", "mmio"},
                 !.dstInc = IF d.userSet THEN @ ELSE Unit(d, dst) \notin {"uart", "mmio"}]

\* At any time, in the middle of a transfer too.
SetIncrements(d, srcInc, dstInc) ==
  [d EXCEPT !.srcInc = srcInc, !.dstInc = dstInc, !.userSet = TRUE]

Startable(d) == d.links \cap {"memory", "mmio", "uart"} # {}

\* start(), from the beginning even if a transfer is under way.
Start(d) ==
  CASE ~Startable(d) -> [d EXCEPT !.error = TRUE]
    [] Startable(d) /\ d.len = 0 ->
         [d EXCEPT !.busy = FALSE, !.completed = TRUE, !.error = FALSE]
    [] Startable(d) /\ d.len > 0 /\ "none" \in {Unit(d, d.src), Unit(d, d.dst)} ->
         [d EXCEPT !.busy = FALSE, !.completed = FALSE, !.error = TRUE]
    [] OTHER ->
         [d EXCEPT !.curSrc = d.src, !.curDst = d.dst, !.n = 0,
                   !.busy = TRUE, !.completed = FALSE, !.error = FALSE]

\* Mutant: an empty transfer raises no interrupt.
NeverOnStart(d) == FALSE

\* An empty transfer is complete at once: an interrupt, but no event.
StartTriggers(d) == Startable(d) /\ d.len = 0 /\ "interrupts" \in d.links

Stop(d) == [d EXCEPT !.busy = FALSE]

Reset(d) == NewDMA(d.links)

-----------------------------------------------------------------------------
(***************************************************************************)
(* step(): one byte.                                                       *)
(***************************************************************************)
Source(m) == Unit(m.dma, m.dma.curSrc)
Destination(m) == Unit(m.dma, m.dma.curDst)
Moves(m) == m.dma.busy /\ m.dma.n < m.dma.len

\* The UART throws, and step() with it, before anything has changed.
Throws(m) ==
  /\ Moves(m) /\ Source(m) # "none"
  /\ \/ Source(m) = "uart" /\ ~Uart!CanRead(m.uart)
     \/ Destination(m) = "uart" /\ ~Uart!CanWrite(m.uart)

ByteRead(m) == CASE Source(m) = "uart" -> Head(m.uart.rx)
                 [] Source(m) = "mmio" -> m.uart.data
                 [] Source(m) = "memory" -> m.mem[m.dma.curSrc]

Fetched(m) ==
  IF Source(m) = "uart" THEN [m EXCEPT !.uart = Uart!ReadByte(@)] ELSE m

Delivered(m, b) ==
  CASE Destination(m) = "uart" -> [m EXCEPT !.uart = Uart!WriteByte(@, b)]
    [] Destination(m) = "mmio" -> [m EXCEPT !.uart.data = b]
    [] Destination(m) = "memory" -> [m EXCEPT !.mem[m.dma.curDst] = b]

\* Mutant: the two increments are taken for one another.
CountedCrosswise(d) ==
  [d EXCEPT !.n = @ + 1,
            !.curSrc = IF d.dstInc THEN @ + 1 ELSE @,
            !.curDst = IF d.srcInc THEN @ + 1 ELSE @,
            !.busy = d.n + 1 < d.len, !.completed = d.n + 1 >= d.len]

Counted(d) ==
  [d EXCEPT !.n = @ + 1,
            !.curSrc = IF d.srcInc THEN @ + 1 ELSE @,
            !.curDst = IF d.dstInc THEN @ + 1 ELSE @,
            !.busy = d.n + 1 < d.len, !.completed = d.n + 1 >= d.len]

Failed(d) == [d EXCEPT !.error = TRUE, !.busy = FALSE]

\* A byte that was fetched is lost if nothing serves the destination.
Step(m) ==
  CASE ~m.dma.busy \/ Throws(m) -> m
    [] m.dma.busy /\ ~Moves(m) -> [m EXCEPT !.dma.busy = FALSE, !.dma.completed = TRUE]
    [] Moves(m) /\ Source(m) = "none" -> [m EXCEPT !.dma = Failed(@)]
    [] Moves(m) /\ ~Throws(m) /\ Source(m) # "none" /\ Destination(m) = "none" ->
         [Fetched(m) EXCEPT !.dma = Failed(@)]
    [] OTHER -> [Delivered(Fetched(m), ByteRead(m)) EXCEPT !.dma = Counted(@)]

\* What the step that moves the last byte does besides: it raises the interrupt
\* and schedules an event.
Finishes(m) == Moves(m) /\ Step(m).dma.completed
StepTriggers(m) == Finishes(m) /\ "interrupts" \in m.dma.links
StepSchedules(m) == Finishes(m) /\ "scheduler" \in m.dma.links
=============================================================================
