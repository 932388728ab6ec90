--------------------------- MODULE DataPathProofs ---------------------------
(***************************************************************************)
(* Proofs about DataPath, for any memory, any bytes and any transfers,     *)
(* also ones whose source and destination overlap.                         *)
(*                                                                         *)
(* BytesArrive says where the bytes are; to keep it, a step has to be at   *)
(* the right place: the current addresses of an undisturbed transfer are   *)
(* the first ones plus the bytes moved, and one that began in memory has   *)
(* not run past its end by more than the one step that will fail.          *)
(***************************************************************************)
EXTENDS DataPath, QueueTheorems

B == Bytes \cup {0}
Addresses == D!Cells \cup {DataAddress}
Links == Units \cup {"scheduler", "bus"}

DmaStates ==
  [src : Addresses, dst : Addresses, len : Nat, curSrc : Nat, curDst : Nat, n : Nat,
   srcInc : BOOLEAN, dstInc : BOOLEAN, userSet : BOOLEAN,
   busy : BOOLEAN, completed : BOOLEAN, error : BOOLEAN, links : SUBSET Links]

UartStates == D!Uart!UartState(B, {1})
Memories == [D!Cells -> B]

PathGood == dma \in DmaStates /\ uart \in UartStates /\ mem \in Memories

HistoryGood == taken \in Seq(B) /\ fed \in Seq(B) /\ intact \in BOOLEAN

\* A transfer that is under way has bytes left to move.
BusyGood(d) == d.busy => D!Startable(d) /\ ~d.error /\ d.n < d.len

\* Where an undisturbed transfer is.
Positioned(d) ==
  /\ d.curSrc = At(d.src, d.srcInc, d.n + 1) /\ d.curDst = At(d.dst, d.dstInc, d.n + 1)
  /\ d.src \in D!Cells => d.curSrc <= MemSize
  /\ d.dst \in D!Cells => d.curDst <= MemSize

InFifo == D!Unit(dma, dma.dst) = "uart" =>
  dma.n <= Len(uart.tx) /\ \A i \in 1 .. dma.n : uart.tx[Len(uart.tx) - dma.n + i] = taken[i]

Progress ==
  /\ dma.busy \/ dma.completed
  /\ Len(taken) = dma.n
  /\ IF dma.busy THEN dma.n < dma.len ELSE dma.n = dma.len
  /\ Positioned(dma)
  /\ FromMemory /\ FromFifo /\ ToMemory /\ InFifo

TransferGood == PathGood /\ HistoryGood /\ BusyGood(dma) /\ (intact => Progress)

IInv == TransferGood /\ units \in SUBSET Units

-----------------------------------------------------------------------------
(***************************************************************************)
(* Addresses and the units that serve them.                                *)
(***************************************************************************)
LEMMA CellsNat ==
  /\ D!Cells \subseteq Nat /\ DataAddress \in Nat /\ DataAddress \notin D!Cells
  /\ 0 \in D!Cells /\ MemSize \notin D!Cells /\ MemSize # DataAddress
  /\ \A a \in Nat : a \in D!Cells <=> a < MemSize
BY MemoryAssumption DEF D!Cells

LEMMA UnitCases ==
  ASSUME NEW d, NEW a
  PROVE  /\ D!Unit(d, a) \in {"uart", "mmio", "memory", "none"}
         /\ D!Unit(d, a) = "uart" <=> "uart" \in d.links /\ a = DataAddress
         /\ D!Unit(d, a) = "memory" <=> "memory" \in d.links /\ a \in D!Cells
         /\ D!Unit(d, a) = "mmio" => a = DataAddress
<1>1. DataAddress \notin D!Cells
  BY CellsNat
<1>2. CASE "uart" \in d.links /\ a = DataAddress
  <2>1. D!Unit(d, a) = "uart"
    BY <1>2 DEF D!Unit
  <2> QED BY <1>1, <1>2, <2>1
<1>3. CASE ~("uart" \in d.links) /\ a = DataAddress
  <2>1. D!Unit(d, a) = "mmio" \/ D!Unit(d, a) = "none"
    BY <1>1, <1>3 DEF D!Unit
  <2> QED BY <1>1, <1>3, <2>1
<1>4. CASE a # DataAddress
  <2>1. D!Unit(d, a) = IF "memory" \in d.links /\ a \in D!Cells THEN "memory" ELSE "none"
    BY <1>4 DEF D!Unit
  <2> QED BY <1>4, <2>1
<1> QED BY <1>2, <1>3, <1>4

\* The units depend on the pointers only.
LEMMA UnitLinks ==
  ASSUME NEW d, NEW e, NEW a, d.links \cap Units = e.links \cap Units
  PROVE  D!Unit(d, a) = D!Unit(e, a)
BY DEF D!Unit, Units

\* Where a unit serves the current address of a transfer, it is the unit at the
\* first address.
LEMMA SameUnit ==
  ASSUME NEW d \in DmaStates, NEW first \in Addresses, NEW cur \in Nat, NEW inc \in BOOLEAN,
         cur = At(first, inc, d.n + 1), first \in D!Cells => cur <= MemSize,
         D!Unit(d, cur) # "none"
  PROVE  /\ D!Unit(d, first) = D!Unit(d, cur)
         /\ first \in D!Cells => cur \in D!Cells
         /\ first = DataAddress => cur = DataAddress
<1>1. d.n \in Nat /\ first \in Nat /\ MemSize \in Nat /\ DataAddress \in Nat /\ DataAddress > MemSize
  BY CellsNat, MemoryAssumption DEF DmaStates, Addresses
<1>2. cur = DataAddress \/ cur \in D!Cells
  BY UnitCases
<1>3. first <= cur
  BY <1>1 DEF At
<1>4. CASE first \in D!Cells
  <2>1. cur \in D!Cells /\ first # DataAddress /\ cur # DataAddress
    BY <1>1, <1>2, <1>4, CellsNat
  <2> QED BY <1>4, <2>1, UnitCases DEF D!Unit
<1>5. CASE first = DataAddress
  <2>1. cur = DataAddress
    BY <1>1, <1>2, <1>3, <1>5, CellsNat
  <2> QED BY <1>5, <2>1, CellsNat
<1> QED BY <1>4, <1>5 DEF Addresses

-----------------------------------------------------------------------------
(***************************************************************************)
(* The UART as the data path uses it.                                      *)
(***************************************************************************)
LEMMA UartFields ==
  ASSUME NEW u \in UartStates
  PROVE  u.tx \in Seq(B) /\ u.rx \in Seq(B) /\ u.data \in B /\ u.enabled \in BOOLEAN
BY DEF UartStates, D!Uart!UartState

LEMMA UartRefreshed ==
  ASSUME NEW u \in UartStates, NEW r, r = D!Uart!UpdateStatusRegister(u)
  PROVE  r \in UartStates /\ r.tx = u.tx /\ r.rx = u.rx /\ r.enabled = u.enabled
<1>1. D!Uart!StatusOf(u) \in SUBSET {D!Uart!TX_EMPTY, D!Uart!RX_AVAIL, D!Uart!ENABLED_BIT}
  BY DEF D!Uart!StatusOf
<1> QED BY <1>1 DEF D!Uart!UpdateStatusRegister, UartStates, D!Uart!UartState

LEMMA UartRead ==
  ASSUME NEW u \in UartStates, D!Uart!CanRead(u), NEW r, r = D!Uart!ReadByte(u)
  PROVE  /\ r \in UartStates /\ r.tx = u.tx /\ r.rx = Tail(u.rx) /\ r.enabled = u.enabled
         /\ u.rx # <<>> /\ Head(u.rx) \in B
<1> DEFINE v == [u EXCEPT !.rx = Tail(@), !.data = Head(u.rx)]
<1>1. u.rx # <<>> /\ Tail(u.rx) \in Seq(B) /\ Head(u.rx) \in B
  BY UartFields DEF D!Uart!CanRead
<1>2. v \in UartStates /\ v.tx = u.tx /\ v.rx = Tail(u.rx) /\ v.enabled = u.enabled
  BY <1>1 DEF UartStates, D!Uart!UartState
<1>3. r = D!Uart!UpdateStatusRegister(v)
  BY DEF D!Uart!ReadByte
<1> HIDE DEF v
<1> QED BY <1>1, <1>2, <1>3, UartRefreshed

LEMMA UartWritten ==
  ASSUME NEW u \in UartStates, D!Uart!CanWrite(u), NEW b \in B, NEW r, r = D!Uart!WriteByte(u, b)
  PROVE  r \in UartStates /\ r.tx = Append(u.tx, b) /\ r.rx = u.rx
<1> DEFINE v == [u EXCEPT !.tx = Append(@, b), !.data = b]
<1>1. Append(u.tx, b) \in Seq(B)
  BY UartFields
<1>2. v \in UartStates /\ v.tx = Append(u.tx, b) /\ v.rx = u.rx
  BY <1>1 DEF UartStates, D!Uart!UartState
<1>3. r = D!Uart!UpdateStatusRegister(v)
  BY DEF D!Uart!WriteByte
<1> HIDE DEF v
<1> QED BY <1>2, <1>3, UartRefreshed

LEMMA UartPushed ==
  ASSUME NEW u \in UartStates, u.enabled, NEW b \in B, NEW r, r = D!Uart!PushReceivedByte(u, b)
  PROVE  r \in UartStates /\ r.tx = u.tx /\ r.rx = Append(u.rx, b)
<1> DEFINE v == [u EXCEPT !.rx = Append(@, b)]
<1>1. Append(u.rx, b) \in Seq(B)
  BY UartFields
<1>2. v \in UartStates /\ v.rx = Append(u.rx, b) /\ v.tx = u.tx
  BY <1>1 DEF UartStates, D!Uart!UartState
<1>3. r = D!Uart!UpdateStatusRegister(v)
  BY DEF D!Uart!PushReceivedByte
<1> HIDE DEF v
<1> QED BY <1>2, <1>3, UartRefreshed

LEMMA UartSwitched ==
  ASSUME NEW u \in UartStates, NEW r \in {D!Uart!Enable(u), D!Uart!Disable(u)}
  PROVE  r \in UartStates /\ r.tx = u.tx /\ r.rx = u.rx
<1>1. PICK on \in BOOLEAN : r = D!Uart!UpdateStatusRegister([u EXCEPT !.enabled = on])
  BY DEF D!Uart!Enable, D!Uart!Disable
<1> DEFINE v == [u EXCEPT !.enabled = on]
<1>2. v \in UartStates /\ v.tx = u.tx /\ v.rx = u.rx
  BY DEF UartStates, D!Uart!UartState
<1>3. r = D!Uart!UpdateStatusRegister(v)
  BY <1>1
<1> HIDE DEF v
<1> QED BY <1>2, <1>3, UartRefreshed

LEMMA UartOthers ==
  ASSUME NEW u \in UartStates
  PROVE  /\ u.tx # <<>> => D!Uart!PopTxByte(u) \in UartStates
         /\ D!Uart!Reset(u) \in UartStates
<1>1. <<>> \in Seq(B) /\ 0 \in B
  BY DEF B
<1>2. ASSUME u.tx # <<>> PROVE D!Uart!PopTxByte(u) \in UartStates
  <2> DEFINE v == [u EXCEPT !.tx = Tail(@)]
  <2>1. Tail(u.tx) \in Seq(B)
    BY <1>2, UartFields
  <2>2. v \in UartStates
    BY <2>1 DEF UartStates, D!Uart!UartState
  <2>3. D!Uart!PopTxByte(u) = D!Uart!UpdateStatusRegister(v)
    BY <1>2 DEF D!Uart!PopTxByte
  <2> HIDE DEF v
  <2> QED BY <2>2, <2>3, UartRefreshed
<1>3. D!Uart!Reset(u) \in UartStates
  <2> DEFINE v == [u EXCEPT !.enabled = FALSE, !.tx = <<>>, !.rx = <<>>, !.data = 0]
  <2>1. v \in UartStates
    BY <1>1 DEF UartStates, D!Uart!UartState
  <2>2. D!Uart!Reset(u) = D!Uart!UpdateStatusRegister(v)
    BY DEF D!Uart!Reset
  <2> HIDE DEF v
  <2> QED BY <2>1, <2>2, UartRefreshed
<1> QED BY <1>2, <1>3

-----------------------------------------------------------------------------
(***************************************************************************)
(* One byte: what a step that neither throws nor fails does.               *)
(***************************************************************************)
MovesByte ==
  /\ D!Moves(Path) /\ ~D!Throws(Path)
  /\ D!Source(Path) # "none" /\ D!Destination(Path) # "none"

Src == D!Unit(dma, dma.curSrc)
Dst == D!Unit(dma, dma.curDst)

LEMMA PathFields == Path.dma = dma /\ Path.uart = uart /\ Path.mem = mem
BY DEF Path

LEMMA Ends == D!Source(Path) = Src /\ D!Destination(Path) = Dst
BY PathFields DEF D!Source, D!Destination, Src, Dst

LEMMA Fetch ==
  ASSUME PathGood, MovesByte, NEW f, f = D!Fetched(Path), NEW b, b = D!ByteRead(Path)
  PROVE  /\ b \in B /\ f.dma = dma /\ f.mem = mem /\ f.uart \in UartStates
         /\ f = [dma |-> dma, uart |-> f.uart, mem |-> mem]
         /\ f.uart.tx = uart.tx /\ (Dst = "uart" => D!Uart!CanWrite(f.uart))
         /\ Src = "uart" => uart.rx # <<>> /\ b = Head(uart.rx) /\ f.uart.rx = Tail(uart.rx)
         /\ Src # "uart" => f.uart.rx = uart.rx
         /\ Src = "memory" => b = mem[dma.curSrc]
<1>1. uart \in UartStates /\ mem \in Memories /\ uart.data \in B
  BY UartFields DEF PathGood
<1>2. Src \in {"uart", "mmio", "memory"}
  BY UnitCases, Ends DEF MovesByte, Src
<1>3. /\ Src = "uart" => D!Uart!CanRead(uart)
      /\ Dst = "uart" => D!Uart!CanWrite(uart)
  BY Ends, PathFields DEF MovesByte, D!Throws
<1>4. CASE Src = "uart"
  <2> DEFINE u == D!Uart!ReadByte(uart)
  <2>1. /\ u \in UartStates /\ u.tx = uart.tx /\ u.rx = Tail(uart.rx) /\ u.enabled = uart.enabled
        /\ uart.rx # <<>> /\ Head(uart.rx) \in B
    BY <1>1, <1>3, <1>4, UartRead
  <2>2. f = [Path EXCEPT !.uart = u]
    BY <1>4, Ends DEF D!Fetched, Path
  <2> HIDE DEF u
  <2>3. f.uart = u /\ f.dma = dma /\ f.mem = mem /\ f = [dma |-> dma, uart |-> u, mem |-> mem]
    BY <2>2 DEF Path
  <2>4. b = Head(uart.rx)
    BY <1>4, Ends, PathFields DEF D!ByteRead
  <2> QED BY <1>3, <1>4, <2>1, <2>3, <2>4 DEF D!Uart!CanWrite
<1>5. CASE Src # "uart"
  <2>1. f = Path
    BY <1>5, Ends DEF D!Fetched
  <2>2. b \in B /\ (Src = "memory" => b = mem[dma.curSrc])
    <3>1. CASE Src = "memory"
      <4>1. dma.curSrc \in D!Cells
        BY <3>1, UnitCases DEF Src
      <4> QED BY <1>1, <3>1, <4>1, Ends, PathFields DEF D!ByteRead, Memories
    <3>2. CASE Src = "mmio"
      BY <1>1, <3>2, Ends, PathFields DEF D!ByteRead
    <3> QED BY <1>2, <1>5, <3>1, <3>2
  <2>3. f = [dma |-> dma, uart |-> f.uart, mem |-> mem] /\ f.uart = uart
    BY <2>1 DEF Path
  <2> QED BY <1>1, <1>3, <1>5, <2>1, <2>2, <2>3, PathFields
<1> QED BY <1>4, <1>5

LEMMA Deliver ==
  ASSUME PathGood, MovesByte, NEW b \in B, NEW f, f.uart \in UartStates,
         f = [dma |-> dma, uart |-> f.uart, mem |-> mem],
         Dst = "uart" => D!Uart!CanWrite(f.uart), NEW r, r = D!Delivered(f, b)
  PROVE  /\ r.dma = dma /\ r.uart \in UartStates /\ r.uart.rx = f.uart.rx
         /\ r = [dma |-> dma, uart |-> r.uart, mem |-> r.mem]
         /\ r.mem = IF Dst = "memory" THEN [mem EXCEPT ![dma.curDst] = b] ELSE mem
         /\ r.mem \in Memories
         /\ r.uart.tx = IF Dst = "uart" THEN Append(f.uart.tx, b) ELSE f.uart.tx
<1>1. mem \in Memories
  BY DEF PathGood
<1>2. Dst \in {"uart", "mmio", "memory"}
  BY UnitCases, Ends DEF MovesByte, Dst
<1>3. D!Destination(f) = Dst /\ f.dma = dma /\ f.mem = mem
  BY DEF D!Destination, Dst
<1>4. CASE Dst = "uart"
  <2> DEFINE u == D!Uart!WriteByte(f.uart, b)
  <2>1. u \in UartStates /\ u.tx = Append(f.uart.tx, b) /\ u.rx = f.uart.rx
    BY <1>4, UartWritten
  <2>2. r = [f EXCEPT !.uart = u]
    BY <1>3, <1>4 DEF D!Delivered
  <2> HIDE DEF u
  <2>3. r = [dma |-> dma, uart |-> u, mem |-> mem]
    BY <2>2
  <2> QED BY <1>1, <1>4, <2>1, <2>3
<1>5. CASE Dst = "mmio"
  <2> DEFINE u == [f.uart EXCEPT !.data = b]
  <2>1. u \in UartStates /\ u.tx = f.uart.tx /\ u.rx = f.uart.rx
    BY DEF UartStates, D!Uart!UartState
  <2>2. r = [f EXCEPT !.uart = u]
    BY <1>3, <1>5 DEF D!Delivered, UartStates, D!Uart!UartState
  <2> HIDE DEF u
  <2>3. r = [dma |-> dma, uart |-> u, mem |-> mem]
    BY <2>2
  <2> QED BY <1>1, <1>5, <2>1, <2>3
<1>6. CASE Dst = "memory"
  <2> DEFINE c == [mem EXCEPT ![dma.curDst] = b]
  <2>1. c \in Memories
    BY <1>1 DEF Memories
  <2>2. r = [f EXCEPT !.mem = c]
    BY <1>3, <1>6 DEF D!Delivered
  <2>3. r = [dma |-> dma, uart |-> f.uart, mem |-> c]
    <3> HIDE DEF c
    <3> QED BY <2>2
  <2> HIDE DEF c
  <2>4. r.dma = dma /\ r.uart = f.uart /\ r.mem = c
    BY <2>3
  <2> QED BY <1>6, <2>1, <2>3, <2>4 DEF c
<1> QED BY <1>2, <1>4, <1>5, <1>6

LEMMA CountedFields ==
  ASSUME NEW d \in DmaStates, NEW r, r = D!Counted(d)
  PROVE  /\ r \in DmaStates /\ r.n = d.n + 1 /\ r.len = d.len /\ r.links = d.links
         /\ r.src = d.src /\ r.dst = d.dst /\ r.srcInc = d.srcInc /\ r.dstInc = d.dstInc
         /\ r.curSrc = (IF d.srcInc THEN d.curSrc + 1 ELSE d.curSrc)
         /\ r.curDst = (IF d.dstInc THEN d.curDst + 1 ELSE d.curDst)
         /\ r.busy = (d.n + 1 < d.len) /\ r.completed = (d.n + 1 >= d.len) /\ r.error = d.error
<1> DEFINE n == d.n + 1
           s == IF d.srcInc THEN d.curSrc + 1 ELSE d.curSrc
           t == IF d.dstInc THEN d.curDst + 1 ELSE d.curDst
           more == d.n + 1 < d.len
           all == d.n + 1 >= d.len
<1>1. n \in Nat /\ s \in Nat /\ t \in Nat /\ more \in BOOLEAN /\ all \in BOOLEAN
  BY DEF DmaStates
<1>2. r = [d EXCEPT !.n = n, !.curSrc = s, !.curDst = t, !.busy = more, !.completed = all]
  BY DEF D!Counted
<1> HIDE DEF n, s, t, more, all
<1>3. /\ r \in DmaStates /\ r.n = n /\ r.len = d.len /\ r.links = d.links
      /\ r.src = d.src /\ r.dst = d.dst /\ r.srcInc = d.srcInc /\ r.dstInc = d.dstInc
      /\ r.curSrc = s /\ r.curDst = t /\ r.busy = more /\ r.completed = all /\ r.error = d.error
  BY <1>1, <1>2 DEF DmaStates
<1> QED BY <1>3 DEF n, s, t, more, all

\* A byte goes over from the front of a queue to the end of what was taken.
LEMMA OneAcross ==
  ASSUME NEW S, NEW s \in Seq(S), NEW q \in Seq(S), q # <<>>
  PROVE  Append(s, Head(q)) \o Tail(q) = s \o q
<1> DEFINE l == Append(s, Head(q)) \o Tail(q)
           r == s \o q
<1>1. /\ Head(q) \in S /\ Tail(q) \in Seq(S) /\ Len(Tail(q)) = Len(q) - 1 /\ Len(q) \in Nat \ {0}
      /\ Head(q) = q[1] /\ \A i \in 1 .. Len(q) - 1 : Tail(q)[i] = q[i + 1]
  OBVIOUS
<1>2. Append(s, Head(q)) \in Seq(S) /\ Len(Append(s, Head(q))) = Len(s) + 1 /\ Len(s) \in Nat
  BY <1>1
<1>3. l \in Seq(S) /\ r \in Seq(S) /\ Len(l) = Len(s) + Len(q) /\ Len(r) = Len(s) + Len(q)
  BY <1>1, <1>2
<1>4. ASSUME NEW i \in 1 .. Len(s) + Len(q) PROVE l[i] = r[i]
  <2>1. CASE i <= Len(s)
    BY <1>1, <1>2, <2>1
  <2>2. CASE i = Len(s) + 1
    BY <1>1, <1>2, <2>2
  <2>3. CASE i > Len(s) + 1
    <3>1. l[i] = Tail(q)[i - (Len(s) + 1)]
      BY <1>1, <1>2, <2>3
    <3>2. r[i] = q[i - Len(s)]
      BY <1>1, <1>2, <2>3
    <3>3. i - (Len(s) + 1) \in 1 .. Len(q) - 1 /\ i - (Len(s) + 1) + 1 = i - Len(s)
      BY <1>1, <1>2, <2>3
    <3> QED BY <1>1, <3>1, <3>2, <3>3
  <2> QED BY <1>2, <2>1, <2>2, <2>3
<1> HIDE DEF l, r
<1>5. l = r
  BY <1>3, <1>4, SeqEqual
<1> QED BY <1>5 DEF l, r

\* A byte that comes in joins both what is waiting and what was there to fetch.
LEMMA OneMore ==
  ASSUME NEW s \in Seq(B), NEW q \in Seq(B), NEW x \in B
  PROVE  Append(s \o q, x) = s \o Append(q, x)
<1> DEFINE l == Append(s \o q, x)
           r == s \o Append(q, x)
<1>1. /\ Len(s) \in Nat /\ Len(q) \in Nat /\ s \o q \in Seq(B) /\ Append(q, x) \in Seq(B)
      /\ Len(s \o q) = Len(s) + Len(q) /\ Len(Append(q, x)) = Len(q) + 1
  OBVIOUS
<1>2. /\ l \in Seq(B) /\ r \in Seq(B)
      /\ Len(l) = Len(s) + Len(q) + 1 /\ Len(r) = Len(s) + Len(q) + 1
  BY <1>1
<1>3. ASSUME NEW i \in 1 .. Len(s) + Len(q) + 1 PROVE l[i] = r[i]
  <2>1. CASE i <= Len(s)
    BY <1>1, <2>1
  <2>2. CASE i > Len(s) /\ i <= Len(s) + Len(q)
    BY <1>1, <2>2
  <2>3. CASE i = Len(s) + Len(q) + 1
    BY <1>1, <2>3
  <2> QED BY <1>1, <2>1, <2>2, <2>3
<1> HIDE DEF l, r
<1>4. l = r
  BY <1>2, <1>3, SeqEqual
<1> QED BY <1>4 DEF l, r

LEMMA OneByte ==
  ASSUME PathGood, MovesByte, Become(D!Step(Path)), NEW b, b = D!ByteRead(Path)
  PROVE  /\ dma' = D!Counted(dma) /\ uart' \in UartStates /\ b \in B
         /\ mem' = IF Dst = "memory" THEN [mem EXCEPT ![dma.curDst] = b] ELSE mem
         /\ mem' \in Memories
         /\ uart'.tx = IF Dst = "uart" THEN Append(uart.tx, b) ELSE uart.tx
         /\ uart'.rx = IF Src = "uart" THEN Tail(uart.rx) ELSE uart.rx
         /\ Src = "uart" => uart.rx # <<>> /\ b = Head(uart.rx)
         /\ Src = "memory" => b = mem[dma.curSrc]
<1> DEFINE f == D!Fetched(Path)
           r == D!Delivered(f, b)
<1>1. dma.busy
  BY PathFields DEF MovesByte, D!Moves
<1>2. D!Step(Path) = [r EXCEPT !.dma = D!Counted(@)]
  BY <1>1, PathFields DEF MovesByte, D!Step
<1> HIDE DEF f
<1>3. /\ b \in B /\ f.dma = dma /\ f.mem = mem /\ f.uart \in UartStates
      /\ f = [dma |-> dma, uart |-> f.uart, mem |-> mem]
      /\ f.uart.tx = uart.tx /\ (Dst = "uart" => D!Uart!CanWrite(f.uart))
      /\ Src = "uart" => uart.rx # <<>> /\ b = Head(uart.rx) /\ f.uart.rx = Tail(uart.rx)
      /\ Src # "uart" => f.uart.rx = uart.rx
      /\ Src = "memory" => b = mem[dma.curSrc]
  BY Fetch DEF f
<1>4. /\ r.dma = dma /\ r.uart \in UartStates /\ r.uart.rx = f.uart.rx
      /\ r = [dma |-> dma, uart |-> r.uart, mem |-> r.mem]
      /\ r.mem = IF Dst = "memory" THEN [mem EXCEPT ![dma.curDst] = b] ELSE mem
      /\ r.mem \in Memories
      /\ r.uart.tx = IF Dst = "uart" THEN Append(f.uart.tx, b) ELSE f.uart.tx
  BY <1>3, Deliver
<1> HIDE DEF r
<1>5. D!Step(Path).dma = D!Counted(dma) /\ D!Step(Path).uart = r.uart /\ D!Step(Path).mem = r.mem
  <2> DEFINE c == D!Counted(dma)
  <2>1. D!Step(Path) = [r EXCEPT !.dma = c]
    BY <1>2, <1>4
  <2> HIDE DEF c
  <2>2. D!Step(Path).dma = c /\ D!Step(Path).uart = r.uart /\ D!Step(Path).mem = r.mem
    BY <1>4, <2>1
  <2> QED BY <2>2 DEF c
<1>6. dma' = D!Counted(dma) /\ uart' = r.uart /\ mem' = r.mem
  BY <1>5 DEF Become
<1> QED BY <1>3, <1>4, <1>6

\* The four statements about the bytes are kept by a step that moves one.
LEMMA ByteKeeps ==
  ASSUME TransferGood, intact, MovesByte, Become(D!Step(Path)),
         taken' = Append(taken, D!ByteRead(Path)), fed' = fed
  PROVE  Progress'
<1> DEFINE b == D!ByteRead(Path)
           n == dma.n
<1>1. /\ PathGood /\ Progress /\ taken \in Seq(B) /\ fed \in Seq(B) /\ dma.busy
      /\ dma \in DmaStates /\ mem \in Memories /\ uart \in UartStates
  BY PathFields DEF TransferGood, PathGood, HistoryGood, MovesByte, D!Moves
<1>2. /\ dma' = D!Counted(dma) /\ uart' \in UartStates /\ b \in B
      /\ mem' = IF Dst = "memory" THEN [mem EXCEPT ![dma.curDst] = b] ELSE mem
      /\ mem' \in Memories
      /\ uart'.tx = IF Dst = "uart" THEN Append(uart.tx, b) ELSE uart.tx
      /\ uart'.rx = IF Src = "uart" THEN Tail(uart.rx) ELSE uart.rx
      /\ Src = "uart" => uart.rx # <<>> /\ b = Head(uart.rx)
      /\ Src = "memory" => b = mem[dma.curSrc]
  BY <1>1, OneByte
<1>3. /\ dma' \in DmaStates /\ dma'.n = n + 1 /\ dma'.len = dma.len /\ dma'.links = dma.links
      /\ dma'.src = dma.src /\ dma'.dst = dma.dst
      /\ dma'.srcInc = dma.srcInc /\ dma'.dstInc = dma.dstInc
      /\ dma'.curSrc = (IF dma.srcInc THEN dma.curSrc + 1 ELSE dma.curSrc)
      /\ dma'.curDst = (IF dma.dstInc THEN dma.curDst + 1 ELSE dma.curDst)
      /\ dma'.busy = (n + 1 < dma.len) /\ dma'.completed = (n + 1 >= dma.len)
  BY <1>1, <1>2, CountedFields
<1>4. /\ n \in Nat /\ dma.len \in Nat /\ dma.src \in Addresses /\ dma.dst \in Addresses
      /\ dma.srcInc \in BOOLEAN /\ dma.dstInc \in BOOLEAN
      /\ dma.curSrc \in Nat /\ dma.curDst \in Nat /\ dma.src \in Nat /\ dma.dst \in Nat
  BY <1>1, CellsNat DEF DmaStates, Addresses
<1>5. /\ Len(taken) = n /\ n < dma.len /\ Positioned(dma)
      /\ FromMemory /\ FromFifo /\ ToMemory /\ InFifo
  BY <1>1 DEF Progress
<1>6. /\ D!Unit(dma, dma.src) = Src /\ D!Unit(dma, dma.dst) = Dst
      /\ dma.src \in D!Cells => dma.curSrc \in D!Cells
      /\ dma.dst \in D!Cells => dma.curDst \in D!Cells
  <2>1. Src # "none" /\ Dst # "none"
    BY Ends DEF MovesByte
  <2>2. D!Unit(dma, dma.src) = Src /\ (dma.src \in D!Cells => dma.curSrc \in D!Cells)
    BY <1>1, <1>4, <1>5, <2>1, SameUnit DEF Src, Positioned
  <2>3. D!Unit(dma, dma.dst) = Dst /\ (dma.dst \in D!Cells => dma.curDst \in D!Cells)
    BY <1>1, <1>4, <1>5, <2>1, SameUnit DEF Dst, Positioned
  <2> QED BY <2>2, <2>3
<1>7. D!Unit(dma', dma'.src) = Src /\ D!Unit(dma', dma'.dst) = Dst
  BY <1>3, <1>6, UnitLinks
<1> HIDE DEF b, n
<1>8. /\ taken' \in Seq(B) /\ Len(taken') = n + 1 /\ taken'[n + 1] = b
      /\ \A i \in 1 .. n : taken'[i] = taken[i]
  BY <1>1, <1>2, <1>4, <1>5 DEF b
<1>9. Positioned(dma')
  <2>1. MemSize \in Nat /\ \A a \in D!Cells : a \in Nat /\ a + 1 <= MemSize
    BY CellsNat, MemoryAssumption
  <2>2. /\ dma.curSrc = (IF dma.srcInc THEN dma.src + n ELSE dma.src)
        /\ dma.curDst = (IF dma.dstInc THEN dma.dst + n ELSE dma.dst)
    BY <1>4, <1>5 DEF Positioned, At, n
  <2>3. /\ dma'.curSrc = At(dma.src, dma.srcInc, n + 1 + 1)
        /\ dma'.curDst = At(dma.dst, dma.dstInc, n + 1 + 1)
    <3>1. dma'.curSrc = At(dma.src, dma.srcInc, n + 1 + 1)
      <4>1. CASE dma.srcInc
        BY <1>3, <1>4, <2>2, <4>1 DEF At
      <4>2. CASE ~dma.srcInc
        BY <1>3, <1>4, <2>2, <4>2 DEF At
      <4> QED BY <4>1, <4>2
    <3>2. dma'.curDst = At(dma.dst, dma.dstInc, n + 1 + 1)
      <4>1. CASE dma.dstInc
        BY <1>3, <1>4, <2>2, <4>1 DEF At
      <4>2. CASE ~dma.dstInc
        BY <1>3, <1>4, <2>2, <4>2 DEF At
      <4> QED BY <4>1, <4>2
    <3> QED BY <3>1, <3>2
  <2>4. /\ dma.src \in D!Cells => dma'.curSrc <= MemSize
        /\ dma.dst \in D!Cells => dma'.curDst <= MemSize
    BY <1>3, <1>4, <1>6, <2>1
  <2> QED BY <1>3, <2>3, <2>4 DEF Positioned
<1>10. /\ dma'.busy \/ dma'.completed
       /\ IF dma'.busy THEN dma'.n < dma'.len ELSE dma'.n = dma'.len
  <2>1. CASE n + 1 < dma.len
    BY <1>3, <2>1
  <2>2. CASE ~(n + 1 < dma.len)
    <3>1. n + 1 = dma.len /\ n + 1 >= dma.len
      BY <1>4, <1>5, <2>2
    <3> QED BY <1>3, <2>2, <3>1
  <2> QED BY <2>1, <2>2
<1>11. /\ At(dma.src, dma.srcInc, n + 1) = dma.curSrc /\ At(dma.dst, dma.dstInc, n + 1) = dma.curDst
  BY <1>5 DEF Positioned, n
<1>12. FromMemory'
  <2>1. SUFFICES ASSUME Src = "memory", NEW i \in 1 .. n + 1
                 PROVE  StoredOver(i)' \/ taken'[i] = mem'[At(dma.src, dma.srcInc, i)]
    BY <1>3, <1>7 DEF FromMemory
  <2> DEFINE a == At(dma.src, dma.srcInc, i)
  <2>2. i \in Nat
    BY <1>4
  <2>3. CASE Dst = "memory" /\ dma.curDst = a
    <3>1. n + 1 \in i .. n + 1
      BY <1>4, <2>2
    <3>2. \E j \in i .. n + 1 : At(dma.dst, dma.dstInc, j) = a
      BY <1>11, <2>3, <3>1
    <3> QED BY <1>3, <1>7, <2>3, <3>2 DEF StoredOver
  <2>4. CASE ~(Dst = "memory" /\ dma.curDst = a)
    <3>1. mem'[a] = mem[a]
      BY <1>1, <1>2, <2>4 DEF Memories
    <3>2. CASE i = n + 1
      BY <1>2, <1>8, <1>11, <2>1, <3>1, <3>2
    <3>3. CASE i \in 1 .. n
      <4>1. StoredOver(i) \/ taken[i] = mem[a]
        BY <1>5, <1>6, <2>1, <3>3 DEF FromMemory, n
      <4>2. StoredOver(i) => StoredOver(i)'
        <5>1. SUFFICES ASSUME StoredOver(i) PROVE StoredOver(i)'
          OBVIOUS
        <5>2. Dst = "memory" /\ \E j \in i .. n : At(dma.dst, dma.dstInc, j) = a
          BY <1>6, <5>1 DEF StoredOver, n
        <5>3. i .. n \subseteq i .. n + 1
          BY <1>4, <2>2
        <5>4. \E j \in i .. n + 1 : At(dma.dst, dma.dstInc, j) = a
          BY <5>2, <5>3
        <5>5. Dst = "memory"
          BY <5>2
        <5> QED BY <1>3, <1>7, <5>4, <5>5 DEF StoredOver
      <4> QED BY <1>8, <3>1, <3>3, <4>1, <4>2
    <3>4. i = n + 1 \/ i \in 1 .. n
      BY <1>4
    <3> QED BY <3>2, <3>3, <3>4
  <2> QED BY <2>3, <2>4
<1>13. FromFifo'
  <2>1. SUFFICES ASSUME Src = "uart" PROVE fed' = taken' \o uart'.rx
    BY <1>7 DEF FromFifo
  <2>2. fed = taken \o uart.rx
    BY <1>5, <1>6, <2>1 DEF FromFifo
  <2>3. uart.rx \in Seq(B) /\ uart.rx # <<>>
    BY <1>1, <1>2, <2>1, UartFields
  <2>4. Append(taken, Head(uart.rx)) \o Tail(uart.rx) = taken \o uart.rx
    BY <1>1, <2>3, OneAcross
  <2> QED BY <1>2, <2>1, <2>2, <2>4 DEF b
<1>14. ToMemory'
  <2>1. SUFFICES ASSUME Dst = "memory", NEW i \in 1 .. n + 1, dma.dstInc \/ i = n + 1
                 PROVE  mem'[At(dma.dst, dma.dstInc, i)] = taken'[i]
    BY <1>3, <1>7 DEF ToMemory
  <2>2. dma.dst \in D!Cells /\ dma.curDst \in D!Cells
    BY <1>6, <2>1, UnitCases
  <2>3. CASE i = n + 1
    BY <1>1, <1>2, <1>8, <1>11, <2>1, <2>2, <2>3 DEF Memories
  <2>4. CASE i \in 1 .. n /\ dma.dstInc
    <3>1. mem[At(dma.dst, dma.dstInc, i)] = taken[i]
      BY <1>5, <1>6, <2>1, <2>4 DEF ToMemory, n
    <3>2. At(dma.dst, dma.dstInc, i) # dma.curDst
      BY <1>4, <1>11, <2>4 DEF At
    <3>3. mem'[At(dma.dst, dma.dstInc, i)] = mem[At(dma.dst, dma.dstInc, i)]
      BY <1>1, <1>2, <3>2 DEF Memories
    <3> QED BY <1>8, <2>4, <3>1, <3>3
  <2>5. i = n + 1 \/ i \in 1 .. n
    BY <1>4
  <2> QED BY <2>1, <2>3, <2>4, <2>5
<1>15. InFifo'
  <2>1. SUFFICES ASSUME Dst = "uart"
                 PROVE  /\ n + 1 <= Len(uart'.tx)
                        /\ \A i \in 1 .. n + 1 : uart'.tx[Len(uart'.tx) - (n + 1) + i] = taken'[i]
    BY <1>3, <1>7 DEF InFifo
  <2> DEFINE q == uart.tx
  <2>2. q \in Seq(B) /\ uart'.tx = Append(q, b)
    BY <1>1, <1>2, <2>1, UartFields
  <2>3. n <= Len(q) /\ \A i \in 1 .. n : q[Len(q) - n + i] = taken[i]
    BY <1>5, <1>6, <2>1 DEF InFifo, n
  <2> HIDE DEF q
  <2>4. Len(q) \in Nat /\ Len(uart'.tx) = Len(q) + 1 /\ uart'.tx[Len(q) + 1] = b
    <3>1. b \in B
      BY <1>2
    <3>2. Len(q) \in Nat /\ Len(Append(q, b)) = Len(q) + 1 /\ Append(q, b)[Len(q) + 1] = b
      BY <2>2, <3>1
    <3> QED BY <2>2, <3>2
  <2>5. ASSUME NEW i \in 1 .. n + 1 PROVE uart'.tx[Len(uart'.tx) - (n + 1) + i] = taken'[i]
    <3>1. Len(uart'.tx) - (n + 1) + i = Len(q) - n + i /\ i \in Nat
      BY <1>4, <2>4
    <3>2. CASE i = n + 1
      <4>1. Len(q) - n + i = Len(q) + 1
        BY <1>4, <2>4, <3>2
      <4> QED BY <1>8, <2>4, <3>1, <3>2, <4>1
    <3>3. CASE i \in 1 .. n
      <4>1. Len(q) - n + i \in 1 .. Len(q)
        BY <1>4, <2>3, <2>4, <3>3, SMTT(30)
      <4>2. Append(q, b)[Len(q) - n + i] = q[Len(q) - n + i]
        BY <1>2, <2>2, <4>1
      <4> QED BY <1>8, <2>2, <2>3, <3>1, <3>3, <4>2
    <3>4. i = n + 1 \/ i \in 1 .. n
      BY <1>4
    <3> QED BY <3>2, <3>3, <3>4
  <2>6. n + 1 <= Len(uart'.tx)
    BY <1>4, <2>3, <2>4
  <2> QED BY <2>5, <2>6
<1> QED BY <1>3, <1>8, <1>9, <1>10, <1>12, <1>13, <1>14, <1>15 DEF Progress

-----------------------------------------------------------------------------
(***************************************************************************)
(* A step of the controller, whatever comes of it.                         *)
(***************************************************************************)
Halts == dma' = D!Failed(dma) /\ mem' = mem /\ uart' \in UartStates

LEMMA FailedFields ==
  ASSUME NEW d \in DmaStates, NEW r, r = D!Failed(d)
  PROVE  r \in DmaStates /\ r.busy = FALSE /\ r.error = TRUE /\ r.completed = d.completed
BY DEF D!Failed, DmaStates

LEMMA StepKinds ==
  ASSUME PathGood, BusyGood(dma), Become(D!Step(Path))
  PROVE  UNCHANGED path \/ (dma.busy /\ Halts) \/ MovesByte
<1>1. /\ D!Moves(Path) <=> dma.busy /\ dma.n < dma.len
      /\ dma.busy => D!Moves(Path)
  BY PathFields DEF D!Moves, BusyGood
<1>2. CASE ~dma.busy \/ D!Throws(Path)
  <2>1. D!Step(Path) = Path
    BY <1>1, <1>2, PathFields DEF D!Step, D!Throws
  <2> QED BY <2>1, PathFields DEF Become, path
<1>3. CASE dma.busy /\ ~D!Throws(Path) /\ D!Source(Path) = "none"
  <2> DEFINE d == D!Failed(dma)
  <2>1. D!Step(Path) = [Path EXCEPT !.dma = D!Failed(@)]
    BY <1>1, <1>3, PathFields DEF D!Step
  <2>2. D!Step(Path) = [Path EXCEPT !.dma = d]
    BY <2>1 DEF Path
  <2> HIDE DEF d
  <2>3. D!Step(Path).dma = d /\ D!Step(Path).uart = uart /\ D!Step(Path).mem = mem
    BY <2>2 DEF Path
  <2> QED BY <1>3, <2>3 DEF Become, Halts, PathGood, d
<1>4. CASE /\ dma.busy /\ ~D!Throws(Path) /\ D!Source(Path) # "none"
           /\ D!Destination(Path) = "none"
  <2> DEFINE d == D!Failed(dma)
             f == D!Fetched(Path)
  <2>1. D!Step(Path) = [f EXCEPT !.dma = D!Failed(@)]
    BY <1>1, <1>4, PathFields DEF D!Step
  <2>2. f.dma = dma /\ f = [dma |-> dma, uart |-> f.uart, mem |-> mem] /\ f.uart \in UartStates
    <3>1. CASE D!Source(Path) = "uart"
      <4> DEFINE u == D!Uart!ReadByte(uart)
      <4>1. D!Uart!CanRead(uart)
        BY <1>1, <1>4, <3>1, PathFields DEF D!Throws
      <4>2. u \in UartStates
        BY <4>1, UartRead DEF PathGood
      <4>3. f = [Path EXCEPT !.uart = u]
        BY <3>1 DEF D!Fetched, Path
      <4> HIDE DEF u, f
      <4> QED BY <4>2, <4>3 DEF Path
    <3>2. CASE D!Source(Path) # "uart"
      <4>1. f = Path
        BY <3>2 DEF D!Fetched
      <4> HIDE DEF f
      <4> QED BY <4>1 DEF Path, PathGood
    <3> QED BY <3>1, <3>2
  <2> HIDE DEF f
  <2>3. D!Step(Path) = [f EXCEPT !.dma = d]
    BY <2>1, <2>2
  <2> HIDE DEF d
  <2>4. D!Step(Path).dma = d /\ D!Step(Path).uart = f.uart /\ D!Step(Path).mem = mem
    BY <2>2, <2>3
  <2> QED BY <1>4, <2>2, <2>4 DEF Become, Halts, d
<1>5. CASE /\ dma.busy /\ ~D!Throws(Path) /\ D!Source(Path) # "none"
           /\ D!Destination(Path) # "none"
  BY <1>1, <1>5 DEF MovesByte
<1> QED BY <1>2, <1>3, <1>4, <1>5

\* The path and the history as they were.
LEMMA Untouched ==
  ASSUME TransferGood, UNCHANGED path, KeepHistory
  PROVE  TransferGood'
BY DEF TransferGood, path, KeepHistory, history, PathGood, HistoryGood, BusyGood, Progress,
       Positioned, FromMemory, FromFifo, ToMemory, InFifo, StoredOver

\* Someone interfered: only the controller's own condition is left to keep.
LEMMA Forgotten ==
  ASSUME PathGood', BusyGood(dma'), Forget
  PROVE  TransferGood'
<1>1. <<>> \in Seq(B)
  OBVIOUS
<1> QED BY <1>1 DEF Forget, TransferGood, HistoryGood, BusyGood

LEMMA StepKeeps ==
  ASSUME TransferGood, Become(D!Step(Path)), StepHistory
  PROVE  TransferGood'
<1>1. PathGood /\ HistoryGood /\ BusyGood(dma) /\ dma \in DmaStates /\ uart \in UartStates
  BY DEF TransferGood, PathGood
<1>2. CASE UNCHANGED path
  <2>1. KeepHistory
    BY <1>2 DEF StepHistory, path
  <2> QED BY <1>2, <2>1, Untouched
<1>3. CASE dma.busy /\ Halts
  <2>1. dma' \in DmaStates /\ dma'.busy = FALSE /\ dma'.error = TRUE
    BY <1>1, <1>3, FailedFields DEF Halts
  <2>2. dma' # dma
    BY <1>1, <1>3, <2>1 DEF BusyGood
  <2>3. PathGood' /\ BusyGood(dma')
    BY <1>1, <1>3, <2>1 DEF Halts, PathGood, BusyGood
  <2>4. CASE intact
    BY <2>1, <2>2, <2>3, <2>4, Forgotten DEF StepHistory
  <2>5. CASE ~intact
    <3>1. KeepHistory
      BY <2>5 DEF StepHistory
    <3> QED BY <1>1, <2>3, <2>5, <3>1 DEF KeepHistory, history, TransferGood, HistoryGood, BusyGood
  <2> QED BY <2>4, <2>5
<1>4. CASE MovesByte
  <2> DEFINE b == D!ByteRead(Path)
  <2>1. dma' = D!Counted(dma) /\ uart' \in UartStates /\ b \in B /\ mem' \in Memories
    BY <1>1, <1>4, OneByte
  <2>2. /\ dma' \in DmaStates /\ dma'.n = dma.n + 1 /\ dma'.len = dma.len
        /\ dma'.links = dma.links /\ dma'.error = dma.error /\ dma'.busy = (dma.n + 1 < dma.len)
    BY <1>1, <2>1, CountedFields
  <2>3. dma.busy /\ ~dma.error /\ D!Startable(dma) /\ dma.n \in Nat
    BY <1>1, <1>4, PathFields DEF MovesByte, D!Moves, BusyGood, DmaStates
  <2>4. dma' # dma /\ ~dma'.error
    BY <2>2, <2>3
  <2>5. PathGood' /\ BusyGood(dma')
    BY <2>1, <2>2, <2>3 DEF PathGood, BusyGood, D!Startable
  <2>6. CASE intact
    <3>1. taken' = Append(taken, D!ByteRead(Path)) /\ fed' = fed /\ intact' = intact
      BY <2>4, <2>6 DEF StepHistory
    <3>2. Progress'
      BY <1>4, <2>6, <3>1, ByteKeeps
    <3> HIDE DEF b
    <3>3. taken' \in Seq(B)
      BY <1>1, <2>1, <3>1 DEF HistoryGood, b
    <3> QED BY <1>1, <2>5, <3>1, <3>2, <3>3 DEF TransferGood, HistoryGood, BusyGood
  <2>7. CASE ~intact
    <3>1. KeepHistory
      BY <2>7 DEF StepHistory
    <3> QED BY <1>1, <2>5, <2>7, <3>1 DEF KeepHistory, history, TransferGood, HistoryGood, BusyGood
  <2> QED BY <2>6, <2>7
<1> QED BY <1>1, <1>2, <1>3, <1>4, StepKinds

-----------------------------------------------------------------------------
(***************************************************************************)
(* The operations of the controller that move no byte.                     *)
(***************************************************************************)
LEMMA InitialValues ==
  /\ D!NewMemory \in Memories /\ Loaded \in Memories
  /\ D!Uart!NewUART(1) \in UartStates
  /\ \A l \in SUBSET Links : D!NewDMA(l) \in DmaStates
<1>1. 0 \in B /\ <<>> \in Seq(B) /\ 0 \in Addresses /\ 0 \in Nat
  BY CellsNat DEF B, Addresses
<1>2. D!NewMemory \in Memories
  BY <1>1 DEF D!NewMemory, Memories
<1>3. Loaded \in Memories
  BY <1>1, BytesAssumption DEF Loaded, Memories, D!Cells, B
<1>4. D!Uart!NewUART(1) \in UartStates
  BY <1>1 DEF D!Uart!NewUART, UartStates, D!Uart!UartState
<1>5. \A l \in SUBSET Links : D!NewDMA(l) \in DmaStates
  BY <1>1 DEF D!NewDMA, DmaStates
<1> QED BY <1>2, <1>3, <1>4, <1>5

LEMMA ResetFields ==
  ASSUME NEW d \in DmaStates, NEW r, r = D!Reset(d)
  PROVE  r \in DmaStates /\ r.busy = FALSE /\ r.completed = FALSE
<1>1. d.links \in SUBSET Links
  BY DEF DmaStates
<1> QED BY <1>1, InitialValues DEF D!Reset, D!NewDMA

WithLinks(d, l) == [d EXCEPT !.links = l]

LEMMA Relinked ==
  ASSUME NEW d \in DmaStates, NEW l \in SUBSET Links, NEW r, r = WithLinks(d, l)
  PROVE  /\ r \in DmaStates /\ r.links = l /\ r.n = d.n /\ r.len = d.len
         /\ r.src = d.src /\ r.dst = d.dst /\ r.srcInc = d.srcInc /\ r.dstInc = d.dstInc
         /\ r.curSrc = d.curSrc /\ r.curDst = d.curDst
         /\ r.busy = d.busy /\ r.completed = d.completed /\ r.error = d.error
BY DEF DmaStates, WithLinks

LEMMA ConfigureFields ==
  ASSUME NEW src \in Addresses, NEW dst \in Addresses, NEW len \in Nat,
         dma \in DmaStates, ~dma.busy, dma' = D!Configure(dma, src, dst, len)
  PROVE  dma' \in DmaStates /\ dma'.busy = dma.busy /\ dma'.completed = FALSE
<1> DEFINE x == IF dma.userSet THEN dma.srcInc ELSE D!Unit(dma, src) \notin {"uart", "mmio"}
           y == IF dma.userSet THEN dma.dstInc ELSE D!Unit(dma, dst) \notin {"uart", "mmio"}
<1>1. x \in BOOLEAN /\ y \in BOOLEAN /\ src \in Nat /\ dst \in Nat
  BY CellsNat DEF DmaStates, Addresses
<1> DEFINE e == [dma EXCEPT !.src = src, !.dst = dst, !.len = len, !.curSrc = src, !.curDst = dst]
           f == [e EXCEPT !.n = 0, !.completed = FALSE, !.error = FALSE]
<1>2. dma' = [f EXCEPT !.srcInc = x, !.dstInc = y]
  BY DEF D!Configure
<1>3. e \in DmaStates /\ e.busy = dma.busy
  BY <1>1 DEF DmaStates
<1> HIDE DEF x, y, e
<1>4. f \in DmaStates /\ f.busy = dma.busy /\ f.completed = FALSE
  BY <1>3 DEF DmaStates
<1> HIDE DEF f
<1> QED BY <1>1, <1>2, <1>4 DEF DmaStates

LEMMA IncrementFields ==
  ASSUME NEW d \in DmaStates, NEW x \in BOOLEAN, NEW y \in BOOLEAN,
         NEW r, r = D!SetIncrements(d, x, y)
  PROVE  /\ r \in DmaStates /\ r.busy = d.busy /\ r.completed = d.completed
         /\ r.error = d.error /\ r.n = d.n /\ r.len = d.len /\ r.links = d.links
BY DEF D!SetIncrements, DmaStates

\* A transfer that start() gets under way is at its beginning.
LEMMA StartFields ==
  ASSUME NEW d \in DmaStates, BusyGood(d), NEW r, r = D!Start(d)
  PROVE  /\ r \in DmaStates /\ BusyGood(r)
         /\ r.busy => /\ r.n = 0 /\ r.len > 0 /\ r.curSrc = r.src /\ r.curDst = r.dst
         /\ ~d.completed /\ r.completed => D!Startable(d) /\ d.len = 0
<1>1. d.len \in Nat /\ d.src \in Nat /\ d.dst \in Nat
  BY CellsNat DEF DmaStates, Addresses
<1>2. CASE ~D!Startable(d)
  <2>1. r = [d EXCEPT !.error = TRUE]
    BY <1>2 DEF D!Start
  <2>2. ~d.busy
    BY <1>2 DEF BusyGood
  <2> QED BY <2>1, <2>2 DEF DmaStates, BusyGood
<1>3. CASE D!Startable(d) /\ d.len = 0
  <2>1. r = [d EXCEPT !.busy = FALSE, !.completed = TRUE, !.error = FALSE]
    BY <1>3 DEF D!Start
  <2> QED BY <1>3, <2>1 DEF DmaStates, BusyGood
<1>4. CASE D!Startable(d) /\ d.len > 0 /\ "none" \in {D!Unit(d, d.src), D!Unit(d, d.dst)}
  <2>1. r = [d EXCEPT !.busy = FALSE, !.completed = FALSE, !.error = TRUE]
    BY <1>1, <1>4 DEF D!Start
  <2> QED BY <2>1 DEF DmaStates, BusyGood
<1>5. CASE D!Startable(d) /\ d.len > 0 /\ ~("none" \in {D!Unit(d, d.src), D!Unit(d, d.dst)})
  <2>1. r = [d EXCEPT !.curSrc = d.src, !.curDst = d.dst, !.n = 0,
                      !.busy = TRUE, !.completed = FALSE, !.error = FALSE]
    BY <1>1, <1>5 DEF D!Start
  <2> DEFINE e == [d EXCEPT !.curSrc = d.src, !.curDst = d.dst, !.n = 0]
  <2>0. /\ e \in DmaStates /\ e.n = 0 /\ e.len = d.len /\ e.curSrc = d.src /\ e.curDst = d.dst
        /\ e.src = d.src /\ e.dst = d.dst /\ e.links = d.links
        /\ r = [e EXCEPT !.busy = TRUE, !.completed = FALSE, !.error = FALSE]
    BY <1>1, <2>1 DEF DmaStates
  <2> HIDE DEF e
  <2>2. /\ r \in DmaStates /\ r.n = 0 /\ r.len = d.len /\ r.curSrc = d.src /\ r.curDst = d.dst
        /\ r.src = d.src /\ r.dst = d.dst /\ r.links = d.links
        /\ r.error = FALSE /\ r.completed = FALSE
    BY <2>0 DEF DmaStates
  <2>3. D!Startable(r)
    BY <1>5, <2>2 DEF D!Startable
  <2> QED BY <1>5, <2>2, <2>3 DEF BusyGood
<1>6. d.len = 0 \/ d.len > 0
  BY <1>1
<1> QED BY <1>2, <1>3, <1>4, <1>5, <1>6

LEMMA StopFields ==
  ASSUME NEW d \in DmaStates, NEW r, r = D!Stop(d)
  PROVE  r \in DmaStates /\ r.busy = FALSE /\ r.completed = d.completed
BY DEF D!Stop, DmaStates

\* What Progress says depends on the position, the units and the bytes.
LEMMA ProgressKept ==
  ASSUME Progress, dma'.n = dma.n, dma'.len = dma.len, dma'.src = dma.src, dma'.dst = dma.dst,
         dma'.srcInc = dma.srcInc, dma'.dstInc = dma.dstInc,
         dma'.curSrc = dma.curSrc, dma'.curDst = dma.curDst,
         dma'.busy = dma.busy, dma'.completed = dma.completed,
         dma'.links \cap Units = dma.links \cap Units,
         mem' = mem, taken' = taken, uart'.tx = uart.tx,
         D!Unit(dma, dma.src) = "uart" => fed' = taken \o uart'.rx
  PROVE  Progress'
<1>1. D!Unit(dma', dma'.src) = D!Unit(dma, dma.src) /\ D!Unit(dma', dma'.dst) = D!Unit(dma, dma.dst)
  BY UnitLinks
<1>2. Positioned(dma')
  BY DEF Progress, Positioned
<1>3. FromMemory'
  BY <1>1 DEF Progress, FromMemory, StoredOver
<1>4. FromFifo'
  BY <1>1 DEF FromFifo
<1>5. ToMemory'
  BY <1>1 DEF Progress, ToMemory
<1>6. InFifo'
  BY <1>1 DEF Progress, InFifo
<1> QED BY <1>2, <1>3, <1>4, <1>5, <1>6 DEF Progress

-----------------------------------------------------------------------------
(***************************************************************************)
(* The actions.                                                            *)
(***************************************************************************)
LEMMA AttachKeeps == ASSUME IInv, AttachDMA \/ DetachDMA PROVE IInv'
<1>1. TransferGood /\ PathGood /\ HistoryGood /\ BusyGood(dma) /\ dma \in DmaStates
      /\ units \in SUBSET Units /\ dma.links \in SUBSET Links
  BY DEF IInv, TransferGood, PathGood, DmaStates
<1>2. CASE AttachDMA
  <2> DEFINE l == dma.links \cup units \cup {"scheduler", "bus"}
  <2>1. l \in SUBSET Links /\ dma.links \subseteq l
    BY <1>1 DEF Links
  <2>2. dma' = WithLinks(dma, l)
    BY <1>2 DEF AttachDMA, WithLinks
  <2> HIDE DEF l
  <2>3. dma' \in DmaStates /\ dma'.links = l /\ dma'.n = dma.n /\ dma'.len = dma.len
        /\ dma'.busy = dma.busy /\ dma'.error = dma.error
    BY <1>1, <2>1, <2>2, Relinked
  <2>4. PathGood' /\ BusyGood(dma')
    BY <1>1, <1>2, <2>1, <2>3 DEF AttachDMA, PathGood, BusyGood, D!Startable
  <2> QED BY <1>1, <1>2, <2>4, Forgotten DEF AttachDMA, Undisturbed, IInv
<1>3. CASE DetachDMA
  <2> DEFINE l == dma.links \ {"scheduler", "bus"}
  <2>1. l \in SUBSET Links /\ l \cap Units = dma.links \cap Units
    BY <1>1 DEF Units
  <2>2. dma' = WithLinks(dma, l)
    BY <1>3 DEF DetachDMA, WithLinks
  <2> HIDE DEF l
  <2>3. /\ dma' \in DmaStates /\ dma'.links = l /\ dma'.n = dma.n /\ dma'.len = dma.len
        /\ dma'.src = dma.src /\ dma'.dst = dma.dst
        /\ dma'.srcInc = dma.srcInc /\ dma'.dstInc = dma.dstInc
        /\ dma'.curSrc = dma.curSrc /\ dma'.curDst = dma.curDst
        /\ dma'.busy = dma.busy /\ dma'.completed = dma.completed /\ dma'.error = dma.error
    BY <1>1, <2>1, <2>2, Relinked
  <2>4. BusyGood(dma')
    BY <1>1, <2>1, <2>3 DEF BusyGood, D!Startable, Units
  <2>5. UNCHANGED <<uart, mem, taken, fed, intact, units>>
    BY <1>3 DEF DetachDMA, KeepHistory, history, Undisturbed
  <2>6. intact' => Progress'
    <3>1. SUFFICES ASSUME intact PROVE Progress'
      BY <2>5
    <3>2. Progress /\ FromFifo
      BY <1>1, <3>1 DEF TransferGood, Progress
    <3>3. D!Unit(dma, dma.src) = "uart" => fed' = taken \o uart'.rx
      BY <2>5, <3>2 DEF FromFifo
    <3> QED BY <2>1, <2>3, <2>5, <3>2, <3>3, ProgressKept
  <2> QED BY <1>1, <2>3, <2>4, <2>5, <2>6 DEF IInv, TransferGood, PathGood, HistoryGood
<1> QED BY <1>2, <1>3

LEMMA SetUnitKeeps == ASSUME IInv, NEW u \in Units, SetUnit(u) PROVE IInv'
<1>1. TransferGood /\ PathGood /\ BusyGood(dma) /\ dma \in DmaStates
      /\ units \in SUBSET Units /\ dma.links \in SUBSET Links
  BY DEF IInv, TransferGood, PathGood, DmaStates
<1>2. units' \in SUBSET Units
  BY <1>1 DEF SetUnit
<1>3. CASE dma' = dma
  BY <1>1, <1>2, <1>3, Untouched DEF SetUnit, path, IInv
<1>4. CASE dma' # dma
  <2> DEFINE l == (dma.links \ {u}) \cup ({u} \cap units')
  <2>1. l \in SUBSET Links
    BY <1>1 DEF Links
  <2>2. dma' = WithLinks(dma, l)
    BY <1>4 DEF SetUnit, WithLinks
  <2> HIDE DEF l
  <2>3. dma' \in DmaStates /\ dma'.busy = dma.busy
    BY <1>1, <2>1, <2>2, Relinked
  <2>4. PathGood' /\ BusyGood(dma')
    BY <1>1, <2>3 DEF SetUnit, PathGood, BusyGood
  <2> QED BY <1>2, <1>4, <2>4, Forgotten DEF SetUnit, IInv
<1> QED BY <1>3, <1>4

LEMMA ResetKeeps == ASSUME IInv, BusReset \/ ResetDMA \/ StopDMA PROVE IInv'
<1>1. /\ TransferGood /\ PathGood /\ BusyGood(dma) /\ units \in SUBSET Units
      /\ dma \in DmaStates /\ uart \in UartStates /\ mem \in Memories
  BY DEF IInv, TransferGood, PathGood
<1>2. D!Reset(dma) \in DmaStates /\ D!Reset(dma).busy = FALSE
  BY <1>1, ResetFields
<1>3. CASE BusReset
  <2>1. dma' \in DmaStates /\ BusyGood(dma')
    BY <1>1, <1>2, <1>3 DEF BusReset, BusyGood
  <2>2. uart' \in UartStates
    BY <1>1, <1>3, UartOthers DEF BusReset
  <2>3. mem' \in Memories
    BY <1>1, <1>3, InitialValues DEF BusReset
  <2>4. PathGood' /\ Forget /\ units' = units
    BY <1>3, <2>1, <2>2, <2>3 DEF BusReset, PathGood
  <2> QED BY <1>1, <2>1, <2>4, Forgotten DEF IInv
<1>4. CASE ResetDMA
  <2>1. PathGood' /\ BusyGood(dma') /\ Forget /\ units' = units
    BY <1>1, <1>2, <1>4 DEF ResetDMA, PathGood, BusyGood, Undisturbed
  <2> QED BY <1>1, <2>1, Forgotten DEF IInv
<1>5. CASE StopDMA
  <2>1. dma' \in DmaStates /\ dma'.busy = FALSE
    BY <1>1, <1>5, StopFields DEF StopDMA
  <2>2. PathGood' /\ BusyGood(dma') /\ Forget /\ units' = units
    BY <1>1, <1>5, <2>1 DEF StopDMA, PathGood, BusyGood, Undisturbed
  <2> QED BY <1>1, <2>2, Forgotten DEF IInv
<1> QED BY <1>3, <1>4, <1>5

LEMMA ConfigureKeeps ==
  ASSUME IInv, NEW src \in Addresses, NEW dst \in Addresses, NEW len \in Nat,
         ConfigureDMA(src, dst, len)
  PROVE  IInv'
<1>1. /\ TransferGood /\ PathGood /\ BusyGood(dma) /\ units \in SUBSET Units
      /\ dma \in DmaStates /\ uart \in UartStates /\ mem \in Memories
  BY DEF IInv, TransferGood, PathGood
<1>3. dma' = D!Configure(dma, src, dst, len) /\ UNCHANGED <<uart, mem, units>>
  BY DEF ConfigureDMA, Undisturbed
<1>4. CASE dma.busy
  <2>1. UNCHANGED path /\ KeepHistory
    BY <1>3, <1>4 DEF ConfigureDMA, D!Configure, path
  <2> QED BY <1>1, <1>3, <2>1, Untouched DEF IInv
<1>5. CASE ~dma.busy
  <2>1. dma' \in DmaStates /\ dma'.busy = dma.busy
    BY <1>1, <1>3, <1>5, ConfigureFields
  <2>2. PathGood' /\ BusyGood(dma') /\ Forget
    BY <1>1, <1>3, <1>5, <2>1 DEF ConfigureDMA, PathGood, BusyGood
  <2> QED BY <1>1, <1>3, <2>2, Forgotten DEF IInv
<1> QED BY <1>4, <1>5

LEMMA IncrementsKeep ==
  ASSUME IInv, NEW x \in BOOLEAN, NEW y \in BOOLEAN, SetIncrements(x, y) PROVE IInv'
<1>1. /\ TransferGood /\ PathGood /\ HistoryGood /\ BusyGood(dma) /\ units \in SUBSET Units
      /\ dma \in DmaStates /\ uart \in UartStates /\ mem \in Memories
  BY DEF IInv, TransferGood, PathGood
<1>2. dma' = D!SetIncrements(dma, x, y) /\ UNCHANGED <<uart, mem, units>>
  BY DEF SetIncrements, Undisturbed
<1>3. /\ dma' \in DmaStates /\ dma'.busy = dma.busy /\ dma'.error = dma.error
      /\ dma'.n = dma.n /\ dma'.len = dma.len /\ dma'.links = dma.links
  BY <1>1, <1>2, IncrementFields
<1>4. PathGood' /\ BusyGood(dma')
  BY <1>1, <1>2, <1>3 DEF PathGood, BusyGood, D!Startable
<1>5. CASE dma.busy \/ dma.completed
  BY <1>1, <1>2, <1>4, <1>5, Forgotten DEF SetIncrements, IInv
<1>6. CASE ~(dma.busy \/ dma.completed)
  <2>1. ~intact
    BY <1>1, <1>6 DEF TransferGood, Progress
  <2>2. UNCHANGED <<taken, fed, intact>>
    BY <1>6 DEF SetIncrements, KeepHistory, history
  <2> QED BY <1>1, <1>2, <1>4, <2>1, <2>2 DEF IInv, TransferGood, HistoryGood, BusyGood
<1> QED BY <1>5, <1>6

LEMMA StartKeeps == ASSUME IInv, StartDMA PROVE IInv'
<1>1. /\ TransferGood /\ PathGood /\ BusyGood(dma) /\ units \in SUBSET Units
      /\ dma \in DmaStates /\ uart \in UartStates /\ mem \in Memories /\ uart.rx \in Seq(B)
  BY UartFields DEF IInv, TransferGood, PathGood
<1>2. /\ dma' = D!Start(dma) /\ UNCHANGED <<uart, mem, units>>
      /\ taken' = <<>> /\ intact' = dma'.busy /\ fed' = IF dma'.busy THEN uart.rx ELSE <<>>
  BY DEF StartDMA
<1>3. /\ dma' \in DmaStates /\ BusyGood(dma')
      /\ dma'.busy => /\ dma'.n = 0 /\ dma'.len > 0
                      /\ dma'.curSrc = dma'.src /\ dma'.curDst = dma'.dst
  BY <1>1, <1>2, StartFields
<1>4. PathGood' /\ HistoryGood'
  <2>1. <<>> \in Seq(B) /\ dma'.busy \in BOOLEAN
    BY <1>3 DEF DmaStates
  <2> QED BY <1>1, <1>2, <1>3, <2>1 DEF PathGood, HistoryGood
<1>5. ASSUME dma'.busy PROVE Progress'
  <2>1. dma'.n = 0 /\ dma'.len > 0 /\ dma'.curSrc = dma'.src /\ dma'.curDst = dma'.dst
    BY <1>3, <1>5
  <2>2. 1 .. dma'.n = {} /\ Len(taken') = 0 /\ dma'.n = 0
    BY <1>2, <2>1
  <2>3. dma'.src \in Nat /\ dma'.dst \in Nat /\ MemSize \in Nat
    BY <1>3, CellsNat, MemoryAssumption DEF DmaStates, Addresses
  <2>4. Positioned(dma')
    <3>1. At(dma'.src, dma'.srcInc, 0 + 1) = dma'.src /\ At(dma'.dst, dma'.dstInc, 0 + 1) = dma'.dst
      BY <2>3 DEF At
    <3>2. \A a \in D!Cells : a <= MemSize
      BY CellsNat, MemoryAssumption
    <3> QED BY <2>1, <3>1, <3>2 DEF Positioned
  <2>5. FromMemory' /\ ToMemory'
    BY <2>2 DEF FromMemory, ToMemory
  <2>6. FromFifo'
    <3>1. <<>> \o uart.rx = uart.rx
      BY <1>1
    <3> QED BY <1>2, <1>5, <3>1 DEF FromFifo
  <2>7. InFifo'
    <3>1. uart'.tx \in Seq(B)
      BY <1>1, <1>2, UartFields
    <3>2. 0 <= Len(uart'.tx)
      BY <3>1
    <3> QED BY <2>2, <3>2 DEF InFifo
  <2> QED BY <1>5, <2>1, <2>2, <2>4, <2>5, <2>6, <2>7 DEF Progress
<1> QED BY <1>1, <1>2, <1>3, <1>4, <1>5 DEF IInv, TransferGood

LEMMA LineKeeps ==
  ASSUME IInv, ReadUART \/ PopTxByte \/ LoadMemory \/ RegisterLine PROVE IInv'
<1>1. /\ TransferGood /\ PathGood /\ BusyGood(dma) /\ units \in SUBSET Units
      /\ dma \in DmaStates /\ uart \in UartStates /\ mem \in Memories
  BY DEF IInv, TransferGood, PathGood
<1>2. CASE ReadUART
  <2>1. uart' \in UartStates
    BY <1>1, <1>2, UartRead DEF ReadUART
  <2>2. PathGood' /\ BusyGood(dma') /\ Forget /\ units' = units
    BY <1>1, <1>2, <2>1 DEF ReadUART, PathGood, Undisturbed
  <2> QED BY <1>1, <2>2, Forgotten DEF IInv
<1>3. CASE PopTxByte
  <2>1. uart' \in UartStates
    BY <1>1, <1>3, UartOthers DEF PopTxByte
  <2>2. PathGood' /\ BusyGood(dma') /\ Forget /\ units' = units
    BY <1>1, <1>3, <2>1 DEF PopTxByte, PathGood, Undisturbed
  <2> QED BY <1>1, <2>2, Forgotten DEF IInv
<1>4. CASE LoadMemory
  <2>1. PathGood' /\ BusyGood(dma') /\ Forget /\ units' = units
    BY <1>1, <1>4, InitialValues DEF LoadMemory, PathGood, Undisturbed
  <2> QED BY <1>1, <2>1, Forgotten DEF IInv
<1>5. CASE RegisterLine
  <2>1. UNCHANGED path /\ KeepHistory /\ units' = units
    BY <1>5 DEF RegisterLine, KeepHistory
  <2> QED BY <1>1, <2>1, Untouched DEF IInv
<1> QED BY <1>2, <1>3, <1>4, <1>5

LEMMA PortKeeps ==
  ASSUME IInv, SwitchUART \/ \E b \in Bytes : PushReceivedByte(b) PROVE IInv'
<1>1. /\ TransferGood /\ PathGood /\ HistoryGood /\ BusyGood(dma) /\ units \in SUBSET Units
      /\ dma \in DmaStates /\ uart \in UartStates /\ mem \in Memories
      /\ taken \in Seq(B) /\ fed \in Seq(B) /\ intact \in BOOLEAN /\ uart.rx \in Seq(B)
  BY UartFields DEF IInv, TransferGood, PathGood, HistoryGood
<1>2. CASE SwitchUART
  <2>1. uart' \in {D!Uart!Enable(uart), D!Uart!Disable(uart)}
    BY <1>2 DEF SwitchUART
  <2>2. uart' \in UartStates /\ uart'.tx = uart.tx /\ uart'.rx = uart.rx
    BY <1>1, <2>1, UartSwitched
  <2>3. UNCHANGED <<dma, mem, taken, fed, intact, units>>
    BY <1>2 DEF SwitchUART, KeepHistory, history, Undisturbed
  <2>4. intact' => Progress'
    <3>1. SUFFICES ASSUME intact PROVE Progress'
      BY <2>3
    <3>2. Progress /\ FromFifo
      BY <1>1, <3>1 DEF TransferGood, Progress
    <3>3. D!Unit(dma, dma.src) = "uart" => fed' = taken \o uart'.rx
      BY <2>2, <2>3, <3>2 DEF FromFifo
    <3> QED BY <2>2, <2>3, <3>2, <3>3, ProgressKept
  <2> QED BY <1>1, <2>2, <2>3, <2>4 DEF IInv, TransferGood, PathGood, HistoryGood
<1>3. ASSUME NEW b \in Bytes, PushReceivedByte(b) PROVE IInv'
  <2>1. b \in B /\ uart.enabled /\ uart' = D!Uart!PushReceivedByte(uart, b)
    BY <1>3 DEF PushReceivedByte, B
  <2>2. uart' \in UartStates /\ uart'.tx = uart.tx /\ uart'.rx = Append(uart.rx, b)
    BY <1>1, <2>1, UartPushed
  <2>3. /\ UNCHANGED <<dma, mem, taken, intact, units>>
        /\ fed' = IF intact THEN Append(fed, b) ELSE fed
    BY <1>3 DEF PushReceivedByte, Undisturbed
  <2>4. fed' \in Seq(B)
    BY <1>1, <2>1, <2>3
  <2>5. intact' => Progress'
    <3>1. SUFFICES ASSUME intact PROVE Progress'
      BY <2>3
    <3>2. Progress /\ FromFifo
      BY <1>1, <3>1 DEF TransferGood, Progress
    <3>3. Append(taken \o uart.rx, b) = taken \o Append(uart.rx, b)
      <4>1. taken \in Seq(B) /\ uart.rx \in Seq(B) /\ b \in B
        BY <1>1, <2>1
      <4> QED BY <4>1, OneMore
    <3>4. D!Unit(dma, dma.src) = "uart" => fed' = taken \o uart'.rx
      BY <2>2, <2>3, <3>1, <3>2, <3>3 DEF FromFifo
    <3> QED BY <2>2, <2>3, <3>2, <3>4, ProgressKept
  <2> QED BY <1>1, <2>2, <2>3, <2>4, <2>5 DEF IInv, TransferGood, PathGood, HistoryGood
<1> QED BY <1>2, <1>3

LEMMA CpuKeeps == ASSUME IInv, StepDMA \/ CpuStep PROVE IInv'
<1>1. TransferGood /\ units \in SUBSET Units
  BY DEF IInv
<1>2. CASE StepDMA
  BY <1>1, <1>2, StepKeeps DEF StepDMA, IInv
<1>3. CASE CpuStep
  <2>1. units' = units
    BY <1>3 DEF CpuStep
  <2>2. CASE TicksDMA /\ D!Throws(Path)
    <3>1. UNCHANGED path /\ KeepHistory
      BY <1>3, <2>2 DEF CpuStep, KeepHistory
    <3> QED BY <1>1, <2>1, <3>1, Untouched DEF IInv
  <2>3. CASE TicksDMA /\ ~D!Throws(Path)
    <3>1. Become(D!Step(Path)) /\ StepHistory
      BY <1>3, <2>3 DEF CpuStep
    <3> QED BY <1>1, <2>1, <3>1, StepKeeps DEF IInv
  <2>4. CASE ~TicksDMA
    <3>1. Become(Path) /\ StepHistory
      BY <1>3, <2>4 DEF CpuStep
    <3>2. UNCHANGED path
      BY <3>1, PathFields DEF Become, path
    <3>3. KeepHistory
      BY <3>1, <3>2 DEF StepHistory, path
    <3> QED BY <1>1, <2>1, <3>2, <3>3, Untouched DEF IInv
  <2> QED BY <2>2, <2>3, <2>4
<1> QED BY <1>2, <1>3

-----------------------------------------------------------------------------
\* The strengthened invariant holds in every state that can be reached.
THEOREM Inductive == Spec => []IInv
<1>1. Init => IInv
  <2> SUFFICES ASSUME Init PROVE IInv
    OBVIOUS
  <2>1. {} \in SUBSET Links /\ <<>> \in Seq(B)
    OBVIOUS
  <2>2. dma \in DmaStates /\ uart \in UartStates /\ mem \in Memories
    BY <2>1, InitialValues DEF Init
  <2>3. dma.busy = FALSE
    BY DEF Init, D!NewDMA
  <2>4. units \in SUBSET Units
    BY DEF Init
  <2> QED BY <2>1, <2>2, <2>3, <2>4 DEF Init, IInv, TransferGood, PathGood, HistoryGood, BusyGood
<1>2. IInv /\ [Next]_vars => IInv'
  <2> SUFFICES ASSUME IInv, [Next]_vars PROVE IInv'
    OBVIOUS
  <2>1. ASSUME NEW t \in Transfers, ConfigureDMA(t[1], t[2], t[3]) PROVE IInv'
    <3>1. t[1] \in Addresses /\ t[2] \in Addresses /\ t[3] \in Nat
      BY TransferAssumption DEF Addresses, D!Cells
    <3> QED BY <2>1, <3>1, ConfigureKeeps
  <2>2. ASSUME NEW x \in BOOLEAN, NEW y \in BOOLEAN, SetIncrements(x, y) PROVE IInv'
    BY <2>2, IncrementsKeep
  <2>3. CASE UNCHANGED vars
    <3>1. UNCHANGED path /\ KeepHistory /\ units' = units
      BY <2>3 DEF vars, KeepHistory
    <3> QED BY <3>1, Untouched DEF IInv
  <2> QED BY <2>1, <2>2, <2>3, AttachKeeps, SetUnitKeeps, ResetKeeps, StartKeeps, LineKeeps,
             PortKeeps, CpuKeeps DEF Next
<1> QED BY <1>1, <1>2, PTL DEF Spec

\* An undisturbed transfer moves the bytes it was asked to, in order, to where they
\* belong, whatever aborts and restarts there are.
THEOREM BytesDelivered == Spec => []BytesArrive
<1>1. IInv => BytesArrive
  <2> SUFFICES ASSUME IInv, intact PROVE BytesArrive
    BY DEF BytesArrive
  <2>1. PathGood /\ HistoryGood /\ Progress
    BY DEF IInv, TransferGood
  <2>2. /\ taken \in Seq(B) /\ uart.tx \in Seq(B) /\ dma.n \in Nat /\ Len(taken) = dma.n
        /\ InFifo
    BY <2>1, UartFields DEF PathGood, HistoryGood, DmaStates, Progress
  <2>3. ASSUME D!Unit(dma, dma.dst) = "uart"
        PROVE  /\ dma.n <= Len(uart.tx)
               /\ SubSeq(uart.tx, Len(uart.tx) - dma.n + 1, Len(uart.tx)) = taken
    <3> DEFINE q == uart.tx
               n == dma.n
               r == SubSeq(q, Len(q) - n + 1, Len(q))
    <3>1. n <= Len(q) /\ \A i \in 1 .. n : q[Len(q) - n + i] = taken[i]
      BY <2>2, <2>3 DEF InFifo
    <3>2. q \in Seq(B) /\ n \in Nat /\ Len(taken) = n
      BY <2>2
    <3> HIDE DEF q, n
    <3>3. Len(q) \in Nat /\ r \in Seq(B) /\ Len(r) = n
      BY <3>1, <3>2
    <3>4. ASSUME NEW i \in 1 .. n PROVE r[i] = taken[i]
      <4> DEFINE m == Len(q) - n + 1
      <4>1. m \in Nat /\ i \in Nat /\ i \in 1 .. Len(q) - m + 1 /\ i + m - 1 = Len(q) - n + i
        BY <3>1, <3>2, <3>3
      <4> HIDE DEF m
      <4>2. SubSeq(q, m, Len(q))[i] = q[i + m - 1]
        BY <3>2, <4>1
      <4> QED BY <3>1, <4>1, <4>2 DEF m
    <3> HIDE DEF r
    <3>5. r = taken
      BY <2>2, <3>2, <3>3, <3>4, SeqEqual
    <3> QED BY <3>1, <3>5 DEF q, n, r
  <2>4. ToFifo
    BY <2>3 DEF ToFifo
  <2> QED BY <2>1, <2>4 DEF BytesArrive, Progress
<1> QED BY <1>1, Inductive, PTL

-----------------------------------------------------------------------------
(***************************************************************************)
(* The end of a transfer.                                                  *)
(***************************************************************************)
Completes == ~dma.completed /\ dma'.completed

\* The step that completes a transfer is one that moved its last byte.
LEMMA StepCompletes ==
  ASSUME IInv, Become(D!Step(Path)), Completes, "interrupts" \in dma.links
  PROVE  D!StepTriggers(Path)
<1>1. PathGood /\ BusyGood(dma) /\ dma \in DmaStates
  BY DEF IInv, TransferGood, PathGood
<1>2. ~(UNCHANGED path)
  BY DEF Completes, path
<1>3. ~Halts
  BY <1>1, FailedFields DEF Halts, Completes
<1>4. MovesByte
  BY <1>1, <1>2, <1>3, StepKinds
<1>5. D!Step(Path).dma.completed
  BY DEF Become, Completes
<1> QED BY <1>4, <1>5, PathFields DEF MovesByte, D!StepTriggers, D!Finishes

LEMMA OthersDoNotComplete ==
  ASSUME IInv, Completes,
         \/ AttachDMA \/ DetachDMA \/ BusReset \/ \E u \in Units : SetUnit(u)
         \/ \E x, y \in BOOLEAN : SetIncrements(x, y)
         \/ StopDMA \/ ResetDMA \/ \E b \in Bytes : PushReceivedByte(b)
         \/ ReadUART \/ PopTxByte \/ SwitchUART \/ LoadMemory \/ RegisterLine
  PROVE  FALSE
<1>1. dma \in DmaStates /\ dma.links \in SUBSET Links /\ units \in SUBSET Units
  BY DEF IInv, TransferGood, PathGood, DmaStates
<1>2. ASSUME NEW l \in SUBSET Links, dma' = WithLinks(dma, l) PROVE FALSE
  BY <1>1, <1>2, Relinked DEF Completes
<1>3. CASE AttachDMA
  <2> DEFINE l == dma.links \cup units \cup {"scheduler", "bus"}
  <2>1. l \in SUBSET Links
    BY <1>1 DEF Links
  <2>2. dma' = WithLinks(dma, l)
    BY <1>3 DEF AttachDMA, WithLinks
  <2> QED BY <1>2, <2>1, <2>2
<1>4. CASE DetachDMA
  <2> DEFINE l == dma.links \ {"scheduler", "bus"}
  <2>1. l \in SUBSET Links
    BY <1>1
  <2>2. dma' = WithLinks(dma, l)
    BY <1>4 DEF DetachDMA, WithLinks
  <2> QED BY <1>2, <2>1, <2>2
<1>5. ASSUME NEW u \in Units, SetUnit(u) PROVE FALSE
  <2>1. CASE dma' = dma
    BY <2>1 DEF Completes
  <2>2. CASE dma' # dma
    <3> DEFINE l == (dma.links \ {u}) \cup ({u} \cap units')
    <3>1. l \in SUBSET Links
      BY <1>1 DEF Links
    <3>2. dma' = WithLinks(dma, l)
      BY <1>5, <2>2 DEF SetUnit, WithLinks
    <3> QED BY <1>2, <3>1, <3>2
  <2> QED BY <2>1, <2>2
<1>6. CASE BusReset \/ ResetDMA
  <2>1. dma' = D!Reset(dma) \/ dma' = dma
    BY <1>6 DEF BusReset, ResetDMA
  <2> QED BY <1>1, <2>1, ResetFields DEF Completes
<1>7. ASSUME NEW x \in BOOLEAN, NEW y \in BOOLEAN, SetIncrements(x, y) PROVE FALSE
  BY <1>1, <1>7, IncrementFields DEF SetIncrements, Completes
<1>8. CASE StopDMA
  BY <1>1, <1>8, StopFields DEF StopDMA, Completes
<1>9. CASE \/ \E b \in Bytes : PushReceivedByte(b)
           \/ ReadUART \/ PopTxByte \/ SwitchUART \/ LoadMemory \/ RegisterLine
  BY <1>9 DEF PushReceivedByte, ReadUART, PopTxByte, SwitchUART, LoadMemory, RegisterLine, path,
              Completes
<1> QED BY <1>3, <1>4, <1>5, <1>6, <1>7, <1>8, <1>9

\* Whichever way a transfer becomes complete, a registered line is pending, or its
\* handler has run in the same step.
THEOREM CompletionInterrupts == Spec => CompletionSignalled
<1>1. IInv /\ [Next]_vars =>
        [Completes /\ irq # "off" /\ "interrupts" \in dma.links => irq' = "pending" \/ handled']_vars
  <2> SUFFICES ASSUME IInv, Next, Completes, irq # "off", "interrupts" \in dma.links
               PROVE  irq' = "pending" \/ handled'
    OBVIOUS
  <2>0. PathGood /\ BusyGood(dma) /\ dma \in DmaStates
    BY DEF IInv, TransferGood, PathGood
  <2>1. ASSUME NEW t \in Transfers, ConfigureDMA(t[1], t[2], t[3]) PROVE FALSE
    <3>1. PICK src \in Addresses, dst \in Addresses, len \in Nat : ConfigureDMA(src, dst, len)
      <4>1. t[1] \in Addresses /\ t[2] \in Addresses /\ t[3] \in Nat
        BY TransferAssumption DEF Addresses, D!Cells
      <4> QED BY <2>1, <4>1
    <3>2. dma' = D!Configure(dma, src, dst, len)
      BY <3>1 DEF ConfigureDMA
    <3>3. CASE dma.busy
      BY <3>2, <3>3 DEF D!Configure, Completes
    <3>4. CASE ~dma.busy
      BY <2>0, <3>2, <3>4, ConfigureFields DEF Completes
    <3> QED BY <3>3, <3>4
  <2>2. CASE StartDMA
    <3>1. dma' = D!Start(dma)
      BY <2>2 DEF StartDMA
    <3>2. D!Startable(dma) /\ dma.len = 0
      BY <2>0, <3>1, StartFields DEF Completes
    <3>3. D!StartTriggers(dma)
      BY <3>2 DEF D!StartTriggers
    <3> QED BY <2>2, <3>3 DEF StartDMA, Triggered
  <2>3. CASE StepDMA
    <3>1. D!StepTriggers(Path)
      BY <2>3, StepCompletes DEF StepDMA
    <3> QED BY <2>3, <3>1 DEF StepDMA, Triggered
  <2>4. CASE CpuStep
    <3>1. TicksDMA /\ ~D!Throws(Path)
      BY <2>4, PathFields DEF CpuStep, Become, Completes, path
    <3>2. Become(D!Step(Path))
      BY <2>4, <3>1 DEF CpuStep
    <3>3. D!StepTriggers(Path)
      BY <3>2, StepCompletes
    <3>4. /\ handled' = (Triggered(irq) = "pending" /\ "interrupts" \in units)
          /\ irq' = IF handled' THEN "idle" ELSE Triggered(irq)
      BY <2>4, <3>1, <3>3 DEF CpuStep
    <3> QED BY <3>4 DEF Triggered
  <2> QED BY <2>1, <2>2, <2>3, <2>4, OthersDoNotComplete DEF Next
<1> QED BY <1>1, Inductive, PTL DEF Spec, CompletionSignalled, Completes
=============================================================================
