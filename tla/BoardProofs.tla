----------------------------- MODULE BoardProofs -----------------------------
(***************************************************************************)
(* Proofs about Board: for any set of peripherals, base addresses, pins,   *)
(* devices, channels and frequencies.                                      *)
(*                                                                         *)
(* Each peripheral has a predicate that all of its operations keep, proved *)
(* operation by operation below.  STATUS is not a function of the members  *)
(* (a store to CONTROL over MMIO does not refresh it), so what is kept is  *)
(* that it shows the members as they are, with CONTROL as STATUS has it.   *)
(***************************************************************************)
EXTENDS Board, QueueTheorems

-----------------------------------------------------------------------------
(***************************************************************************)
(* The address map.                                                        *)
(***************************************************************************)
MapGood ==
  /\ base \in [Kinds -> Bases \cup {NONE}]
  /\ \A a \in DOMAIN map : a \in Nat /\ map[a] \in Kinds \cup {STRAY}
  /\ LiveRegistersMapped

\* Blocks consist of addresses.
LEMMA BlockNat ==
  ASSUME NEW k \in Kinds, NEW b \in Bases
  PROVE  Block(k, b) \subseteq Nat /\ OwnBlock(k, b) \subseteq Nat /\ TimerBlock(k, b) \subseteq Nat
<1>1. b \in Nat
  BY BasesAssumption
<1> QED BY <1>1 DEF Block, OwnBlock, TimerBlock

\* Registers that are taken into the map were free ...
LEMMA RegisterAdds ==
  ASSUME NEW bus, NEW block \in SUBSET Nat, NEW owner,
         NEW r, r = Mmio!RegisterBlock(bus, block, owner), NEW a
  PROVE  /\ a \in Mmio!Accepted(bus, block) => a \in block /\ a \notin DOMAIN bus /\ r[a] = owner
         /\ a \in DOMAIN r <=> a \in DOMAIN bus \/ a \in Mmio!Accepted(bus, block)
<1>1. a \in Mmio!Accepted(bus, block) => a \in block /\ a \notin DOMAIN bus
  BY DEF Mmio!Accepted, Mmio!Contains
<1> QED BY <1>1 DEF Mmio!RegisterBlock

\* ... and the rest stays what it was.
LEMMA RegisterKeeps ==
  ASSUME NEW bus, NEW block \in SUBSET Nat, NEW owner,
         NEW r, r = Mmio!RegisterBlock(bus, block, owner)
  PROVE  \A a \in DOMAIN bus : r[a] = bus[a]
<1>1. ASSUME NEW a \in DOMAIN bus, a \in Mmio!Accepted(bus, block) PROVE FALSE
  <2>1. a \in block /\ \A b \in block : b <= a => b \notin DOMAIN bus
    BY <1>1 DEF Mmio!Accepted, Mmio!Contains
  <2>2. a \in Nat
    BY <2>1
  <2> QED BY <2>1, <2>2
<1> QED BY <1>1 DEF Mmio!RegisterBlock

\* A live peripheral is in the map under its name.
LEMMA LiveMapped ==
  ASSUME LiveRegistersMapped, NEW k \in Live, NEW a \in Block(k, base[k])
  PROVE  a \in DOMAIN map /\ map[a] = k
BY DEF LiveRegistersMapped, Mmio!Contains

\* What is added to the map takes no register away from a live peripheral.
LEMMA AddKeeps ==
  ASSUME MapGood, NEW block \in SUBSET Nat, NEW owner \in Kinds \cup {STRAY},
         map' = Mmio!RegisterBlock(map, block, owner), base' = base
  PROVE  MapGood'
<1>1. /\ \A a \in DOMAIN map' : a \in DOMAIN map \/ (a \in block /\ map'[a] = owner)
      /\ \A a \in DOMAIN map : a \in DOMAIN map' /\ map'[a] = map[a]
  <2>1. \A a \in DOMAIN map : map'[a] = map[a]
    BY RegisterKeeps
  <2>2. \A a : a \in DOMAIN map' <=> a \in DOMAIN map \/ a \in Mmio!Accepted(map, block)
    BY RegisterAdds
  <2>3. \A a \in Mmio!Accepted(map, block) : a \in block /\ map'[a] = owner
    BY RegisterAdds
  <2> QED BY <2>1, <2>2, <2>3
<1>2. \A a \in DOMAIN map' : a \in Nat /\ map'[a] \in Kinds \cup {STRAY}
  BY <1>1 DEF MapGood
<1>3. LiveRegistersMapped'
  <2>1. SUFFICES ASSUME NEW k \in Live, NEW a \in Block(k, base[k])
                 PROVE  a \in DOMAIN map' /\ map'[a] = k
    BY DEF LiveRegistersMapped, Mmio!Contains, Live
  <2>2. a \in DOMAIN map /\ map[a] = k
    BY LiveMapped DEF MapGood
  <2> QED BY <2>2, <1>1
<1> QED BY <1>2, <1>3 DEF MapGood

\* What is taken from the map belongs to no other live peripheral.
LEMMA RemoveKeeps ==
  ASSUME MapGood, NEW block, map' = Mmio!UnregisterBlock(map, block),
         base' \in [Kinds -> Bases \cup {NONE}],
         \A k \in Live' : k \in Live /\ base'[k] = base[k] /\ Block(k, base[k]) \cap block = {}
  PROVE  MapGood'
<1>1. DOMAIN map' = DOMAIN map \ block /\ \A a \in DOMAIN map' : map'[a] = map[a]
  BY DEF Mmio!UnregisterBlock
<1>2. \A a \in DOMAIN map' : a \in Nat /\ map'[a] \in Kinds \cup {STRAY}
  BY <1>1 DEF MapGood
<1>3. LiveRegistersMapped'
  <2>1. SUFFICES ASSUME NEW k \in Live', NEW a \in Block(k, base'[k])
                 PROVE  a \in DOMAIN map' /\ map'[a] = k
    BY DEF LiveRegistersMapped, Mmio!Contains
  <2>2. k \in Live /\ a \in Block(k, base[k]) /\ a \notin block
    OBVIOUS
  <2>3. a \in DOMAIN map /\ map[a] = k
    BY <2>2, LiveMapped DEF MapGood
  <2> QED BY <2>2, <2>3, <1>1
<1> QED BY <1>2, <1>3 DEF MapGood

LEMMA ConstructKeeps ==
  ASSUME MapGood, NEW k \in Kinds, NEW b \in Bases, Construct(k, b)
  PROVE  MapGood' /\ Live' = Live \cup {k}
<1> DEFINE block == Block(k, b)
<1>1. /\ k \notin Live /\ base' = [base EXCEPT ![k] = b]
      /\ Mmio!Accepted(map, block) = block
      /\ map' = Mmio!RegisterBlock(map, block, k)
  BY DEF Construct, Fits
<1>2. b # NONE /\ base \in [Kinds -> Bases \cup {NONE}]
  BY BasesAssumption DEF NONE, MapGood
<1>3. Live' = Live \cup {k} /\ base'[k] = b /\ \A j \in Live : base'[j] = base[j]
  BY <1>1, <1>2 DEF Live
<1>4. block \in SUBSET Nat
  BY BlockNat
<1>5. /\ \A a \in DOMAIN map' : a \in DOMAIN map \/ a \in block
      /\ \A a \in DOMAIN map : a \in DOMAIN map' /\ map'[a] = map[a]
      /\ \A a \in block : a \in DOMAIN map' /\ map'[a] = k
  <2> HIDE DEF block
  <2>1. \A a \in DOMAIN map : map'[a] = map[a]
    BY <1>1, <1>4, RegisterKeeps
  <2>2. \A a \in DOMAIN map' : a \in DOMAIN map \/ a \in block
    BY <1>1, <1>4, RegisterAdds
  <2>3. \A a \in DOMAIN map : a \in DOMAIN map'
    BY <1>1, <1>4, RegisterAdds
  <2>4. \A a \in block : a \in DOMAIN map' /\ map'[a] = k
    BY <1>1, <1>4, RegisterAdds
  <2> QED BY <2>1, <2>2, <2>3, <2>4
<1>6. base' \in [Kinds -> Bases \cup {NONE}]
  BY <1>1, <1>2
<1>7. \A a \in DOMAIN map' : a \in Nat /\ map'[a] \in Kinds \cup {STRAY}
  <2> HIDE DEF block
  <2> QED BY <1>4, <1>5 DEF MapGood
<1>8. LiveRegistersMapped'
  <2>1. SUFFICES ASSUME NEW j \in Live', NEW a \in Block(j, base'[j])
                 PROVE  a \in DOMAIN map' /\ map'[a] = j
    BY DEF LiveRegistersMapped, Mmio!Contains
  <2>2. CASE j = k
    BY <2>2, <1>3, <1>5
  <2>3. CASE j # k
    <3>1. j \in Live /\ a \in Block(j, base[j])
      BY <2>3, <1>3
    <3>2. a \in DOMAIN map /\ map[a] = j
      BY <3>1, LiveMapped DEF MapGood
    <3> HIDE DEF block
    <3> QED BY <3>2, <1>5
  <2> QED BY <2>2, <2>3
<1> QED BY <1>3, <1>6, <1>7, <1>8 DEF MapGood

LEMMA DestroyKeeps ==
  ASSUME MapGood, NEW k \in Kinds, Destroy(k)
  PROVE  MapGood' /\ Live' = Live \ {k}
<1>1. /\ k \in Live /\ base' = [base EXCEPT ![k] = NONE]
      /\ map' = Mmio!UnregisterBlock(map, Block(k, base[k]))
  BY DEF Destroy
<1>2. base \in [Kinds -> Bases \cup {NONE}]
  BY DEF MapGood
<1>3. Live' = Live \ {k} /\ base' \in [Kinds -> Bases \cup {NONE}]
  BY <1>1, <1>2 DEF Live
<1>4. \A j \in Live' : j \in Live /\ base'[j] = base[j] /\ j # k
  BY <1>1, <1>2, <1>3 DEF Live
<1>5. ASSUME NEW j \in Live' PROVE Block(j, base[j]) \cap Block(k, base[k]) = {}
  <2>1. SUFFICES ASSUME NEW a \in Block(j, base[j]), a \in Block(k, base[k]) PROVE FALSE
    OBVIOUS
  <2>2. map[a] = j
    BY <1>4, LiveMapped DEF MapGood
  <2>3. map[a] = k
    BY <1>1, <2>1, LiveMapped DEF MapGood
  <2> QED BY <2>2, <2>3, <1>4
<1>6. MapGood'
  BY <1>1, <1>3, <1>4, <1>5, RemoveKeeps
<1> QED BY <1>3, <1>6

LEMMA MapActionsKeep ==
  ASSUME MapGood,
         \/ \E k \in Kinds, b \in Bases : ConstructorThrows(k, b)
         \/ \E a \in Bases : MapRegister(a) \/ UnmapRegister(a)
  PROVE  MapGood'
<1>1. CASE \E k \in Kinds, b \in Bases : ConstructorThrows(k, b)
  <2>1. PICK k \in Kinds, b \in Bases : ConstructorThrows(k, b)
    BY <1>1
  <2>2. PICK block \in {OwnBlock(k, b), TimerBlock(k, b)} :
          map' = Mmio!RegisterBlock(map, block, STRAY)
    BY <2>1 DEF ConstructorThrows, Wreck
  <2>3. block \in SUBSET Nat /\ base' = base
    BY <2>1, <2>2, BlockNat DEF ConstructorThrows
  <2> QED BY <2>2, <2>3, AddKeeps
<1>2. CASE \E a \in Bases : MapRegister(a)
  <2>1. PICK a \in Bases : MapRegister(a)
    BY <1>2
  <2>2. {a} \in SUBSET Nat
    BY BasesAssumption
  <2>3. map' = Mmio!RegisterBlock(map, {a}, STRAY) /\ base' = base
    BY <2>1 DEF MapRegister
  <2> QED BY <2>2, <2>3, AddKeeps
<1>3. CASE \E a \in Bases : UnmapRegister(a)
  <2>1. PICK a \in Bases : UnmapRegister(a)
    BY <1>3
  <2>2. map' = Mmio!UnregisterBlock(map, {a}) /\ base' = base /\ map[a] = STRAY
    BY <2>1 DEF UnmapRegister
  <2>3. Live' = Live /\ \A k \in Live : k # STRAY
    BY <2>2, KindsAssumption DEF Live, AllKinds, STRAY
  <2>4. ASSUME NEW k \in Live PROVE Block(k, base[k]) \cap {a} = {}
    <3>1. a \in Block(k, base[k]) => map[a] = k
      BY LiveMapped DEF MapGood
    <3> QED BY <3>1, <2>2, <2>3
  <2>5. base' \in [Kinds -> Bases \cup {NONE}]
    BY <2>2 DEF MapGood
  <2> QED BY <2>2, <2>3, <2>4, <2>5, RemoveKeeps
<1> QED BY <1>1, <1>2, <1>3

-----------------------------------------------------------------------------
(***************************************************************************)
(* The serial port.                                                        *)
(***************************************************************************)
UartStates == Uart!UartState(ReadableBytes, Bauds)

UartGood(u) ==
  /\ u \in UartStates /\ u.tx \in Seq(Bytes)
  /\ u.status = Uart!StatusOf([u EXCEPT !.enabled = ("ENABLED" \in u.status)])

\* Every operation that refreshes STATUS leaves it right.
LEMMA UartRefreshed ==
  ASSUME NEW u \in UartStates, u.tx \in Seq(Bytes)
  PROVE  UartGood(Uart!UpdateStatusRegister(u))
<1> DEFINE r == Uart!UpdateStatusRegister(u)
           on == "ENABLED" \in r.status
<1>1. r = [u EXCEPT !.status = Uart!StatusOf(u)]
  BY DEF Uart!UpdateStatusRegister
<1>2. /\ Uart!StatusOf(u) \in SUBSET {"TX_EMPTY", "RX_AVAIL", "ENABLED"}
      /\ "ENABLED" \in Uart!StatusOf(u) <=> u.enabled
  BY DEF Uart!StatusOf, Uart!TX_EMPTY, Uart!RX_AVAIL, Uart!ENABLED_BIT
<1>3. /\ r \in UartStates /\ r.tx = u.tx /\ r.rx = u.rx /\ r.enabled = u.enabled
      /\ r.status = Uart!StatusOf(u)
  BY <1>1, <1>2 DEF UartStates, Uart!UartState, Uart!TX_EMPTY, Uart!RX_AVAIL, Uart!ENABLED_BIT
<1>4. on = u.enabled
  BY <1>2, <1>3 DEF UartStates, Uart!UartState
<1> HIDE DEF r, on
<1> DEFINE v == [r EXCEPT !.enabled = on]
<1>5. v.tx = u.tx /\ v.rx = u.rx /\ v.enabled = u.enabled
  BY <1>3, <1>4 DEF UartStates, Uart!UartState
<1> HIDE DEF v
<1>6. Uart!StatusOf(v) = Uart!StatusOf(u)
  BY <1>5 DEF Uart!StatusOf
<1> QED BY <1>3, <1>6 DEF UartGood, v, on, r

\* The calls that touch CONTROL.
LEMMA UartSwitched ==
  ASSUME NEW u, UartGood(u)
  PROVE  UartGood(Uart!Enable(u)) /\ UartGood(Uart!Disable(u)) /\ UartGood(Uart!Reset(u))
<1>1. \A on \in BOOLEAN : [u EXCEPT !.enabled = on] \in UartStates
                          /\ [u EXCEPT !.enabled = on].tx \in Seq(Bytes)
  BY DEF UartGood, UartStates, Uart!UartState
<1>2. UartGood(Uart!Enable(u))
  BY <1>1, UartRefreshed DEF Uart!Enable
<1>3. UartGood(Uart!Disable(u))
  BY <1>1, UartRefreshed DEF Uart!Disable
<1> DEFINE v == [u EXCEPT !.enabled = FALSE, !.tx = <<>>, !.rx = <<>>, !.data = 0]
<1>4. v \in UartStates /\ v.tx \in Seq(Bytes)
  <2>1. <<>> \in Seq(Bytes) /\ <<>> \in Seq(ReadableBytes) /\ 0 \in ReadableBytes
    BY DEF ReadableBytes
  <2> QED BY <2>1 DEF UartGood, UartStates, Uart!UartState
<1> HIDE DEF v
<1>5. UartGood(Uart!Reset(u))
  BY <1>4, UartRefreshed DEF Uart!Reset, v
<1> QED BY <1>2, <1>3, <1>5

\* The calls that move bytes.
LEMMA UartPut ==
  ASSUME NEW u, UartGood(u), NEW b \in Bytes
  PROVE  UartGood(Uart!WriteByte(u, b)) /\ UartGood(Uart!PushReceivedByte(u, b))
<1>1. /\ u \in UartStates /\ u.tx \in Seq(Bytes) /\ u.rx \in Seq(ReadableBytes)
      /\ b \in ReadableBytes
  BY DEF UartGood, UartStates, Uart!UartState, ReadableBytes
<1>2. u.tx \in Seq(ReadableBytes)
  BY <1>1 DEF UartStates, Uart!UartState
<1>3. UartGood(Uart!WriteByte(u, b))
  <2> DEFINE v == [u EXCEPT !.tx = Append(@, b), !.data = b]
  <2>1. Append(u.tx, b) \in Seq(Bytes) /\ Append(u.tx, b) \in Seq(ReadableBytes)
    BY <1>1, <1>2
  <2>2. v \in UartStates /\ v.tx \in Seq(Bytes)
    BY <1>1, <2>1 DEF UartStates, Uart!UartState
  <2> HIDE DEF v
  <2>3. UartGood(Uart!UpdateStatusRegister(v))
    BY <2>2, UartRefreshed
  <2> QED BY <2>3 DEF Uart!WriteByte, v
<1>4. UartGood(Uart!PushReceivedByte(u, b))
  <2> DEFINE v == [u EXCEPT !.rx = Append(@, b)]
  <2>1. Append(u.rx, b) \in Seq(ReadableBytes)
    BY <1>1
  <2>2. v \in UartStates /\ v.tx \in Seq(Bytes)
    BY <1>1, <2>1 DEF UartStates, Uart!UartState
  <2> HIDE DEF v
  <2>3. UartGood(Uart!UpdateStatusRegister(v))
    BY <2>2, UartRefreshed
  <2> QED BY <2>3 DEF Uart!PushReceivedByte, v
<1> QED BY <1>3, <1>4

LEMMA UartTaken ==
  ASSUME NEW u, UartGood(u)
  PROVE  UartGood(Uart!ReadByte(u)) /\ UartGood(Uart!PopTxByte(u))
<1>1. u \in UartStates /\ u.tx \in Seq(Bytes) /\ u.rx \in Seq(ReadableBytes)
  BY DEF UartGood, UartStates, Uart!UartState
<1>2. u.tx \in Seq(ReadableBytes)
  BY <1>1 DEF UartStates, Uart!UartState
<1>3. UartGood(Uart!ReadByte(u))
  <2> DEFINE v == [u EXCEPT !.rx = Tail(@), !.data = Head(u.rx)]
  <2>1. CASE Uart!CanRead(u)
    <3>1. Tail(u.rx) \in Seq(ReadableBytes) /\ Head(u.rx) \in ReadableBytes
      BY <1>1, <2>1 DEF Uart!CanRead
    <3>2. v \in UartStates /\ v.tx \in Seq(Bytes)
      BY <1>1, <3>1 DEF UartStates, Uart!UartState
    <3> HIDE DEF v
    <3>3. UartGood(Uart!UpdateStatusRegister(v))
      BY <3>2, UartRefreshed
    <3> QED BY <3>3, <2>1 DEF Uart!ReadByte, v
  <2> QED BY <2>1 DEF Uart!ReadByte
<1>4. UartGood(Uart!PopTxByte(u))
  <2> DEFINE v == [u EXCEPT !.tx = Tail(@)]
  <2>1. CASE u.tx # <<>>
    <3>1. Tail(u.tx) \in Seq(ReadableBytes) /\ Tail(u.tx) \in Seq(Bytes)
      BY <1>1, <1>2, <2>1
    <3>2. v \in UartStates /\ v.tx \in Seq(Bytes)
      BY <1>1, <3>1 DEF UartStates, Uart!UartState
    <3> HIDE DEF v
    <3>3. UartGood(Uart!UpdateStatusRegister(v))
      BY <3>2, UartRefreshed
    <3> QED BY <3>3, <2>1 DEF Uart!PopTxByte, v
  <2> QED BY <2>1 DEF Uart!PopTxByte
<1> QED BY <1>3, <1>4

\* A store to CONTROL, and setBaudRate: STATUS is left alone.
LEMMA UartStored ==
  ASSUME NEW u, UartGood(u), NEW on \in BOOLEAN, NEW rate \in Bauds \cup {0}
  PROVE  UartGood([u EXCEPT !.enabled = on]) /\ UartGood(Uart!SetBaudRate(u, rate))
<1> DEFINE was == "ENABLED" \in u.status
           seen == [u EXCEPT !.enabled = was]
<1>1. /\ u \in UartStates /\ u.tx \in Seq(Bytes)
      /\ seen.tx = u.tx /\ seen.rx = u.rx /\ seen.enabled = was
      /\ u.status = Uart!StatusOf(seen)
  BY DEF UartGood, UartStates, Uart!UartState
<1>2. ASSUME NEW v \in UartStates, v.tx = u.tx, v.rx = u.rx, v.status = u.status
      PROVE  UartGood(v)
  <2> DEFINE w == [v EXCEPT !.enabled = ("ENABLED" \in v.status)]
  <2>1. w.tx = u.tx /\ w.rx = u.rx /\ w.enabled = was
    BY <1>2 DEF UartStates, Uart!UartState
  <2> HIDE DEF w, seen, was
  <2>2. Uart!StatusOf(w) = Uart!StatusOf(seen)
    BY <1>1, <2>1 DEF Uart!StatusOf
  <2> QED BY <1>1, <1>2, <2>2 DEF UartGood, w
<1> HIDE DEF seen, was
<1> DEFINE e == [u EXCEPT !.enabled = on]
           r == Uart!SetBaudRate(u, rate)
<1>3. e \in UartStates /\ e.tx = u.tx /\ e.rx = u.rx /\ e.status = u.status
  BY <1>1 DEF UartStates, Uart!UartState
<1>4. r \in UartStates /\ r.tx = u.tx /\ r.rx = u.rx /\ r.status = u.status
  BY <1>1 DEF Uart!SetBaudRate, UartStates, Uart!UartState
<1> HIDE DEF e, r
<1>5. UartGood(e) /\ UartGood(r)
  BY <1>2, <1>3, <1>4
<1> QED BY <1>5 DEF e, r

LEMMA UartFresh == UartGood(FreshUart)
<1> DEFINE u == FreshUart
<1>1. /\ u \in UartStates /\ u.tx = <<>> /\ u.rx = <<>> /\ u.enabled = FALSE
      /\ u.status = {"TX_EMPTY"}
  BY DEF FreshUart, Uart!NewUART, UartStates, Uart!UartState, ReadableBytes, Bauds,
         Uart!TX_EMPTY, Uart!RX_AVAIL, Uart!ENABLED_BIT
<1> HIDE DEF u
<1> DEFINE w == [u EXCEPT !.enabled = ("ENABLED" \in u.status)]
<1>2. w.tx = <<>> /\ w.rx = <<>> /\ w.enabled = FALSE
  BY <1>1 DEF UartStates, Uart!UartState
<1> HIDE DEF w
<1>3. Uart!StatusOf(w) = {"TX_EMPTY"}
  BY <1>2 DEF Uart!StatusOf, Uart!TX_EMPTY, Uart!RX_AVAIL, Uart!ENABLED_BIT
<1>4. u.tx \in Seq(Bytes)
  BY <1>1
<1> QED BY <1>1, <1>3, <1>4 DEF UartGood, w, u

\* A port whose STATUS shows what CONTROL holds shows all the rest.
LEMMA UartTruthful ==
  ASSUME NEW u, UartGood(u) PROVE Truthful(u, Uart!StatusOf(u))
<1>1. SUFFICES ASSUME u.enabled <=> "ENABLED" \in u.status PROVE u.status = Uart!StatusOf(u)
  BY DEF Truthful
<1>2. [u EXCEPT !.enabled = ("ENABLED" \in u.status)] = u
  BY <1>1 DEF UartGood, UartStates, Uart!UartState
<1> QED BY <1>2 DEF UartGood

-----------------------------------------------------------------------------
(***************************************************************************)
(* The SPI master, with the history of what filled DATA.                   *)
(***************************************************************************)
SpiStates == Spi!SpiState(ReadableBytes, Modes, Dividers)

SpiGood(s) ==
  /\ s \in SpiStates
  /\ s.status = Spi!StatusOf([s EXCEPT !.enabled = ("ENABLED" \in s.status)])

OnlyFetched(s, how) == s.hasData /\ s.rx = <<>> => how = "transfer"

LEMMA SpiRefreshed ==
  ASSUME NEW s \in SpiStates
  PROVE  LET r == Spi!UpdateStatusRegister(s)
         IN SpiGood(r) /\ r.rx = s.rx /\ r.hasData = s.hasData
<1> DEFINE r == Spi!UpdateStatusRegister(s)
           on == "ENABLED" \in r.status
<1>1. r = [s EXCEPT !.status = Spi!StatusOf(s)]
  BY DEF Spi!UpdateStatusRegister
<1>2. /\ Spi!StatusOf(s) \in SUBSET {"RX_AVAIL", "ENABLED"}
      /\ "ENABLED" \in Spi!StatusOf(s) <=> s.enabled
  BY DEF Spi!StatusOf, Spi!RX_AVAIL, Spi!ENABLED_BIT
<1>3. /\ r \in SpiStates /\ r.hasData = s.hasData /\ r.rx = s.rx /\ r.enabled = s.enabled
      /\ r.status = Spi!StatusOf(s)
  BY <1>1, <1>2 DEF SpiStates, Spi!SpiState, Spi!RX_AVAIL, Spi!ENABLED_BIT
<1>4. on = s.enabled
  BY <1>2, <1>3 DEF SpiStates, Spi!SpiState
<1> HIDE DEF r, on
<1> DEFINE v == [r EXCEPT !.enabled = on]
<1>5. v.hasData = s.hasData /\ v.rx = s.rx /\ v.enabled = s.enabled
  BY <1>3, <1>4 DEF SpiStates, Spi!SpiState
<1> HIDE DEF v
<1>6. Spi!StatusOf(v) = Spi!StatusOf(s)
  BY <1>5 DEF Spi!StatusOf, Spi!HasData
<1> QED BY <1>3, <1>6 DEF SpiGood, v, on, r

\* STATUS goes with the members it shows, not with CONTROL.
LEMMA SpiUnseen ==
  ASSUME NEW s, SpiGood(s),
         NEW v \in SpiStates, v.rx = s.rx, v.hasData = s.hasData, v.status = s.status
  PROVE  SpiGood(v)
<1> DEFINE was == "ENABLED" \in s.status
           seen == [s EXCEPT !.enabled = was]
           w == [v EXCEPT !.enabled = ("ENABLED" \in v.status)]
<1>1. /\ seen.rx = s.rx /\ seen.hasData = s.hasData /\ seen.enabled = was
      /\ w.rx = s.rx /\ w.hasData = s.hasData /\ w.enabled = was
      /\ s.status = Spi!StatusOf(seen)
  BY DEF SpiGood, SpiStates, Spi!SpiState
<1> HIDE DEF w, seen, was
<1>2. Spi!StatusOf(w) = Spi!StatusOf(seen)
  BY <1>1 DEF Spi!StatusOf, Spi!HasData
<1> QED BY <1>1, <1>2 DEF SpiGood, w

\* The answers are bytes that can be read.
LEMMA SpiAnswer ==
  ASSUME NEW s, NEW a \in Spi!Answers(s, Bytes) PROVE a \in ReadableBytes
BY DEF Spi!Answers, Spi!IDLE_LINE, ReadableBytes

LEMMA SpiWritten ==
  ASSUME NEW s, SpiGood(s), NEW a \in ReadableBytes, NEW how, OnlyFetched(s, how)
  PROVE  /\ SpiGood(Spi!WriteByte(s, a)) /\ SpiGood(Spi!Transfer(s, a))
         /\ OnlyFetched(Spi!WriteByte(s, a), IF s.enabled THEN "write" ELSE how)
         /\ OnlyFetched(Spi!Transfer(s, a), IF s.enabled THEN "transfer" ELSE how)
<1>1. s \in SpiStates /\ s.rx \in Seq(ReadableBytes)
  BY DEF SpiGood, SpiStates, Spi!SpiState
<1>2. CASE ~s.enabled
  BY <1>2 DEF Spi!WriteByte, Spi!Transfer
<1>3. CASE s.enabled
  <2> DEFINE v == [s EXCEPT !.data = a, !.hasData = TRUE, !.rx = Append(@, a)]
             u == [s EXCEPT !.data = a, !.hasData = TRUE]
  <2>1. Append(s.rx, a) \in Seq(ReadableBytes) /\ Append(s.rx, a) # <<>>
    BY <1>1
  <2>2. v \in SpiStates /\ u \in SpiStates /\ v.rx = Append(s.rx, a)
    BY <1>1, <2>1 DEF SpiStates, Spi!SpiState
  <2> HIDE DEF v, u
  <2>3. /\ SpiGood(Spi!UpdateStatusRegister(v)) /\ SpiGood(Spi!UpdateStatusRegister(u))
        /\ Spi!UpdateStatusRegister(v).rx = v.rx
    BY <2>2, SpiRefreshed
  <2>4. /\ Spi!WriteByte(s, a) = Spi!UpdateStatusRegister(v)
        /\ Spi!Transfer(s, a) = Spi!UpdateStatusRegister(u)
    BY <1>3 DEF Spi!WriteByte, Spi!Transfer, v, u
  <2> QED BY <1>3, <2>1, <2>2, <2>3, <2>4 DEF OnlyFetched
<1> QED BY <1>2, <1>3

LEMMA SpiRead ==
  ASSUME NEW s, SpiGood(s), NEW how, OnlyFetched(s, how)
  PROVE  /\ SpiGood(Spi!ReadByte(s))
         /\ OnlyFetched(Spi!ReadByte(s), IF s.enabled /\ s.rx = <<>> THEN "nothing" ELSE how)
<1>1. s \in SpiStates /\ s.rx \in Seq(ReadableBytes) /\ s.hasData \in BOOLEAN
  BY DEF SpiGood, SpiStates, Spi!SpiState
<1>2. CASE ~s.enabled \/ ~Spi!HasData(s)
  <2>1. Spi!ReadByte(s) = s
    BY <1>2 DEF Spi!ReadByte
  <2> QED BY <2>1, <1>2 DEF OnlyFetched, Spi!HasData
<1>3. CASE ~(~s.enabled \/ ~Spi!HasData(s))
  <2> DEFINE r == IF s.rx # <<>> THEN [s EXCEPT !.rx = Tail(@)] ELSE [s EXCEPT !.hasData = FALSE]
             v == [r EXCEPT !.hasData = @ /\ r.rx # <<>>]
  <2>1. s.rx # <<>> => Tail(s.rx) \in Seq(ReadableBytes)
    BY <1>1
  <2>2. r \in SpiStates
    BY <1>1, <2>1 DEF SpiStates, Spi!SpiState
  <2>3. Spi!ReadByte(s) = Spi!UpdateStatusRegister(v)
    BY <1>3 DEF Spi!ReadByte
  <2> HIDE DEF r
  <2>4. v \in SpiStates /\ v.rx = r.rx /\ v.hasData = (r.hasData /\ r.rx # <<>>)
    BY <2>2 DEF SpiStates, Spi!SpiState
  <2> HIDE DEF v
  <2>5. /\ SpiGood(Spi!ReadByte(s)) /\ Spi!ReadByte(s).rx = r.rx
        /\ Spi!ReadByte(s).hasData = (r.hasData /\ r.rx # <<>>)
    BY <2>3, <2>4, SpiRefreshed
  <2> QED BY <2>5 DEF OnlyFetched
<1> QED BY <1>2, <1>3

LEMMA SpiSwitched ==
  ASSUME NEW s, SpiGood(s), NEW how, OnlyFetched(s, how)
  PROVE  /\ SpiGood(Spi!Enable(s)) /\ OnlyFetched(Spi!Enable(s), how)
         /\ SpiGood(Spi!Disable(s)) /\ OnlyFetched(Spi!Disable(s), how)
         /\ SpiGood(Spi!Reset(s)) /\ \A any : OnlyFetched(Spi!Reset(s), any)
<1>1. \A on \in BOOLEAN : /\ [s EXCEPT !.enabled = on] \in SpiStates
                          /\ [s EXCEPT !.enabled = on].rx = s.rx
                          /\ [s EXCEPT !.enabled = on].hasData = s.hasData
  BY DEF SpiGood, SpiStates, Spi!SpiState
<1>2. SpiGood(Spi!Enable(s)) /\ OnlyFetched(Spi!Enable(s), how)
  BY <1>1, SpiRefreshed DEF Spi!Enable, OnlyFetched
<1>3. SpiGood(Spi!Disable(s)) /\ OnlyFetched(Spi!Disable(s), how)
  BY <1>1, SpiRefreshed DEF Spi!Disable, OnlyFetched
<1> DEFINE v == [s EXCEPT !.enabled = FALSE, !.mode = 0, !.div = s.div0, !.data = 0,
                          !.slave = FALSE, !.rx = <<>>, !.hasData = FALSE]
<1>4. <<>> \in Seq(ReadableBytes) /\ 0 \in ReadableBytes /\ 0 \in Modes
  BY SpiAssumption DEF ReadableBytes
<1>5. v \in SpiStates /\ v.hasData = FALSE
  BY <1>4 DEF SpiGood, SpiStates, Spi!SpiState
<1> HIDE DEF v
<1>6. SpiGood(Spi!Reset(s)) /\ Spi!Reset(s).hasData = FALSE
  BY <1>5, SpiRefreshed DEF Spi!Reset, v
<1> QED BY <1>2, <1>3, <1>6 DEF OnlyFetched

\* A store to CONTROL, the settings and the slave: STATUS is left alone.
LEMMA SpiStored ==
  ASSUME NEW s, SpiGood(s), NEW how, OnlyFetched(s, how), NEW on \in BOOLEAN,
         NEW v, v = [s EXCEPT !.enabled = on, !.mode = 0]
  PROVE  SpiGood(v) /\ OnlyFetched(v, how)
<1>1. 0 \in Modes /\ s \in SpiStates
  BY SpiAssumption DEF SpiGood
<1>2. v \in SpiStates /\ v.rx = s.rx /\ v.hasData = s.hasData /\ v.status = s.status
  BY <1>1 DEF SpiStates, Spi!SpiState
<1> QED BY <1>2, SpiUnseen DEF OnlyFetched

LEMMA SpiSet ==
  ASSUME NEW s, SpiGood(s), NEW how, OnlyFetched(s, how),
         NEW m \in Modes \cup {4}, NEW d \in Dividers \cup {0},
         NEW v \in {Spi!Configure(s, m, d), Spi!AttachSlave(s), Spi!DetachSlave(s)}
  PROVE  SpiGood(v) /\ OnlyFetched(v, how)
<1>1. 0 \in Modes /\ Modes \subseteq Nat /\ Dividers \subseteq Nat
  BY SpiAssumption
<1>2. v \in SpiStates /\ v.rx = s.rx /\ v.hasData = s.hasData /\ v.status = s.status
  <2>1. s \in SpiStates
    BY DEF SpiGood
  <2>2. CASE v = Spi!Configure(s, m, d)
    <3>1. CASE m > 3
      BY <2>1, <2>2, <3>1 DEF Spi!Configure
    <3>2. CASE ~(m > 3)
      <4> DEFINE r == [s EXCEPT !.mode = m]
      <4>1. m \in Modes
        BY <3>2
      <4>2. r \in SpiStates /\ r.rx = s.rx /\ r.hasData = s.hasData /\ r.status = s.status
        BY <2>1, <4>1 DEF SpiStates, Spi!SpiState
      <4>3. v = Spi!SetClockDivider(r, d)
        BY <2>2, <3>2 DEF Spi!Configure, Spi!SetMode
      <4> HIDE DEF r
      <4>4. d = 0 \/ d \in Dividers
        OBVIOUS
      <4> QED BY <4>2, <4>3, <4>4 DEF Spi!SetClockDivider, SpiStates, Spi!SpiState
    <3> QED BY <3>1, <3>2
  <2>3. CASE v \in {Spi!AttachSlave(s), Spi!DetachSlave(s)}
    BY <1>1, <2>1, <2>3 DEF SpiStates, Spi!SpiState, Spi!AttachSlave, Spi!DetachSlave
  <2> QED BY <2>2, <2>3
<1> QED BY <1>2, SpiUnseen DEF OnlyFetched

LEMMA SpiFresh == SpiGood(FreshSpi) /\ \A how : OnlyFetched(FreshSpi, how)
<1> DEFINE s == FreshSpi
<1>1. (CHOOSE d \in Dividers : d # 0) \in Dividers /\ 1 \in Modes
  BY SpiAssumption
<1>2. /\ s \in SpiStates /\ s.rx = <<>> /\ s.hasData = FALSE /\ s.enabled = FALSE
      /\ s.status = {}
  BY <1>1 DEF FreshSpi, Spi!NewSPI, SpiStates, Spi!SpiState, ReadableBytes
<1> HIDE DEF s
<1> DEFINE w == [s EXCEPT !.enabled = ("ENABLED" \in s.status)]
<1>3. w.rx = <<>> /\ w.hasData = FALSE /\ w.enabled = FALSE
  BY <1>2 DEF SpiStates, Spi!SpiState
<1> HIDE DEF w
<1>4. Spi!StatusOf(w) = {}
  BY <1>3 DEF Spi!StatusOf, Spi!HasData
<1> QED BY <1>2, <1>4 DEF SpiGood, OnlyFetched, w, s

LEMMA SpiTruthful ==
  ASSUME NEW s, SpiGood(s) PROVE Truthful(s, Spi!StatusOf(s))
<1>1. SUFFICES ASSUME s.enabled <=> "ENABLED" \in s.status PROVE s.status = Spi!StatusOf(s)
  BY DEF Truthful
<1>2. [s EXCEPT !.enabled = ("ENABLED" \in s.status)] = s
  BY <1>1 DEF SpiGood, SpiStates, Spi!SpiState
<1> QED BY <1>2 DEF SpiGood

-----------------------------------------------------------------------------
(***************************************************************************)
(* The I2C master.  No device is attached twice, so one detach() is enough *)
(* to be rid of it.                                                        *)
(***************************************************************************)
I2cStates == I2c!I2cState(Devices, ReadableBytes, BusAddresses)

I2cGood(i) ==
  /\ i \in I2cStates
  /\ i.status = I2c!StatusOf([i EXCEPT !.enabled = ("ENABLED" \in i.status)])
  /\ IsInjective(i.devices)
  /\ i.active # NoDevice => i.busy /\ i.active \in Range(i.devices)

\* A state but for its STATUS, before updateStatusRegister().
I2cPlausible(i) ==
  /\ i \in I2cStates /\ IsInjective(i.devices)
  /\ i.active # NoDevice => i.busy /\ i.active \in Range(i.devices)

LEMMA I2cRefreshed ==
  ASSUME NEW i, I2cPlausible(i)
  PROVE  I2cGood(I2c!UpdateStatusRegister(i))
<1> DEFINE r == I2c!UpdateStatusRegister(i)
           on == "ENABLED" \in r.status
<1>1. r = [i EXCEPT !.status = I2c!StatusOf(i)] /\ i \in I2cStates
  BY DEF I2c!UpdateStatusRegister, I2cPlausible
<1>2. /\ I2c!StatusOf(i) \in SUBSET {"ENABLED", "BUSY", "NACK"}
      /\ "ENABLED" \in I2c!StatusOf(i) <=> i.enabled
  BY DEF I2c!StatusOf, I2c!ENABLED_BIT, I2c!BUSY_BIT, I2c!NACK_BIT
<1>3. /\ r \in I2cStates /\ r.enabled = i.enabled /\ r.busy = i.busy /\ r.lastAck = i.lastAck
      /\ r.devices = i.devices /\ r.active = i.active /\ r.status = I2c!StatusOf(i)
  BY <1>1, <1>2 DEF I2cStates, I2c!I2cState, I2c!ENABLED_BIT, I2c!BUSY_BIT, I2c!NACK_BIT
<1>4. on = i.enabled
  BY <1>1, <1>2, <1>3 DEF I2cStates, I2c!I2cState
<1> HIDE DEF r, on
<1> DEFINE v == [r EXCEPT !.enabled = on]
<1>5. v.enabled = i.enabled /\ v.busy = i.busy /\ v.lastAck = i.lastAck
  BY <1>3, <1>4 DEF I2cStates, I2c!I2cState
<1> HIDE DEF v
<1>6. I2c!StatusOf(v) = I2c!StatusOf(i)
  BY <1>5 DEF I2c!StatusOf
<1> QED BY <1>3, <1>6 DEF I2cGood, I2cPlausible, v, on, r

LEMMA I2cUnseen ==
  ASSUME NEW i, I2cGood(i), NEW v, I2cPlausible(v),
         v.busy = i.busy, v.lastAck = i.lastAck, v.status = i.status
  PROVE  I2cGood(v)
<1> DEFINE was == "ENABLED" \in i.status
           seen == [i EXCEPT !.enabled = was]
           w == [v EXCEPT !.enabled = ("ENABLED" \in v.status)]
<1>1. /\ seen.busy = i.busy /\ seen.lastAck = i.lastAck /\ seen.enabled = was
      /\ w.busy = i.busy /\ w.lastAck = i.lastAck /\ w.enabled = was
      /\ i.status = I2c!StatusOf(seen)
  BY DEF I2cGood, I2cPlausible, I2cStates, I2c!I2cState
<1> HIDE DEF w, seen, was
<1>2. I2c!StatusOf(w) = I2c!StatusOf(seen)
  BY <1>1 DEF I2c!StatusOf
<1> QED BY <1>1, <1>2 DEF I2cGood, I2cPlausible, w

\* start() finds a device that is attached, or none.
LEMMA CalledAttached ==
  ASSUME NEW i \in I2cStates
  PROVE  I2c!Called(i) = NoDevice \/ (I2c!Called(i) \in Devices /\ I2c!Called(i) \in Range(i.devices))
<1> DEFINE answering == {j \in DOMAIN i.devices : AddressOf[i.devices[j]] = i.addr}
<1>1. i.devices \in Seq(Devices)
  BY DEF I2cStates, I2c!I2cState
<1>2. answering \in SUBSET Nat /\ answering \subseteq DOMAIN i.devices
  BY <1>1
<1>3. I2c!Called(i) = IF answering = {} THEN NoDevice ELSE i.devices[I2c!Min(answering)]
  BY DEF I2c!Called
<1> HIDE DEF answering
<1>4. answering # {} => I2c!Min(answering) \in answering
  <2>1. SUFFICES ASSUME answering # {} PROVE I2c!Min(answering) \in answering
    OBVIOUS
  <2>2. \E n \in answering : \A m \in answering : n <= m
    BY <1>2, <2>1, LeastNat
  <2> QED BY <2>2 DEF I2c!Min
<1>5. ASSUME NEW n \in DOMAIN i.devices
      PROVE  i.devices[n] \in Devices /\ i.devices[n] \in Range(i.devices)
  BY <1>1 DEF Range
<1> QED BY <1>2, <1>3, <1>4, <1>5

\* setSlaveAddress() keeps seven bits, and the addresses have no more.
LEMMA AddressKept ==
  ASSUME NEW i, I2cPlausible(i), NEW a \in BusAddresses
  PROVE  LET s == I2c!SetSlaveAddress(i, a)
         IN /\ I2cPlausible(s) /\ s.busy = i.busy /\ s.lastAck = i.lastAck
            /\ s.status = i.status /\ s.enabled = i.enabled
<1>1. a \in 0 .. 127
  BY DeviceAssumption DEF BusAddresses
<1>2. a % 128 = a
  BY <1>1
<1> QED BY <1>2 DEF I2c!SetSlaveAddress, I2cPlausible, I2cStates, I2c!I2cState

LEMMA I2cSwitched ==
  ASSUME NEW i, I2cGood(i)
  PROVE  I2cGood(I2c!Enable(i)) /\ I2cGood(I2c!Disable(i)) /\ I2cGood(I2c!Reset(i))
<1>1. i \in I2cStates /\ I2cPlausible(i)
  BY DEF I2cGood, I2cPlausible
<1>2. I2cGood(I2c!Enable(i))
  <2> DEFINE v == [i EXCEPT !.enabled = TRUE]
  <2>1. v \in I2cStates /\ v.devices = i.devices /\ v.active = i.active /\ v.busy = i.busy
    BY <1>1 DEF I2cStates, I2c!I2cState
  <2> HIDE DEF v
  <2>2. I2cPlausible(v)
    BY <1>1, <2>1 DEF I2cPlausible
  <2> QED BY <2>2, I2cRefreshed DEF I2c!Enable, v
<1>3. I2cGood(I2c!Disable(i))
  <2> DEFINE v == [i EXCEPT !.enabled = FALSE, !.busy = FALSE, !.active = NoDevice]
  <2>1. v \in I2cStates /\ v.devices = i.devices /\ v.active = NoDevice
    BY <1>1 DEF I2cStates, I2c!I2cState
  <2> HIDE DEF v
  <2>2. I2cPlausible(v)
    BY <1>1, <2>1 DEF I2cPlausible
  <2> QED BY <2>2, I2cRefreshed DEF I2c!Disable, v
<1>4. I2cGood(I2c!Reset(i))
  <2> DEFINE off == I2c!Disable(i)
             v == [off EXCEPT !.devices = <<>>, !.data = 0, !.addr = i.addr0, !.lastAck = FALSE]
  <2>1. off \in I2cStates /\ off.active = NoDevice /\ i.addr0 \in BusAddresses
    <3>1. off.active = NoDevice
      BY <1>1 DEF I2c!Disable, I2c!UpdateStatusRegister, I2cStates, I2c!I2cState
    <3> QED BY <1>1, <1>3, <3>1 DEF I2cGood, I2cStates, I2c!I2cState
  <2>2. I2c!Reset(i) = I2c!UpdateStatusRegister(v)
    BY DEF I2c!Reset
  <2>3. <<>> \in Seq(Devices) /\ 0 \in ReadableBytes /\ IsInjective(<<>>)
    BY DEF ReadableBytes, IsInjective
  <2> HIDE DEF off
  <2>4. v \in I2cStates /\ v.devices = <<>> /\ v.active = NoDevice
    BY <2>1, <2>3 DEF I2cStates, I2c!I2cState
  <2> HIDE DEF v
  <2>5. I2cPlausible(v)
    BY <2>3, <2>4 DEF I2cPlausible
  <2> QED BY <2>2, <2>5, I2cRefreshed
<1> QED BY <1>2, <1>3, <1>4

LEMMA I2cStartStop ==
  ASSUME NEW i, I2cGood(i), NEW ack \in BOOLEAN
  PROVE  I2cGood(I2c!Start(i, ack)) /\ I2cGood(I2c!Stop(i))
<1>1. i \in I2cStates /\ IsInjective(i.devices)
  BY DEF I2cGood
<1>2. I2cGood(I2c!Start(i, ack))
  <2> DEFINE acked == ack /\ I2c!Called(i) # NoDevice
             who == IF acked THEN I2c!Called(i) ELSE NoDevice
             v == [i EXCEPT !.busy = TRUE, !.lastAck = acked, !.active = who]
  <2>1. I2c!Start(i, ack) = IF ~i.enabled THEN i ELSE I2c!UpdateStatusRegister(v)
    BY DEF I2c!Start
  <2>2. who = NoDevice \/ (who \in Devices /\ who \in Range(i.devices))
    BY <1>1, CalledAttached
  <2>3. acked \in BOOLEAN
    OBVIOUS
  <2> HIDE DEF acked, who
  <2>4. v \in I2cStates /\ v.devices = i.devices /\ v.active = who /\ v.busy = TRUE
    BY <1>1, <2>2, <2>3 DEF I2cStates, I2c!I2cState
  <2> HIDE DEF v
  <2>5. I2cPlausible(v)
    BY <1>1, <2>2, <2>4 DEF I2cPlausible
  <2> QED BY <2>1, <2>5, I2cRefreshed
<1>3. I2cGood(I2c!Stop(i))
  <2> DEFINE v == [i EXCEPT !.active = NoDevice, !.busy = FALSE]
  <2>1. v \in I2cStates /\ v.devices = i.devices /\ v.active = NoDevice
    BY <1>1 DEF I2cStates, I2c!I2cState
  <2> HIDE DEF v
  <2>2. I2cPlausible(v)
    BY <1>1, <2>1 DEF I2cPlausible
  <2> QED BY <2>2, I2cRefreshed DEF I2c!Stop, v
<1> QED BY <1>2, <1>3

LEMMA I2cMoved ==
  ASSUME NEW i, I2cGood(i), NEW b \in Bytes, NEW ack \in BOOLEAN
  PROVE  I2cGood(I2c!WriteByte(i, b, ack)) /\ I2cGood(I2c!ReadByte(i, b))
<1>1. i \in I2cStates /\ I2cPlausible(i) /\ b \in ReadableBytes
  BY DEF I2cGood, I2cPlausible, ReadableBytes
<1>2. ASSUME NEW v \in I2cStates, v.devices = i.devices, v.active = i.active, v.busy = i.busy
      PROVE  I2cGood(I2c!UpdateStatusRegister(v))
  <2>1. I2cPlausible(v)
    BY <1>1, <1>2 DEF I2cPlausible
  <2> QED BY <2>1, I2cRefreshed
<1>3. I2cGood(I2c!WriteByte(i, b, ack))
  <2> DEFINE acked == ack /\ i.active # NoDevice
             v == [i EXCEPT !.lastAck = acked, !.data = b]
  <2>1. acked \in BOOLEAN
    OBVIOUS
  <2>2. I2c!WriteByte(i, b, ack) = IF ~i.enabled \/ ~i.busy THEN i ELSE I2c!UpdateStatusRegister(v)
    BY DEF I2c!WriteByte
  <2> HIDE DEF acked
  <2>3. v \in I2cStates /\ v.devices = i.devices /\ v.active = i.active /\ v.busy = i.busy
    BY <1>1, <2>1 DEF I2cStates, I2c!I2cState
  <2> HIDE DEF v
  <2> QED BY <2>2, <2>3, <1>2
<1>4. I2cGood(I2c!ReadByte(i, b))
  <2> DEFINE v == [i EXCEPT !.data = b]
  <2>1. v \in I2cStates /\ v.devices = i.devices /\ v.active = i.active /\ v.busy = i.busy
    BY <1>1 DEF I2cStates, I2c!I2cState
  <2>2. I2c!ReadByte(i, b) = IF ~I2c!CanRead(i) THEN i ELSE I2c!UpdateStatusRegister(v)
    BY DEF I2c!ReadByte
  <2> HIDE DEF v
  <2> QED BY <2>1, <2>2, <1>2
<1> QED BY <1>3, <1>4

LEMMA I2cTransactions ==
  ASSUME NEW i, I2cGood(i), NEW a \in BusAddresses, NEW ack \in BOOLEAN,
         NEW answers \in Seq(Bytes)
  PROVE  /\ I2cGood(I2c!BeginTransmission(i, a, ack)) /\ I2cGood(I2c!EndTransmission(i))
         /\ I2cGood(I2c!RequestFrom(i, a, ack, answers))
         /\ I2c!Requested(i, a, ack, answers) \in Seq(Bytes)
<1> DEFINE s == I2c!SetSlaveAddress(i, a)
           t == I2c!BeginTransmission(i, a, ack)
           got == I2c!Requested(i, a, ack, answers)
<1>1. I2cPlausible(i)
  BY DEF I2cGood, I2cPlausible
<1>2. I2cGood(s)
  <2>1. I2cPlausible(s) /\ s.busy = i.busy /\ s.lastAck = i.lastAck /\ s.status = i.status
    BY <1>1, AddressKept
  <2> HIDE DEF s
  <2> QED BY <2>1, I2cUnseen
<1>3. I2cGood(t)
  <2>1. t = I2c!Start(s, ack)
    BY DEF I2c!BeginTransmission
  <2> HIDE DEF s, t
  <2> QED BY <1>2, <2>1, I2cStartStop
<1>4. I2cGood(I2c!EndTransmission(i))
  BY I2cStartStop DEF I2c!EndTransmission
<1>5. got \in Seq(Bytes)
  BY DEF I2c!Requested
<1>6. I2c!RequestFrom(i, a, ack, answers) =
        IF ~i.enabled THEN t ELSE I2c!Stop(IF got = <<>> THEN t ELSE I2c!ReadByte(t, I2c!Last(got)))
  BY DEF I2c!RequestFrom
<1> HIDE DEF s, t, got
<1>7. got # <<>> => I2c!Last(got) \in Bytes
  BY <1>5 DEF I2c!Last
<1>8. got # <<>> => I2cGood(I2c!ReadByte(t, I2c!Last(got)))
  BY <1>3, <1>7, I2cMoved
<1>9. I2cGood(I2c!RequestFrom(i, a, ack, answers))
  BY <1>3, <1>6, <1>8, I2cStartStop
<1> QED BY <1>3, <1>4, <1>5, <1>9 DEF t, got

\* attachDevice() refuses a device that is there, so that detachDevice(), which
\* erases one entry, leaves no second one behind.
LEMMA I2cDevices ==
  ASSUME NEW i, I2cGood(i), NEW d \in Devices
  PROVE  I2cGood(I2c!AttachDevice(i, d)) /\ I2cGood(I2c!DetachDevice(i, d))
<1>1. /\ i \in I2cStates /\ I2cPlausible(i) /\ i.devices \in Seq(Devices)
      /\ IsInjective(i.devices)
      /\ i.active # NoDevice => i.busy /\ i.active \in Range(i.devices)
  BY DEF I2cGood, I2cPlausible, I2cStates, I2c!I2cState
<1>2. d # NoDevice
  BY DeviceAssumption
<1>3. I2cGood(I2c!AttachDevice(i, d))
  <2>1. CASE I2c!Contains(i.devices, d)
    BY <2>1 DEF I2c!AttachDevice
  <2>2. CASE ~I2c!Contains(i.devices, d)
    <3> DEFINE v == [i EXCEPT !.devices = Append(@, d)]
    <3>1. d \notin Range(i.devices)
      BY <2>2, <1>1, QueueByIndex DEF I2c!Contains
    <3>2. /\ Append(i.devices, d) \in Seq(Devices) /\ IsInjective(Append(i.devices, d))
          /\ Range(Append(i.devices, d)) = Range(i.devices) \cup {d}
      BY <3>1, <1>1, AppendFresh
    <3>3. /\ v \in I2cStates /\ v.devices = Append(i.devices, d) /\ v.active = i.active
          /\ v.busy = i.busy /\ v.lastAck = i.lastAck /\ v.status = i.status
      BY <1>1, <3>2 DEF I2cStates, I2c!I2cState
    <3>4. I2c!AttachDevice(i, d) = v
      BY <2>2 DEF I2c!AttachDevice
    <3> HIDE DEF v
    <3>5. I2cPlausible(v)
      BY <1>1, <3>2, <3>3 DEF I2cPlausible
    <3> QED BY <3>3, <3>4, <3>5, I2cUnseen
  <2> QED BY <2>1, <2>2
<1>4. I2cGood(I2c!DetachDevice(i, d))
  <2> DEFINE left == RemoveFirst(i.devices, d)
             who == IF i.active = d THEN NoDevice ELSE i.active
             v == [i EXCEPT !.devices = left, !.active = who]
  <2>1. left \in Seq(Devices) /\ IsInjective(left) /\ Range(left) = Range(i.devices) \ {d}
    BY <1>1, RemoveFirstOnce
  <2>2. I2c!RemoveFirst(i.devices, d) = left
    BY DEF I2c!RemoveFirst, RemoveFirst, I2c!SelectInSeq, SelectInSeq, I2c!RemoveAt, RemoveAt,
           I2c!Min, Min
  <2>3. I2c!DetachDevice(i, d) = v
    BY <2>2 DEF I2c!DetachDevice
  <2>4. /\ who \in Devices \cup {NoDevice}
        /\ who # NoDevice => i.busy /\ who \in Range(i.devices) \ {d}
    BY <1>1 DEF I2cStates, I2c!I2cState
  <2> HIDE DEF left, who
  <2>5. /\ v \in I2cStates /\ v.devices = left /\ v.active = who
        /\ v.busy = i.busy /\ v.lastAck = i.lastAck /\ v.status = i.status
    BY <1>1, <2>1, <2>4 DEF I2cStates, I2c!I2cState
  <2> HIDE DEF v
  <2>6. I2cPlausible(v)
    BY <2>1, <2>4, <2>5 DEF I2cPlausible
  <2> QED BY <2>3, <2>5, <2>6, I2cUnseen
<1> QED BY <1>3, <1>4

LEMMA I2cStored ==
  ASSUME NEW i, I2cGood(i), NEW on \in BOOLEAN PROVE I2cGood([i EXCEPT !.enabled = on])
<1> DEFINE v == [i EXCEPT !.enabled = on]
<1>1. /\ v \in I2cStates /\ v.devices = i.devices /\ v.active = i.active
      /\ v.busy = i.busy /\ v.lastAck = i.lastAck /\ v.status = i.status
  BY DEF I2cGood, I2cStates, I2c!I2cState
<1> HIDE DEF v
<1>2. I2cPlausible(v)
  BY <1>1 DEF I2cGood, I2cPlausible
<1>3. I2cGood(v)
  BY <1>1, <1>2, I2cUnseen
<1> QED BY <1>3 DEF v

LEMMA I2cFresh == I2cGood(FreshI2c)
<1> DEFINE i == FreshI2c
<1>1. (CHOOSE a \in BusAddresses : TRUE) \in BusAddresses
  BY DeviceAssumption DEF BusAddresses
<1>2. <<>> \in Seq(Devices) /\ 0 \in ReadableBytes /\ IsInjective(<<>>)
  BY DEF ReadableBytes, IsInjective
<1>3. /\ i \in I2cStates /\ i.devices = <<>> /\ i.active = NoDevice /\ i.status = {}
      /\ i.busy = FALSE /\ i.enabled = FALSE
  BY <1>1, <1>2 DEF FreshI2c, I2c!NewI2C, I2cStates, I2c!I2cState
<1> HIDE DEF i
<1> DEFINE w == [i EXCEPT !.enabled = ("ENABLED" \in i.status)]
<1>4. w.busy = FALSE /\ w.enabled = FALSE
  BY <1>3 DEF I2cStates, I2c!I2cState
<1> HIDE DEF w
<1>5. I2c!StatusOf(w) = {}
  BY <1>4 DEF I2c!StatusOf
<1> QED BY <1>2, <1>3, <1>5 DEF I2cGood, w, i

LEMMA I2cTruthful ==
  ASSUME NEW i, I2cGood(i) PROVE Truthful(i, I2c!StatusOf(i))
<1>1. SUFFICES ASSUME i.enabled <=> "ENABLED" \in i.status PROVE i.status = I2c!StatusOf(i)
  BY DEF Truthful
<1>2. [i EXCEPT !.enabled = ("ENABLED" \in i.status)] = i
  BY <1>1 DEF I2cGood, I2cStates, I2c!I2cState
<1> QED BY <1>2 DEF I2cGood

-----------------------------------------------------------------------------
(***************************************************************************)
(* The converter.                                                          *)
(***************************************************************************)
AdcStates == Adc!AdcState(Channels, Volts, Volts \ {0})

AdcGood(a) ==
  /\ a \in AdcStates
  /\ a.status = Adc!StatusOf([a EXCEPT !.enabled = ("ENABLED" \in a.status)])

LEMMA FullScale ==
  ASSUME NEW res \in Adc!Resolutions, NEW max, max = Adc!MaxDigital(res)
  PROVE  max \in Nat /\ max <= 4095
<1>1. 2^8 - 1 = 255 /\ 2^10 - 1 = 1023 /\ 2^12 - 1 = 4095
  OBVIOUS
<1>2. res = 8 \/ res = 10 \/ res = 12
  BY DEF Adc!Resolutions
<1>3. Adc!MaxDigital(8) = 255 /\ Adc!MaxDigital(10) = 1023 /\ Adc!MaxDigital(12) = 4095
  BY <1>1 DEF Adc!MaxDigital
<1>4. max = 255 \/ max = 1023 \/ max = 4095
  BY <1>2, <1>3
<1> QED BY <1>4

LEMMA DivisionBounds ==
  ASSUME NEW x \in Nat, NEW w \in Nat \ {0}
  PROVE  x \div w \in Nat /\ w * (x \div w) <= x /\ x < w * (x \div w) + w
OBVIOUS

Rounded(v, max, ref) == (2 * v * max + ref) \div (2 * ref)

Nearest(code, v, max, ref) ==
  -ref <= 2 * (code * ref - v * max) /\ 2 * (code * ref - v * max) <= ref

\* Rounded division, and how far the quotient can be off.
LEMMA RoundedQuotient ==
  ASSUME NEW v \in Nat, NEW ref \in Nat \ {0}, NEW max \in Nat, v < ref,
         NEW code, code = Rounded(v, max, ref)
  PROVE  code \in Nat /\ code <= max /\ Nearest(code, v, max, ref)
<1> DEFINE x == 2 * v * max + ref
           w == 2 * ref
           q == x \div w
           p == v * max
           y == ref * max
<1>1. p \in Nat /\ y \in Nat /\ 2 * v * max = 2 * p
  OBVIOUS
<1>2. x \in Nat /\ w \in Nat \ {0} /\ x = 2 * p + ref /\ w = 2 * ref
  BY <1>1
<1>3. q \in Nat /\ w * q <= x /\ x < w * q + w
  <2>1. x \in Nat /\ w \in Nat \ {0}
    BY <1>2
  <2> HIDE DEF x, w
  <2> QED BY <2>1, DivisionBounds
<1>4. p + max <= y
  <2>1. v + 1 <= ref
    OBVIOUS
  <2>2. (v + 1) * max <= ref * max
    BY <2>1
  <2> QED BY <2>2
<1>5. w * q = 2 * (q * ref) /\ q * ref \in Nat
  BY <1>3
<1>6. q <= max
  <2>1. SUFFICES ASSUME q >= max + 1 PROVE FALSE
    BY <1>3
  <2>2. q * ref >= (max + 1) * ref
    <3> HIDE DEF q
    <3> QED BY <2>1, <1>3
  <2>3. (max + 1) * ref = y + ref
    OBVIOUS
  <2> HIDE DEF q, x, w, p, y
  <2> QED BY <2>2, <2>3, <1>1, <1>2, <1>3, <1>4, <1>5
<1>7. -ref <= 2 * (q * ref - p) /\ 2 * (q * ref - p) <= ref
  <2> HIDE DEF q, x, w, p, y
  <2> QED BY <1>1, <1>2, <1>3, <1>5
<1> HIDE DEF q
<1>8. code = q
  BY DEF q, x, w, Rounded
<1> QED BY <1>3, <1>6, <1>7, <1>8 DEF p, Nearest

\* The three cases of a conversion.
LEMMA ConvertCases ==
  ASSUME NEW v \in Nat, NEW ref \in Nat \ {0}, NEW res \in Adc!Resolutions,
         NEW max, max = Adc!MaxDigital(res), NEW code, code = Adc!Convert(v, ref, res)
  PROVE  \/ v = 0 /\ code = 0
         \/ v >= ref /\ code = max
         \/ v < ref /\ code = Rounded(v, max, ref)
<1>1. code = IF v <= 0 THEN 0 ELSE IF v >= ref THEN max ELSE Rounded(v, max, ref)
  BY DEF Adc!Convert, Rounded
<1> QED BY <1>1

\* The code fits the register, whatever the resolution, and is the nearest one.
LEMMA ConvertNearest ==
  ASSUME NEW v \in Nat, NEW ref \in Nat \ {0}, NEW res \in Adc!Resolutions,
         NEW max, max = Adc!MaxDigital(res), NEW code, code = Adc!Convert(v, ref, res)
  PROVE  /\ code \in Nat /\ code <= 4095
         /\ v >= ref => code = max
         /\ v < ref => Nearest(code, v, max, ref)
<1>1. max \in Nat /\ max <= 4095
  BY FullScale
<1>2. CASE v = 0 /\ code = 0
  <2>1. code * ref = 0 /\ v * max = 0
    BY <1>1, <1>2
  <2> QED BY <1>2, <2>1 DEF Nearest
<1>3. CASE v >= ref /\ code = max
  BY <1>1, <1>3
<1>4. CASE v < ref /\ code = Rounded(v, max, ref)
  <2>1. code \in Nat /\ code <= max /\ Nearest(code, v, max, ref)
    BY <1>1, <1>4, RoundedQuotient
  <2> QED BY <1>1, <1>4, <2>1
<1> QED BY <1>2, <1>3, <1>4, ConvertCases

LEMMA ConvertInRange ==
  ASSUME NEW v \in Nat, NEW ref \in Nat \ {0}, NEW res \in Adc!Resolutions,
         NEW code, code = Adc!Convert(v, ref, res)
  PROVE  code \in Nat /\ code <= 4095
<1> DEFINE max == Adc!MaxDigital(res)
<1> HIDE DEF max
<1> QED BY ConvertNearest DEF max

LEMMA AdcRefreshed ==
  ASSUME NEW a \in AdcStates PROVE AdcGood(Adc!UpdateStatusRegister(a))
<1> DEFINE r == Adc!UpdateStatusRegister(a)
           w == [r EXCEPT !.enabled = ("ENABLED" \in r.status)]
<1>1. /\ Adc!StatusOf(a) \in SUBSET {"ENABLED", "COMPLETE"}
      /\ "ENABLED" \in Adc!StatusOf(a) <=> a.enabled
  BY DEF Adc!StatusOf, Adc!ENABLED_BIT, Adc!COMPLETE_BIT
<1>2. r \in AdcStates /\ r.status = Adc!StatusOf(a)
  BY <1>1 DEF Adc!UpdateStatusRegister, AdcStates, Adc!AdcState, Adc!ENABLED_BIT, Adc!COMPLETE_BIT
<1> HIDE DEF r
<1>3. w.enabled <=> a.enabled
  BY <1>1, <1>2 DEF AdcStates, Adc!AdcState
<1> HIDE DEF w
<1>4. Adc!StatusOf(w) = Adc!StatusOf(a)
  BY <1>3 DEF Adc!StatusOf
<1> QED BY <1>2, <1>4 DEF AdcGood, w, r

LEMMA AdcUnseen ==
  ASSUME NEW a, AdcGood(a), NEW v \in AdcStates, v.status = a.status
  PROVE  AdcGood(v)
<1> DEFINE seen == [a EXCEPT !.enabled = ("ENABLED" \in a.status)]
           w == [v EXCEPT !.enabled = ("ENABLED" \in v.status)]
<1>1. seen.enabled = w.enabled /\ a.status = Adc!StatusOf(seen)
  BY DEF AdcGood, AdcStates, Adc!AdcState
<1> HIDE DEF w, seen
<1>2. Adc!StatusOf(w) = Adc!StatusOf(seen)
  BY <1>1 DEF Adc!StatusOf
<1> QED BY <1>1, <1>2 DEF AdcGood, w

LEMMA AdcSwitched ==
  ASSUME NEW a, AdcGood(a)
  PROVE  /\ AdcGood(Adc!Enable(a)) /\ AdcGood(Adc!Disable(a))
         /\ AdcGood(Adc!Reset(a, DefaultVref))
<1>1. a \in AdcStates /\ \A on \in BOOLEAN : [a EXCEPT !.enabled = on] \in AdcStates
  BY DEF AdcGood, AdcStates, Adc!AdcState
<1>2. AdcGood(Adc!Enable(a)) /\ AdcGood(Adc!Disable(a))
  BY <1>1, AdcRefreshed DEF Adc!Enable, Adc!Disable
<1> DEFINE v == [a EXCEPT !.enabled = FALSE, !.res = 12, !.vref = DefaultVref,
                          !.input = [c \in DOMAIN a.input |-> 0], !.last = 0]
<1>3. 12 \in Adc!Resolutions /\ DefaultVref \in Volts \ {0} /\ 0 \in Volts /\ 0 \in 0 .. 2^12 - 1
  BY AdcAssumption DEF Adc!Resolutions
<1>4. [c \in DOMAIN a.input |-> 0] \in [Channels -> Volts]
  BY <1>1, <1>3 DEF AdcStates, Adc!AdcState
<1>5. v \in AdcStates
  BY <1>1, <1>3, <1>4 DEF AdcStates, Adc!AdcState
<1> HIDE DEF v
<1>6. AdcGood(Adc!Reset(a, DefaultVref))
  BY <1>5, AdcRefreshed DEF Adc!Reset, v
<1> QED BY <1>2, <1>6

LEMMA AdcSampled ==
  ASSUME NEW a, AdcGood(a), NEW c \in Channels PROVE AdcGood(Adc!Sample(a, c))
<1>1. /\ a \in AdcStates /\ a.input[c] \in Nat /\ a.vref \in Nat \ {0}
      /\ a.res \in Adc!Resolutions
  BY AdcAssumption DEF AdcGood, AdcStates, Adc!AdcState
<1> DEFINE code == Adc!Convert(a.input[c], a.vref, a.res)
           v == [a EXCEPT !.last = code]
<1>2. code \in 0 .. 2^12 - 1
  <2> DEFINE x == a.input[c]
             ref == a.vref
             res == a.res
  <2>1. x \in Nat /\ ref \in Nat \ {0} /\ res \in Adc!Resolutions
    BY <1>1
  <2>2. code = Adc!Convert(x, ref, res)
    OBVIOUS
  <2> HIDE DEF x, ref, res, code
  <2>3. code \in Nat /\ code <= 4095
    BY <2>1, <2>2, ConvertInRange
  <2>4. 4095 = 2^12 - 1
    OBVIOUS
  <2> QED BY <2>3, <2>4
<1> HIDE DEF code
<1>3. v \in AdcStates
  BY <1>1, <1>2 DEF AdcStates, Adc!AdcState
<1>4. Adc!Sample(a, c) \in {a, Adc!UpdateStatusRegister(v)}
  BY DEF Adc!Sample, code
<1> HIDE DEF v
<1> QED BY <1>3, <1>4, AdcRefreshed

\* A store to CONTROL and the settings: STATUS is left alone.
LEMMA AdcStored ==
  ASSUME NEW a, AdcGood(a), NEW on \in BOOLEAN, NEW bits,
         NEW v \in {[a EXCEPT !.enabled = on], Adc!SetResolution(a, bits)}
  PROVE  AdcGood(v)
<1>1. a \in AdcStates
  BY DEF AdcGood
<1>2. v \in AdcStates /\ v.status = a.status
  <2>1. CASE v = [a EXCEPT !.enabled = on]
    BY <1>1, <2>1 DEF AdcStates, Adc!AdcState
  <2>2. CASE v = Adc!SetResolution(a, bits)
    BY <1>1, <2>2 DEF AdcStates, Adc!AdcState, Adc!SetResolution
  <2> QED BY <2>1, <2>2
<1> QED BY <1>2, AdcUnseen

LEMMA AdcSet ==
  ASSUME NEW a, AdcGood(a), NEW x \in Volts, NEW c,
         NEW v \in {Adc!SetReferenceVoltage(a, x), Adc!SetAnalogInput(a, c, x)}
  PROVE  AdcGood(v)
<1>1. a \in AdcStates /\ x \in Nat
  BY AdcAssumption DEF AdcGood
<1>2. v \in AdcStates /\ v.status = a.status
  <2>1. CASE v = Adc!SetReferenceVoltage(a, x)
    <3>1. CASE x = 0
      BY <1>1, <2>1, <3>1 DEF Adc!SetReferenceVoltage
    <3>2. CASE x # 0
      <4>1. x \in Volts \ {0} /\ v = [a EXCEPT !.vref = x]
        BY <1>1, <2>1, <3>2 DEF Adc!SetReferenceVoltage
      <4> QED BY <1>1, <4>1, SMTT(30) DEF AdcStates, Adc!AdcState
    <3> QED BY <3>1, <3>2
  <2>2. CASE v = Adc!SetAnalogInput(a, c, x)
    BY <1>1, <2>2 DEF AdcStates, Adc!AdcState, Adc!SetAnalogInput
  <2> QED BY <2>1, <2>2
<1> QED BY <1>2, AdcUnseen

LEMMA AdcFresh == AdcGood(FreshAdc)
<1> DEFINE a == FreshAdc
<1>1. 10 \in Adc!Resolutions /\ DefaultVref \in Volts \ {0} /\ 0 \in Volts /\ 0 \in 0 .. 2^12 - 1
  BY AdcAssumption DEF Adc!Resolutions
<1>2. a \in AdcStates /\ a.status = {} /\ a.enabled = FALSE
  BY <1>1 DEF FreshAdc, Adc!NewADC, AdcStates, Adc!AdcState
<1> HIDE DEF a
<1> DEFINE w == [a EXCEPT !.enabled = ("ENABLED" \in a.status)]
<1>3. w.enabled = FALSE
  BY <1>2 DEF AdcStates, Adc!AdcState
<1> HIDE DEF w
<1>4. Adc!StatusOf(w) = {}
  BY <1>3 DEF Adc!StatusOf
<1> QED BY <1>2, <1>4 DEF AdcGood, w, a

LEMMA AdcTruthful ==
  ASSUME NEW a, AdcGood(a) PROVE Truthful(a, Adc!StatusOf(a))
<1>1. SUFFICES ASSUME a.enabled <=> "ENABLED" \in a.status PROVE a.status = Adc!StatusOf(a)
  BY DEF Truthful
<1>2. [a EXCEPT !.enabled = ("ENABLED" \in a.status)] = a
  BY <1>1 DEF AdcGood, AdcStates, Adc!AdcState
<1> QED BY <1>2 DEF AdcGood

-----------------------------------------------------------------------------
(***************************************************************************)
(* The pulse width modulator.  Its timer is attached to nothing, so the    *)
(* timer's calls change the timer alone.                                   *)
(***************************************************************************)
OwnTimer(tm) == tm \in Pwm!TimerState /\ ~tm.attached

LEMMA NoEvent ==
  ASSUME NEW tm, OwnTimer(tm)
  PROVE  /\ Pwm!CancelScheduledEvent(Pwm!Unattached(tm)) = Pwm!Unattached(tm)
         /\ Pwm!UpdateScheduledEvent(Pwm!Unattached(tm), 0, 0) = Pwm!Unattached(tm)
         /\ Pwm!SyncLast(tm, 0) = tm
         /\ Pwm!Unattached(tm).timer = tm
<1> DEFINE m == Pwm!Unattached(tm)
<1>1. m.timer = tm /\ ~tm.attached
  BY DEF Pwm!Unattached, OwnTimer
<1> HIDE DEF m
<1>2. Pwm!CancelScheduledEvent(m) = m
  BY <1>1 DEF Pwm!CancelScheduledEvent
<1>3. Pwm!UpdateScheduledEvent(m, 0, 0) = m
  BY <1>1, <1>2 DEF Pwm!UpdateScheduledEvent
<1>4. Pwm!SyncLast(tm, 0) = tm
  BY <1>1 DEF Pwm!SyncLast
<1> QED BY <1>1, <1>2, <1>3, <1>4 DEF m

\* Changing one register of the timer of the pair.
LEMMA TimerPart ==
  ASSUME NEW tm, NEW new
  PROVE  [Pwm!Unattached(tm) EXCEPT !.timer = new] = Pwm!Unattached(new)
BY DEF Pwm!Unattached

LEMMA TimerCalls ==
  ASSUME NEW tm, OwnTimer(tm), NEW v \in Pwm!Counts
  PROVE  /\ Pwm!SetCompare(Pwm!Unattached(tm), 0, 0, v) = Pwm!Unattached([tm EXCEPT !.compare = v])
         /\ Pwm!TimerStart(Pwm!Unattached(tm), 0, 0)
              = Pwm!Unattached([tm EXCEPT !.ctrl = tm.ctrl \cup {"ENABLE"}])
         /\ Pwm!TimerStop(Pwm!Unattached(tm))
              = Pwm!Unattached([tm EXCEPT !.ctrl = tm.ctrl \ {"ENABLE"}])
<1> DEFINE set == [tm EXCEPT !.compare = v]
           on == [tm EXCEPT !.ctrl = tm.ctrl \cup {"ENABLE"}]
           off == [tm EXCEPT !.ctrl = tm.ctrl \ {"ENABLE"}]
           m == Pwm!Unattached(tm)
<1>1. OwnTimer(set) /\ OwnTimer(on) /\ OwnTimer(off)
  BY DEF OwnTimer, Pwm!TimerState, Pwm!CtrlBits, Pwm!ENABLE, Pwm!INT_ENABLE, Pwm!AUTO_RESET
<1>2. /\ [m EXCEPT !.timer.compare = v] = Pwm!Unattached(set)
      /\ [m EXCEPT !.timer.ctrl = @ \ {"ENABLE"}] = Pwm!Unattached(off)
      /\ [m EXCEPT !.timer = on] = Pwm!Unattached(on)
      /\ m.timer = tm
  <2>1. tm \in Pwm!TimerState
    BY DEF OwnTimer
  <2>2. [m EXCEPT !.timer.compare = v] = Pwm!Unattached(set)
    BY <2>1 DEF Pwm!Unattached, Pwm!TimerState
  <2>3. [m EXCEPT !.timer.ctrl = @ \ {"ENABLE"}] = Pwm!Unattached(off)
    BY <2>1 DEF Pwm!Unattached, Pwm!TimerState
  <2>4. [m EXCEPT !.timer = on] = Pwm!Unattached(on) /\ m.timer = tm
    <3> HIDE DEF on
    <3> QED BY DEF Pwm!Unattached
  <2> QED BY <2>2, <2>3, <2>4
<1> HIDE DEF set, on, off, m
<1>3. Pwm!SetCompare(m, 0, 0, v) = Pwm!Unattached(set)
  BY <1>1, <1>2, NoEvent DEF Pwm!SetCompare
<1>4. Pwm!TimerStop(m) = Pwm!Unattached(off)
  BY <1>1, <1>2, NoEvent DEF Pwm!TimerStop, Pwm!ENABLE
<1>5. Pwm!TimerStart(m, 0, 0) = Pwm!Unattached(on)
  <2>1. [m.timer EXCEPT !.ctrl = @ \cup {"ENABLE"}] = on
    BY <1>2 DEF on
  <2>2. Pwm!TimerStart(m, 0, 0) =
          Pwm!UpdateScheduledEvent([m EXCEPT !.timer = Pwm!SyncLast(on, 0)], 0, 0)
    BY <2>1 DEF Pwm!TimerStart, Pwm!ENABLE
  <2> QED BY <1>1, <1>2, <2>2, NoEvent
<1> QED BY <1>3, <1>4, <1>5 DEF set, on, off, m

\* The types of the results.
LEMMA TimerTypes ==
  ASSUME NEW tm, OwnTimer(tm), NEW v \in Pwm!Counts, NEW bits \in SUBSET Pwm!CtrlBits
  PROVE  /\ OwnTimer([tm EXCEPT !.compare = v]) /\ [tm EXCEPT !.compare = v].compare = v
         /\ OwnTimer([tm EXCEPT !.ctrl = bits]) /\ [tm EXCEPT !.ctrl = bits].compare = tm.compare
BY DEF OwnTimer, Pwm!TimerState

LEMMA TimerResets ==
  ASSUME NEW tm, OwnTimer(tm)
  PROVE  LET r == Pwm!TimerReset(Pwm!Unattached(tm), 0).timer
         IN OwnTimer(r) /\ r.compare = tm.compare
<1> DEFINE bits == tm.ctrl \ {"ENABLE"}
           off == [tm EXCEPT !.ctrl = bits]
           clear == [off EXCEPT !.ctrl = {}, !.count = 0, !.match = FALSE]
           s == Pwm!Unattached(off)
<1>1. 0 \in Pwm!Counts
  BY PwmAssumption DEF Pwm!Counts
<1>2. bits \in SUBSET Pwm!CtrlBits
  BY DEF OwnTimer, Pwm!TimerState
<1>3. Pwm!TimerStop(Pwm!Unattached(tm)) = s
  BY <1>1, TimerCalls
<1>4. OwnTimer(off) /\ off.compare = tm.compare
  BY <1>1, <1>2, TimerTypes
<1>5. s.timer = off
  BY DEF Pwm!Unattached
<1> HIDE DEF bits, off
<1>6. OwnTimer(clear) /\ clear.compare = tm.compare
  BY <1>1, <1>4 DEF OwnTimer, Pwm!TimerState
<1>7. Pwm!TimerReset(Pwm!Unattached(tm), 0) = [s EXCEPT !.timer = Pwm!SyncLast(clear, 0)]
  BY <1>3, <1>5 DEF Pwm!TimerReset
<1>8. Pwm!SyncLast(clear, 0) = clear
  BY <1>6, NoEvent
<1> HIDE DEF clear
<1>9. [s EXCEPT !.timer = clear].timer = clear
  BY DEF Pwm!Unattached
<1> QED BY <1>6, <1>7, <1>8, <1>9

LEMMA TimerTicks ==
  ASSUME NEW tm, OwnTimer(tm)
  PROVE  LET r == Pwm!TimerTick(Pwm!Unattached(tm), 0).timer
         IN OwnTimer(r) /\ r.compare = tm.compare
<1> DEFINE n == Pwm!Counted(tm, 0)
           m == Pwm!Unattached(tm)
           c == Pwm!Unattached(n)
<1>1. CountRange \in Nat \ {0} /\ Pwm!Counts = 0 .. CountRange - 1
  BY PwmAssumption DEF Pwm!Counts
<1>2. OwnTimer(n) /\ n.compare = tm.compare
  <2>1. (tm.count + 1) % CountRange \in Pwm!Counts
    BY <1>1 DEF OwnTimer, Pwm!TimerState
  <2> DEFINE up == [tm EXCEPT !.count = (tm.count + 1) % CountRange]
  <2>2. OwnTimer(up) /\ up.compare = tm.compare
    BY <2>1 DEF OwnTimer, Pwm!TimerState
  <2>3. Pwm!Elapsed(tm, 0) = 1
    BY DEF Pwm!Elapsed, OwnTimer
  <2>4. n = IF Pwm!TimerRunning(tm) THEN Pwm!SyncLast(up, 0) ELSE Pwm!SyncLast(tm, 0)
    BY <2>3 DEF Pwm!Counted
  <2> HIDE DEF up, n
  <2>5. Pwm!SyncLast(up, 0) = up /\ Pwm!SyncLast(tm, 0) = tm
    BY <2>2, NoEvent
  <2> QED BY <2>2, <2>4, <2>5
<1>3. [m EXCEPT !.timer = Pwm!Counted(@, 0)] = c /\ m.timer = tm /\ c.timer = n
  BY DEF Pwm!Unattached
<1>4. Pwm!TimerTick(m, 0) = c \/ Pwm!TimerTick(m, 0) = Pwm!HandleCompareMatch(c)
  BY <1>3 DEF Pwm!TimerTick
<1>5. OwnTimer(Pwm!HandleCompareMatch(c).timer) /\ Pwm!HandleCompareMatch(c).timer.compare = tm.compare
  <2> DEFINE hit == [n EXCEPT !.count = n.compare, !.match = TRUE]
             bits == hit.ctrl \ {"ENABLE"}
             off == [hit EXCEPT !.ctrl = bits]
  <2>1. OwnTimer(hit) /\ hit.compare = tm.compare /\ bits \in SUBSET Pwm!CtrlBits
    <3> HIDE DEF n
    <3> QED BY <1>2 DEF OwnTimer, Pwm!TimerState
  <2>2. [c EXCEPT !.timer.count = c.timer.compare, !.timer.match = TRUE] = Pwm!Unattached(hit)
    <3> HIDE DEF n
    <3>1. n \in Pwm!TimerState
      BY <1>2 DEF OwnTimer
    <3> DEFINE x == n.compare
               at == [n EXCEPT !.count = x]
    <3>2. at \in Pwm!TimerState /\ hit = [at EXCEPT !.match = TRUE]
      BY <3>1 DEF Pwm!TimerState
    <3>3. c.timer.compare = x
      BY DEF Pwm!Unattached
    <3> HIDE DEF x, hit
    <3>4. [c EXCEPT !.timer.count = x] = Pwm!Unattached(at)
      BY <3>1 DEF Pwm!Unattached, Pwm!TimerState
    <3> HIDE DEF at
    <3>5. [Pwm!Unattached(at) EXCEPT !.timer.match = TRUE] = Pwm!Unattached([at EXCEPT !.match = TRUE])
      <4> DEFINE yes == TRUE
                 u == Pwm!Unattached(at)
      <4>1. DOMAIN u = {"timer", "sched"} /\ u.timer = at
        BY DEF Pwm!Unattached
      <4> HIDE DEF yes, u
      <4>2. [u EXCEPT !.timer.match = yes] = [u EXCEPT !.timer = [at EXCEPT !.match = yes]]
        BY <4>1
      <4>3. [u EXCEPT !.timer = [at EXCEPT !.match = yes]] = Pwm!Unattached([at EXCEPT !.match = yes])
        BY TimerPart DEF u
      <4> QED BY <4>2, <4>3 DEF yes, u
    <3> HIDE DEF c
    <3>6. [c EXCEPT !.timer.count = x, !.timer.match = TRUE]
            = [[c EXCEPT !.timer.count = x] EXCEPT !.timer.match = TRUE]
      OBVIOUS
    <3> QED BY <3>2, <3>3, <3>4, <3>5, <3>6
  <2>3. Pwm!HandleCompareMatch(c) = IF Pwm!TimerRunning(c.timer)
                                    THEN Pwm!TimerStop(Pwm!Unattached(hit)) ELSE c
    <3> HIDE DEF n, c, hit
    <3> QED BY <2>2 DEF Pwm!HandleCompareMatch
  <2> HIDE DEF hit, n
  <2>4. 0 \in Pwm!Counts
    BY <1>1
  <2>5. Pwm!TimerStop(Pwm!Unattached(hit)) = Pwm!Unattached(off)
    BY <2>1, <2>4, TimerCalls
  <2>6. OwnTimer(off) /\ off.compare = tm.compare
    BY <2>1, <2>4, TimerTypes
  <2> HIDE DEF off
  <2>7. Pwm!Unattached(off).timer = off
    BY DEF Pwm!Unattached
  <2> QED BY <1>2, <1>3, <2>3, <2>5, <2>6, <2>7
<1> HIDE DEF n, m, c
<1> QED BY <1>2, <1>3, <1>4, <1>5 DEF m

PwmStates == Pwm!PwmState(Freqs, 0 .. 100)

PwmPlausible(p) ==
  /\ p \in PwmStates /\ ~p.tm.attached
  /\ p.period = Pwm!PeriodOf(p.freq) /\ p.on = Pwm!OnTicksOf(p.freq, p.duty)

PwmGood(p) ==
  /\ PwmPlausible(p)
  /\ p.status = Pwm!StatusOf([p EXCEPT !.enabled = ("ENABLED" \in p.status)])

Armed(p) == p.enabled => p.tm.compare = p.period

LEMMA PeriodRange ==
  ASSUME NEW f \in Freqs, NEW d \in 0 .. 100
  PROVE  /\ Pwm!PeriodOf(f) \in 1 .. SystemClockHz /\ Pwm!PeriodOf(f) \in Pwm!Counts
         /\ Pwm!OnTicksOf(f, d) \in 0 .. SystemClockHz
<1>1. SystemClockHz \in Nat \ {0} /\ CountRange \in Nat /\ SystemClockHz < CountRange /\ f \in 1 .. SystemClockHz
  BY PwmAssumption DEF Freqs
<1>2. Pwm!PeriodOf(f) \in 1 .. SystemClockHz
  BY <1>1 DEF Pwm!PeriodOf
<1>3. Pwm!PeriodOf(f) \in Pwm!Counts
  BY <1>1, <1>2 DEF Pwm!Counts
<1> DEFINE t == Pwm!PeriodOf(f)
<1>4. Pwm!OnTicksOf(f, d) = (t * d) \div 100
  BY DEF Pwm!OnTicksOf
<1> HIDE DEF t
<1>5. (t * d) \div 100 \in 0 .. SystemClockHz
  BY <1>1, <1>2 DEF t
<1> QED BY <1>2, <1>3, <1>4, <1>5

LEMMA PwmFields ==
  ASSUME NEW p \in PwmStates
  PROVE  /\ p.enabled \in BOOLEAN /\ p.freq \in Freqs /\ p.freq0 \in Freqs
         /\ p.duty \in 0 .. 100 /\ p.duty0 \in 0 .. 100
         /\ p.period \in 1 .. SystemClockHz /\ p.tm \in Pwm!TimerState
         /\ p.status \in SUBSET {"ENABLED", "OUTPUT"}
BY DEF PwmStates, Pwm!PwmState, Pwm!ENABLED_BIT, Pwm!OUTPUT_BIT

\* STATUS depends on these members only.
LEMMA PwmSameStatus ==
  ASSUME NEW p, NEW q, q.enabled = p.enabled, q.duty = p.duty, q.tm = p.tm,
         q.period = p.period, q.on = p.on
  PROVE  Pwm!StatusOf(q) = Pwm!StatusOf(p)
BY DEF Pwm!StatusOf, Pwm!OutputState

LEMMA PwmRefreshed ==
  ASSUME NEW p, PwmPlausible(p)
  PROVE  LET r == Pwm!UpdateStatusRegister(p)
         IN /\ PwmGood(r) /\ r.enabled = p.enabled
            /\ r.tm = p.tm /\ r.period = p.period
<1> DEFINE r == Pwm!UpdateStatusRegister(p)
           on == "ENABLED" \in r.status
<1>1. r = [p EXCEPT !.status = Pwm!StatusOf(p)] /\ p \in PwmStates
  BY DEF Pwm!UpdateStatusRegister, PwmPlausible
<1>2. /\ Pwm!StatusOf(p) \in SUBSET {"ENABLED", "OUTPUT"}
      /\ "ENABLED" \in Pwm!StatusOf(p) <=> p.enabled
  BY DEF Pwm!StatusOf, Pwm!ENABLED_BIT, Pwm!OUTPUT_BIT
<1>3. /\ r \in PwmStates /\ r.enabled = p.enabled /\ r.duty = p.duty /\ r.tm = p.tm
      /\ r.period = p.period /\ r.on = p.on /\ r.freq = p.freq /\ r.status = Pwm!StatusOf(p)
  BY <1>1, <1>2 DEF PwmStates, Pwm!PwmState, Pwm!ENABLED_BIT, Pwm!OUTPUT_BIT
<1>4. on = p.enabled
  BY <1>1, <1>2, <1>3, PwmFields
<1> HIDE DEF r, on
<1> DEFINE v == [r EXCEPT !.enabled = on]
<1>5. /\ v.enabled = p.enabled /\ v.duty = p.duty /\ v.tm = p.tm
      /\ v.period = p.period /\ v.on = p.on
  BY <1>3, <1>4 DEF PwmStates, Pwm!PwmState
<1> HIDE DEF v
<1>6. Pwm!StatusOf(v) = Pwm!StatusOf(p)
  BY <1>5, PwmSameStatus
<1>7. PwmPlausible(r)
  BY <1>3 DEF PwmPlausible
<1> QED BY <1>3, <1>6, <1>7 DEF PwmGood, v, on, r

\* updatePeriodAndDuty() with any frequency and duty cycle.
LEMMA PwmRecomputed ==
  ASSUME NEW p \in PwmStates, ~p.tm.attached
  PROVE  LET r == Pwm!UpdatePeriodAndDuty(p)
         IN PwmPlausible(r) /\ r.enabled = p.enabled /\ Armed(r)
<1> DEFINE t == Pwm!PeriodOf(p.freq)
           o == Pwm!OnTicksOf(p.freq, p.duty)
           tm == IF p.enabled THEN [p.tm EXCEPT !.compare = t] ELSE p.tm
           r == [p EXCEPT !.period = t, !.on = o, !.tm = tm]
<1>1. t \in 1 .. SystemClockHz /\ t \in Pwm!Counts /\ o \in 0 .. SystemClockHz
  BY PwmFields, PeriodRange
<1>2. OwnTimer(p.tm)
  BY PwmFields DEF OwnTimer
<1> HIDE DEF t, o
<1>3. Pwm!SetCompare(Pwm!Unattached(p.tm), 0, 0, t).timer = [p.tm EXCEPT !.compare = t]
  <2>1. Pwm!SetCompare(Pwm!Unattached(p.tm), 0, 0, t) = Pwm!Unattached([p.tm EXCEPT !.compare = t])
    BY <1>1, <1>2, TimerCalls
  <2> QED BY <2>1 DEF Pwm!Unattached
<1>4. Pwm!UpdatePeriodAndDuty(p) = r
  BY <1>3 DEF Pwm!UpdatePeriodAndDuty, t, o
<1>5. OwnTimer(tm) /\ (p.enabled => tm.compare = t)
  BY <1>1, <1>2, TimerTypes
<1> HIDE DEF tm
<1>6. /\ r \in PwmStates /\ r.tm = tm /\ r.period = t /\ r.on = o /\ r.freq = p.freq
      /\ r.duty = p.duty /\ r.enabled = p.enabled
  BY <1>1, <1>5 DEF PwmStates, Pwm!PwmState, OwnTimer
<1> HIDE DEF r
<1>7. PwmPlausible(r) /\ Armed(r)
  BY <1>5, <1>6 DEF PwmPlausible, Armed, OwnTimer, t, o
<1> QED BY <1>4, <1>6, <1>7

LEMMA PwmEnabled ==
  ASSUME NEW p, PwmGood(p) PROVE PwmGood(Pwm!Enable(p)) /\ Armed(Pwm!Enable(p))
<1> DEFINE auto == [p.tm EXCEPT !.ctrl = p.tm.ctrl \cup {"AUTO_RESET"}]
           set == [auto EXCEPT !.compare = p.period]
           on == [set EXCEPT !.ctrl = set.ctrl \cup {"ENABLE"}]
           v == [p EXCEPT !.enabled = TRUE, !.tm = on]
<1>1. PwmPlausible(p) /\ p \in PwmStates /\ OwnTimer(p.tm) /\ p.period \in Pwm!Counts
  <2>1. PwmPlausible(p) /\ p \in PwmStates /\ p.period = Pwm!PeriodOf(p.freq)
    BY DEF PwmGood, PwmPlausible
  <2> QED BY <2>1, PwmFields, PeriodRange DEF PwmPlausible, OwnTimer
<1>2. "ENABLE" \in Pwm!CtrlBits /\ "AUTO_RESET" \in Pwm!CtrlBits
  BY DEF Pwm!CtrlBits, Pwm!ENABLE, Pwm!AUTO_RESET
<1>3. OwnTimer(auto)
  <2>1. p.tm.ctrl \cup {"AUTO_RESET"} \in SUBSET Pwm!CtrlBits
    BY <1>1, <1>2 DEF OwnTimer, Pwm!TimerState
  <2> QED BY <1>1, <2>1, TimerTypes
<1>4. [p.tm EXCEPT !.ctrl = @ \cup {Pwm!AUTO_RESET}] = auto
  BY DEF Pwm!AUTO_RESET
<1> HIDE DEF auto
<1>5. /\ OwnTimer(set) /\ set.compare = p.period
      /\ Pwm!SetCompare(Pwm!Unattached(auto), 0, 0, p.period) = Pwm!Unattached(set)
  BY <1>1, <1>3, TimerTypes, TimerCalls
<1> HIDE DEF set
<1>6. /\ OwnTimer(on) /\ on.compare = p.period
      /\ Pwm!TimerStart(Pwm!Unattached(set), 0, 0) = Pwm!Unattached(on)
  <2>1. set.ctrl \cup {"ENABLE"} \in SUBSET Pwm!CtrlBits
    BY <1>2, <1>5 DEF OwnTimer, Pwm!TimerState
  <2> QED BY <1>1, <1>5, <2>1, TimerTypes, TimerCalls
<1> HIDE DEF on
<1>7. Pwm!Unattached(on).timer = on
  BY DEF Pwm!Unattached
<1>8. Pwm!Enable(p) = Pwm!UpdateStatusRegister(v)
  BY <1>4, <1>5, <1>6, <1>7 DEF Pwm!Enable
<1>9. PwmPlausible(v) /\ v.tm = on /\ v.period = p.period
  <2>1. /\ v \in PwmStates /\ v.tm = on /\ v.period = p.period
        /\ v.freq = p.freq /\ v.duty = p.duty /\ v.on = p.on
    BY <1>1, <1>6 DEF PwmStates, Pwm!PwmState, OwnTimer
  <2> HIDE DEF v
  <2> QED BY <1>1, <1>6, <2>1 DEF PwmPlausible, OwnTimer
<1> HIDE DEF v
<1>10. /\ PwmGood(Pwm!Enable(p)) /\ Pwm!Enable(p).tm = on
       /\ Pwm!Enable(p).period = p.period
  BY <1>8, <1>9, PwmRefreshed
<1> QED BY <1>6, <1>10 DEF Armed

LEMMA PwmDisabled ==
  ASSUME NEW p, PwmGood(p)
  PROVE  PwmGood(Pwm!Disable(p)) /\ Pwm!Disable(p).enabled = FALSE
<1> DEFINE off == [p.tm EXCEPT !.ctrl = p.tm.ctrl \ {"ENABLE"}]
           v == [p EXCEPT !.enabled = FALSE, !.tm = off]
<1>1. PwmPlausible(p) /\ OwnTimer(p.tm) /\ 0 \in Pwm!Counts
  <2>1. PwmPlausible(p) /\ p \in PwmStates
    BY DEF PwmGood, PwmPlausible
  <2> QED BY <2>1, PwmFields, PwmAssumption DEF PwmPlausible, OwnTimer, Pwm!Counts
<1>2. OwnTimer(off) /\ Pwm!TimerStop(Pwm!Unattached(p.tm)) = Pwm!Unattached(off)
  <2>1. p.tm.ctrl \ {"ENABLE"} \in SUBSET Pwm!CtrlBits
    BY <1>1 DEF OwnTimer, Pwm!TimerState
  <2> QED BY <1>1, <2>1, TimerTypes, TimerCalls
<1> HIDE DEF off
<1>3. Pwm!Unattached(off).timer = off
  BY DEF Pwm!Unattached
<1>4. Pwm!Disable(p) = Pwm!UpdateStatusRegister(v)
  BY <1>2, <1>3 DEF Pwm!Disable
<1>5. PwmPlausible(v) /\ v.enabled = FALSE
  <2>0. p \in PwmStates
    BY <1>1 DEF PwmPlausible
  <2>1. /\ v \in PwmStates /\ v.tm = off /\ v.period = p.period /\ v.enabled = FALSE
        /\ v.freq = p.freq /\ v.duty = p.duty /\ v.on = p.on
    BY <1>2, <2>0 DEF PwmStates, Pwm!PwmState, OwnTimer
  <2> HIDE DEF v
  <2> QED BY <1>1, <1>2, <2>1 DEF PwmPlausible, OwnTimer
<1> HIDE DEF v
<1> QED BY <1>4, <1>5, PwmRefreshed

\* A setter refuses its argument or recomputes; either way a generator that is
\* armed stays armed.
LEMMA PwmSetters ==
  ASSUME NEW p, PwmGood(p), NEW f \in Nat, NEW d \in Nat,
         NEW v \in {Pwm!SetFrequency(p, f), Pwm!SetDutyCycle(p, d)}
  PROVE  PwmGood(v) /\ (Armed(p) => Armed(v))
<1>1. PwmPlausible(p) /\ p \in PwmStates /\ ~p.tm.attached
  BY DEF PwmGood, PwmPlausible
<1>2. SystemClockHz \in Nat
  BY PwmAssumption
<1>3. CASE v = p
  BY <1>3
<1>4. CASE v # p
  <2>1. PICK q \in PwmStates : ~q.tm.attached /\ v = Pwm!UpdateStatusRegister(Pwm!UpdatePeriodAndDuty(q))
    <3>1. CASE v = Pwm!SetFrequency(p, f)
      <4> DEFINE q == [p EXCEPT !.freq = f]
      <4>1. f \in Freqs /\ v = Pwm!UpdateStatusRegister(Pwm!UpdatePeriodAndDuty(q))
        BY <1>2, <1>4, <3>1 DEF Pwm!SetFrequency, Freqs
      <4>2. q \in PwmStates /\ ~q.tm.attached
        BY <1>1, <4>1 DEF PwmStates, Pwm!PwmState
      <4> HIDE DEF q
      <4> QED BY <4>1, <4>2
    <3>2. CASE v = Pwm!SetDutyCycle(p, d)
      <4> DEFINE q == [p EXCEPT !.duty = d]
      <4>1. d \in 0 .. 100 /\ v = Pwm!UpdateStatusRegister(Pwm!UpdatePeriodAndDuty(q))
        BY <1>4, <3>2 DEF Pwm!SetDutyCycle
      <4>2. q \in PwmStates /\ ~q.tm.attached
        BY <1>1, <4>1 DEF PwmStates, Pwm!PwmState
      <4> HIDE DEF q
      <4> QED BY <4>1, <4>2
    <3> QED BY <3>1, <3>2
  <2> DEFINE r == Pwm!UpdatePeriodAndDuty(q)
  <2>2. PwmPlausible(r) /\ Armed(r)
    BY <2>1, PwmRecomputed
  <2> HIDE DEF r
  <2>3. PwmGood(v) /\ v.enabled = r.enabled /\ v.tm = r.tm /\ v.period = r.period
    BY <2>1, <2>2, PwmRefreshed DEF r
  <2> QED BY <2>2, <2>3 DEF Armed
<1> QED BY <1>3, <1>4

LEMMA PwmTicked ==
  ASSUME NEW p, PwmGood(p) PROVE PwmGood(Pwm!Tick(p)) /\ (Armed(p) => Armed(Pwm!Tick(p)))
<1> DEFINE on == [p.tm EXCEPT !.ctrl = p.tm.ctrl \cup {"ENABLE"}]
           started == IF Pwm!TimerRunning(p.tm) THEN p.tm
                      ELSE Pwm!TimerStart(Pwm!Unattached(p.tm), 0, 0).timer
           ticked == Pwm!TimerTick(Pwm!Unattached(started), 0).timer
           v == IF p.enabled THEN [p EXCEPT !.tm = ticked] ELSE p
<1>1. PwmPlausible(p) /\ p \in PwmStates /\ OwnTimer(p.tm) /\ 0 \in Pwm!Counts
  <2>1. PwmPlausible(p) /\ p \in PwmStates
    BY DEF PwmGood, PwmPlausible
  <2> QED BY <2>1, PwmFields, PwmAssumption DEF PwmPlausible, OwnTimer, Pwm!Counts
<1>2. OwnTimer(started) /\ started.compare = p.tm.compare
  <2>1. p.tm.ctrl \cup {"ENABLE"} \in SUBSET Pwm!CtrlBits
    BY <1>1 DEF OwnTimer, Pwm!TimerState, Pwm!CtrlBits, Pwm!ENABLE
  <2>2. OwnTimer(on) /\ on.compare = p.tm.compare
    BY <1>1, <2>1, TimerTypes
  <2>3. Pwm!TimerStart(Pwm!Unattached(p.tm), 0, 0) = Pwm!Unattached(on)
    BY <1>1, TimerCalls
  <2> HIDE DEF on
  <2>4. Pwm!Unattached(on).timer = on
    BY DEF Pwm!Unattached
  <2> QED BY <1>1, <2>2, <2>3, <2>4
<1>3. Pwm!Tick(p) = Pwm!UpdateStatusRegister(v)
  BY DEF Pwm!Tick
<1> HIDE DEF started, on
<1>4. OwnTimer(ticked) /\ ticked.compare = p.tm.compare
  BY <1>2, TimerTicks
<1> HIDE DEF ticked
<1>5. PwmPlausible(v) /\ v.enabled = p.enabled /\ v.tm.compare = p.tm.compare /\ v.period = p.period
  <2>1. CASE p.enabled
    <3>1. /\ v \in PwmStates /\ v.enabled = p.enabled /\ v.tm = ticked /\ v.period = p.period
          /\ v.freq = p.freq /\ v.duty = p.duty /\ v.on = p.on
      BY <1>1, <1>4, <2>1 DEF PwmStates, Pwm!PwmState, OwnTimer
    <3> HIDE DEF v
    <3> QED BY <1>1, <1>4, <3>1 DEF PwmPlausible, OwnTimer
  <2>2. CASE ~p.enabled
    BY <1>1, <2>2
  <2> QED BY <2>1, <2>2
<1> HIDE DEF v
<1>6. /\ PwmGood(Pwm!Tick(p)) /\ Pwm!Tick(p).enabled = v.enabled
      /\ Pwm!Tick(p).tm = v.tm /\ Pwm!Tick(p).period = v.period
  BY <1>3, <1>5, PwmRefreshed
<1> QED BY <1>5, <1>6 DEF Armed

LEMMA PwmIsReset ==
  ASSUME NEW p, PwmGood(p) PROVE PwmGood(Pwm!Reset(p)) /\ Armed(Pwm!Reset(p))
<1> DEFINE off == Pwm!Disable(p)
           tm == Pwm!TimerReset(Pwm!Unattached(off.tm), 0).timer
           q == [off EXCEPT !.freq = p.freq0, !.duty = p.duty0, !.tm = tm]
           r == Pwm!UpdatePeriodAndDuty(q)
<1>1. PwmGood(off) /\ off \in PwmStates /\ p \in PwmStates /\ OwnTimer(off.tm)
  <2>1. PwmGood(off)
    BY PwmDisabled
  <2> HIDE DEF off
  <2>2. off \in PwmStates /\ p \in PwmStates /\ ~off.tm.attached
    BY <2>1 DEF PwmGood, PwmPlausible
  <2> QED BY <2>1, <2>2, PwmFields DEF OwnTimer
<1>2. Pwm!Reset(p) = Pwm!UpdateStatusRegister(r)
  BY DEF Pwm!Reset
<1> HIDE DEF off
<1>3. OwnTimer(tm)
  BY <1>1, TimerResets
<1>4. p.freq0 \in Freqs /\ p.duty0 \in 0 .. 100
  BY <1>1, PwmFields
<1> HIDE DEF tm
<1>5. q \in PwmStates /\ q.tm = tm
  BY <1>1, <1>3, <1>4 DEF PwmStates, Pwm!PwmState, OwnTimer
<1> HIDE DEF q
<1>6. PwmPlausible(r) /\ Armed(r)
  BY <1>3, <1>5, PwmRecomputed DEF OwnTimer
<1> HIDE DEF r
<1>7. /\ PwmGood(Pwm!Reset(p)) /\ Pwm!Reset(p).enabled = r.enabled
      /\ Pwm!Reset(p).tm = r.tm /\ Pwm!Reset(p).period = r.period
  BY <1>2, <1>6, PwmRefreshed
<1> QED BY <1>6, <1>7 DEF Armed

LEMMA PwmStored ==
  ASSUME NEW p, PwmGood(p), NEW on \in BOOLEAN PROVE PwmGood([p EXCEPT !.enabled = on])
<1> DEFINE v == [p EXCEPT !.enabled = on]
           seen == [p EXCEPT !.enabled = ("ENABLED" \in p.status)]
           w == [v EXCEPT !.enabled = ("ENABLED" \in v.status)]
<1>1. p \in PwmStates
  BY DEF PwmGood, PwmPlausible
<1>2. /\ v \in PwmStates /\ v.tm = p.tm /\ v.freq = p.freq /\ v.duty = p.duty
      /\ v.period = p.period /\ v.on = p.on /\ v.status = p.status
  BY <1>1 DEF PwmStates, Pwm!PwmState
<1> HIDE DEF v
<1>3. /\ w.tm = p.tm /\ w.duty = p.duty /\ w.period = p.period /\ w.on = p.on
      /\ w.enabled = ("ENABLED" \in p.status)
      /\ seen.tm = p.tm /\ seen.duty = p.duty /\ seen.period = p.period /\ seen.on = p.on
      /\ seen.enabled = ("ENABLED" \in p.status)
  BY <1>1, <1>2 DEF PwmStates, Pwm!PwmState
<1>4. p.status = Pwm!StatusOf(seen)
  BY DEF PwmGood
<1> HIDE DEF w, seen
<1>5. Pwm!StatusOf(w) = Pwm!StatusOf(seen)
  BY <1>3, PwmSameStatus
<1>6. PwmPlausible(v)
  BY <1>2 DEF PwmGood, PwmPlausible
<1> QED BY <1>2, <1>4, <1>5, <1>6 DEF PwmGood, w, v

LEMMA PwmFresh == PwmGood(FreshPwm) /\ Armed(FreshPwm)
<1> DEFINE p == FreshPwm
           w == [p EXCEPT !.enabled = ("ENABLED" \in p.status)]
<1>1. 1 \in Freqs /\ 50 \in 0 .. 100 /\ 0 \in Pwm!Counts
  BY PwmAssumption DEF Freqs, Pwm!Counts
<1>2. Pwm!PeriodOf(1) \in 1 .. SystemClockHz /\ Pwm!OnTicksOf(1, 50) \in 0 .. SystemClockHz
  BY <1>1, PeriodRange
<1>3. Pwm!NewTimer \in Pwm!TimerState /\ ~Pwm!NewTimer.attached
  BY <1>1 DEF Pwm!NewTimer, Pwm!TimerState
<1>4. /\ p \in PwmStates /\ p.tm = Pwm!NewTimer /\ p.freq = 1 /\ p.duty = 50
      /\ p.period = Pwm!PeriodOf(1) /\ p.on = Pwm!OnTicksOf(1, 50)
      /\ p.status = {} /\ p.enabled = FALSE
  BY <1>1, <1>2, <1>3 DEF FreshPwm, Pwm!NewPWM, PwmStates, Pwm!PwmState
<1> HIDE DEF p
<1>5. w.enabled = FALSE
  BY <1>4 DEF PwmStates, Pwm!PwmState
<1> HIDE DEF w
<1>6. Pwm!StatusOf(w) = {}
  BY <1>5 DEF Pwm!StatusOf, Pwm!OutputState
<1>7. PwmPlausible(p)
  BY <1>3, <1>4 DEF PwmPlausible
<1> QED BY <1>4, <1>6, <1>7 DEF PwmGood, Armed, w, p

LEMMA PwmTruthful ==
  ASSUME NEW p, PwmGood(p) PROVE Truthful(p, Pwm!StatusOf(p))
<1>1. SUFFICES ASSUME p.enabled <=> "ENABLED" \in p.status PROVE p.status = Pwm!StatusOf(p)
  BY DEF Truthful
<1>2. [p EXCEPT !.enabled = ("ENABLED" \in p.status)] = p
  BY <1>1 DEF PwmGood, PwmPlausible, PwmStates, Pwm!PwmState
<1> QED BY <1>2 DEF PwmGood

-----------------------------------------------------------------------------
(***************************************************************************)
(* The pins.                                                               *)
(***************************************************************************)
GpioStates == Gpio!GpioState(Pins)

LEMMA GpioCalls ==
  ASSUME NEW g \in GpioStates, NEW pin \in Pins, NEW high \in BOOLEAN
  PROVE  /\ Gpio!ConfigurePin(g, pin, high) \in GpioStates
         /\ Gpio!WritePin(g, pin, high) \in GpioStates
         /\ Gpio!TogglePin(g, pin) \in GpioStates
         /\ Gpio!SetExternalInput(g, pin, high) \in GpioStates
         /\ [g EXCEPT !.out = Gpio!With(@, pin, high)] \in GpioStates
<1>1. \A S \in SUBSET Pins, on \in BOOLEAN : Gpio!With(S, pin, on) \in SUBSET Pins
  BY DEF Gpio!With
<1>2. \A on \in BOOLEAN : Gpio!WritePin(g, pin, on) \in GpioStates
  BY <1>1 DEF Gpio!WritePin, GpioStates, Gpio!GpioState
<1>3. Gpio!TogglePin(g, pin) \in GpioStates
  <2>1. (~Gpio!ReadPin(g, pin)) \in BOOLEAN
    BY DEF Gpio!ReadPin
  <2> QED BY <1>2, <2>1 DEF Gpio!TogglePin
<1>4. Gpio!ConfigurePin(g, pin, high) \in GpioStates
  BY <1>1 DEF Gpio!ConfigurePin, GpioStates, Gpio!GpioState
<1>5. Gpio!SetExternalInput(g, pin, high) \in GpioStates
  BY <1>1 DEF Gpio!SetExternalInput, GpioStates, Gpio!GpioState
<1>6. [g EXCEPT !.out = Gpio!With(@, pin, high)] \in GpioStates
  BY <1>1 DEF GpioStates, Gpio!GpioState
<1> QED BY <1>2, <1>3, <1>4, <1>5, <1>6

LEMMA GpioFresh ==
  FreshGpio \in GpioStates /\ \A g : Gpio!Reset(g) \in GpioStates
BY DEF FreshGpio, Gpio!Reset, Gpio!NewGPIO, GpioStates, Gpio!GpioState

-----------------------------------------------------------------------------
(***************************************************************************)
(* The inductive invariant.                                                *)
(***************************************************************************)
AttachedLive == onBus \subseteq Live /\ hal \subseteq Live /\ stored \subseteq Live

SpiFilled(s, how) == SpiGood(s) /\ OnlyFetched(s, how) /\ how \in {"nothing", "write", "transfer"}

PwmTimed(p, st) == PwmGood(p) /\ ("pwm" \notin st => Armed(p))

DevicesGood ==
  /\ gpio \in GpioStates /\ UartGood(uart) /\ SpiFilled(spi, filled)
  /\ I2cGood(i2c) /\ queue \in Seq(ReadableBytes)
  /\ AdcGood(adc) /\ PwmTimed(pwm, stored)

IInv == MapGood /\ AttachedLive /\ DevicesGood

\* The peripheral at work is the only one there is.
LEMMA OperatedLive == ASSUME NEW k, Operated(k) PROVE Live = {k} /\ k \in Live
BY DEF Operated

LEMMA MapUnchanged == ASSUME MapGood, UNCHANGED maps PROVE MapGood' /\ Live' = Live
BY DEF MapGood, maps, Live, LiveRegistersMapped

\* A step that keeps the map and the attachments, and forgets stores at most.
LEMMA KeepsAttached ==
  ASSUME IInv, UNCHANGED <<maps, onBus, hal>>, stored' \subseteq stored, DevicesGood'
  PROVE  IInv'
<1>1. MapGood' /\ Live' = Live
  BY MapUnchanged DEF IInv
<1> QED BY <1>1 DEF IInv, AttachedLive

LEMMA InitGood == Init => IInv
<1> SUFFICES ASSUME Init PROVE IInv
  OBVIOUS
<1>1. MapGood /\ Live = {}
  <2>1. Live = {}
    BY DEF Init, Live
  <2>2. DOMAIN map = {}
    BY DEF Init, Mmio!NoRegisters
  <2>3. base \in [Kinds -> Bases \cup {NONE}]
    BY DEF Init
  <2> QED BY <2>1, <2>2, <2>3 DEF MapGood, LiveRegistersMapped
<1>2. AttachedLive
  BY DEF Init, AttachedLive
<1>3. DevicesGood
  <2>1. queue \in Seq(ReadableBytes)
    BY DEF Init
  <2>2. /\ gpio = FreshGpio /\ uart = FreshUart /\ spi = FreshSpi /\ i2c = FreshI2c
        /\ adc = FreshAdc /\ pwm = FreshPwm /\ filled = "nothing"
    BY DEF Init
  <2> QED BY <2>1, <2>2, GpioFresh, UartFresh, SpiFresh, I2cFresh, AdcFresh, PwmFresh
          DEF DevicesGood, SpiFilled, PwmTimed
<1> QED BY <1>1, <1>2, <1>3 DEF IInv


-----------------------------------------------------------------------------
(***************************************************************************)
(* One lemma for each group of actions.                                    *)
(***************************************************************************)
LEMMA MapSteps ==
  ASSUME IInv,
         \/ \E k \in Kinds, b \in Bases : Construct(k, b) \/ ConstructorThrows(k, b)
         \/ \E a \in Bases : MapRegister(a) \/ UnmapRegister(a)
  PROVE  IInv'
<1>1. UNCHANGED <<onBus, hal, devs>>
  BY DEF Construct, ConstructorThrows, MapRegister, UnmapRegister
<1>2. DevicesGood' /\ onBus' = onBus /\ hal' = hal /\ stored' = stored
  BY <1>1 DEF devs, IInv, DevicesGood
<1>3. MapGood /\ AttachedLive
  BY DEF IInv
<1>4. CASE \E k \in Kinds, b \in Bases : Construct(k, b)
  <2>1. MapGood' /\ Live \subseteq Live'
    BY <1>3, <1>4, ConstructKeeps
  <2> QED BY <1>2, <1>3, <2>1 DEF IInv, AttachedLive
<1>5. CASE \/ \E k \in Kinds, b \in Bases : ConstructorThrows(k, b)
           \/ \E a \in Bases : MapRegister(a) \/ UnmapRegister(a)
  <2>1. MapGood'
    BY <1>3, <1>5, MapActionsKeep
  <2>2. Live' = Live
    BY <1>5 DEF Live, ConstructorThrows, MapRegister, UnmapRegister
  <2> QED BY <1>2, <1>3, <2>1, <2>2 DEF IInv, AttachedLive
<1> QED BY <1>4, <1>5

LEMMA DestroyStep ==
  ASSUME IInv, NEW k \in Kinds, Destroy(k) PROVE IInv'
<1>1. MapGood' /\ Live' = Live \ {k}
  BY DestroyKeeps DEF IInv
<1>2. AttachedLive'
  BY <1>1 DEF IInv, AttachedLive, Destroy
<1>3. DevicesGood'
  <2>1. /\ gpio' \in GpioStates /\ UartGood(uart') /\ I2cGood(i2c') /\ AdcGood(adc')
        /\ queue' \in Seq(ReadableBytes)
    BY GpioFresh, UartFresh, I2cFresh, AdcFresh DEF Destroy, IInv, DevicesGood
  <2>2. SpiFilled(spi', filled')
    BY SpiFresh DEF Destroy, IInv, DevicesGood, SpiFilled
  <2>3. PwmTimed(pwm', stored')
    BY PwmFresh DEF Destroy, IInv, DevicesGood, PwmTimed
  <2> QED BY <2>1, <2>2, <2>3 DEF DevicesGood
<1> QED BY <1>1, <1>2, <1>3 DEF IInv

LEMMA AttachSteps ==
  ASSUME IInv, NEW k \in Kinds, AttachToBus(k) \/ AttachHAL(k) \/ DetachHAL(k)
  PROVE  IInv'
<1>1. MapGood' /\ Live' = Live
  BY MapUnchanged DEF IInv, AttachToBus, AttachHAL, DetachHAL
<1>2. stored' \subseteq stored /\ onBus' \subseteq onBus \cup {k} /\ hal' \subseteq hal \cup {k}
  BY DEF AttachToBus, AttachHAL, DetachHAL, devs
<1>3. k \in Live
  BY OperatedLive DEF AttachToBus, AttachHAL, DetachHAL, IInv, AttachedLive
<1>4. DevicesGood'
  <2>1. CASE AttachToBus(k) \/ DetachHAL(k)
    BY <2>1 DEF AttachToBus, DetachHAL, devs, IInv, DevicesGood
  <2>2. CASE AttachHAL(k)
    <3>1. UartGood(uart')
      BY <2>2, UartSwitched DEF AttachHAL, IInv, DevicesGood
    <3>2. UNCHANGED <<gpio, spi, i2c, adc, pwm, queue, filled>>
      BY <2>2 DEF AttachHAL
    <3>3. "pwm" \in stored <=> "pwm" \in stored'
      BY <2>2 DEF AttachHAL
    <3> QED BY <3>1, <3>2, <3>3 DEF IInv, DevicesGood, PwmTimed
  <2> QED BY <2>1, <2>2
<1> QED BY <1>1, <1>2, <1>3, <1>4 DEF IInv, AttachedLive

LEMMA BusResetStep ==
  ASSUME IInv, BusReset PROVE IInv'
<1>1. /\ gpio \in GpioStates /\ UartGood(uart) /\ SpiGood(spi) /\ OnlyFetched(spi, filled)
      /\ filled \in {"nothing", "write", "transfer"}
      /\ I2cGood(i2c) /\ queue \in Seq(ReadableBytes) /\ AdcGood(adc) /\ PwmGood(pwm)
      /\ "pwm" \notin stored => Armed(pwm)
  BY DEF IInv, DevicesGood, SpiFilled, PwmTimed
<1>2. UartGood(uart') /\ gpio' \in GpioStates /\ I2cGood(i2c') /\ AdcGood(adc') /\ queue' = queue
  BY <1>1, GpioFresh, UartSwitched, I2cSwitched, AdcSwitched DEF BusReset
<1>3. SpiFilled(spi', filled')
  <2>1. SpiGood(Spi!Reset(spi)) /\ OnlyFetched(Spi!Reset(spi), "nothing")
    BY <1>1, SpiSwitched
  <2> QED BY <1>1, <2>1 DEF BusReset, SpiFilled
<1>4. PwmTimed(pwm', stored')
  <2>1. PwmGood(Pwm!Reset(pwm)) /\ Armed(Pwm!Reset(pwm))
    BY <1>1, PwmIsReset
  <2> QED BY <1>1, <2>1 DEF BusReset, PwmTimed
<1>5. DevicesGood'
  BY <1>1, <1>2, <1>3, <1>4 DEF DevicesGood
<1>6. UNCHANGED <<maps, onBus, hal>> /\ stored' \subseteq stored
  BY DEF BusReset
<1> QED BY <1>5, <1>6, KeepsAttached

LEMMA StoreStep ==
  ASSUME IInv, NEW k \in Kinds, NEW on \in BOOLEAN, Store(k, on) PROVE IInv'
<1>1. /\ gpio \in GpioStates /\ UartGood(uart) /\ SpiGood(spi) /\ OnlyFetched(spi, filled)
      /\ filled \in {"nothing", "write", "transfer"}
      /\ I2cGood(i2c) /\ queue \in Seq(ReadableBytes) /\ AdcGood(adc) /\ PwmGood(pwm)
      /\ "pwm" \notin stored => Armed(pwm)
  BY DEF IInv, DevicesGood, SpiFilled, PwmTimed
<1>2. UNCHANGED <<gpio, queue, filled>>
  BY DEF Store
<1>3. UartGood(uart')
  <2>1. 0 \in Bauds \cup {0}
    OBVIOUS
  <2>2. UartGood([uart EXCEPT !.enabled = on])
    BY <1>1, <2>1, UartStored
  <2> QED BY <1>1, <2>2 DEF Store
<1>4. I2cGood(i2c')
  <2>1. I2cGood([i2c EXCEPT !.enabled = on])
    BY <1>1, I2cStored
  <2> QED BY <1>1, <2>1 DEF Store
<1>5. AdcGood(adc')
  <2>1. AdcGood([adc EXCEPT !.enabled = on])
    <3> DEFINE v == [adc EXCEPT !.enabled = on]
    <3>1. v \in {[adc EXCEPT !.enabled = on], Adc!SetResolution(adc, 12)}
      OBVIOUS
    <3> HIDE DEF v
    <3>2. AdcGood(v)
      BY <1>1, <3>1, AdcStored
    <3> QED BY <3>2 DEF v
  <2> QED BY <1>1, <2>1 DEF Store
<1>6. SpiFilled(spi', filled')
  <2> DEFINE v == [spi EXCEPT !.enabled = on, !.mode = 0]
  <2>1. SpiGood(v) /\ OnlyFetched(v, filled)
    BY <1>1, SpiStored
  <2> QED BY <1>1, <1>2, <2>1 DEF Store, SpiFilled
<1>7. PwmTimed(pwm', stored')
  <2>1. PwmGood([pwm EXCEPT !.enabled = on])
    BY <1>1, PwmStored
  <2> QED BY <1>1, <2>1 DEF Store, PwmTimed
<1>8. DevicesGood'
  BY <1>1, <1>2, <1>3, <1>4, <1>5, <1>6, <1>7 DEF DevicesGood
<1>9. AttachedLive' /\ MapGood'
  <2>1. MapGood' /\ Live' = Live /\ onBus' = onBus /\ hal' = hal /\ stored' = stored \cup {k}
    BY MapUnchanged DEF Store, IInv
  <2>2. k \in Live
    BY OperatedLive DEF Store
  <2> QED BY <2>1, <2>2 DEF IInv, AttachedLive
<1> QED BY <1>8, <1>9 DEF IInv

LEMMA GpioSteps ==
  ASSUME IInv,
         \/ \E pin \in Pins, high \in BOOLEAN : StoreOut(pin, high)
         \/ GpioHAL \/ GpioDriver
  PROVE  IInv'
<1>1. gpio' \in GpioStates
  <2>1. gpio \in GpioStates /\ TRUE \in BOOLEAN
    BY DEF IInv, DevicesGood
  <2>2. CASE \E pin \in Pins, high \in BOOLEAN : StoreOut(pin, high)
    <3>1. PICK pin \in Pins, high \in BOOLEAN : StoreOut(pin, high)
      BY <2>2
    <3>2. gpio' = [gpio EXCEPT !.out = Gpio!With(@, pin, high)]
      BY <3>1 DEF StoreOut
    <3> QED BY <2>1, <3>2, GpioCalls
  <2>3. CASE GpioHAL
    <3>1. PICK pin \in Pins, on \in BOOLEAN :
            gpio' \in {Gpio!ConfigurePin(gpio, pin, on), Gpio!WritePin(gpio, pin, on),
                       Gpio!TogglePin(gpio, pin)}
      BY <2>1, <2>3 DEF GpioHAL
    <3> QED BY <2>1, <3>1, GpioCalls
  <2>4. CASE GpioDriver
    <3>1. \/ \E pin \in Pins, on \in BOOLEAN : gpio' = Gpio!SetExternalInput(gpio, pin, on)
          \/ gpio' = Gpio!Reset(gpio)
      BY <2>4 DEF GpioDriver
    <3>2. \A pin \in Pins, on \in BOOLEAN : Gpio!SetExternalInput(gpio, pin, on) \in GpioStates
      BY <2>1, GpioCalls
    <3> QED BY <3>1, <3>2, GpioFresh
  <2> QED BY <2>2, <2>3, <2>4
<1>2. UNCHANGED <<maps, onBus, hal, uart, spi, i2c, adc, pwm, queue, filled, stored>>
  BY DEF StoreOut, GpioHAL, GpioDriver, Keeps
<1>3. DevicesGood'
  BY <1>1, <1>2 DEF IInv, DevicesGood
<1> QED BY <1>2, <1>3, KeepsAttached


LEMMA UartSteps == ASSUME IInv, UartHAL \/ UartDriver PROVE IInv'
<1>1. UartGood(uart)
  BY DEF IInv, DevicesGood
<1>2. /\ UNCHANGED <<maps, onBus, hal, gpio, spi, i2c, adc, pwm, queue, filled>>
      /\ stored' \subseteq stored /\ ("pwm" \in stored <=> "pwm" \in stored')
  BY DEF UartHAL, UartDriver, Keeps
<1>3. \/ uart' \in {Uart!ReadByte(uart), Uart!PopTxByte(uart)}
      \/ \E b \in Bytes : uart' \in {Uart!WriteByte(uart, b), Uart!PushReceivedByte(uart, b)}
      \/ \E rate \in Bauds \cup {0} : uart' = Uart!SetBaudRate(uart, rate)
      \/ uart' \in {Uart!Enable(uart), Uart!Disable(uart), Uart!Reset(uart)}
  BY DEF UartHAL, UartDriver
<1>4. UartGood(uart')
  <2>1. CASE uart' \in {Uart!ReadByte(uart), Uart!PopTxByte(uart)}
    BY <1>1, <2>1, UartTaken
  <2>2. CASE \E b \in Bytes : uart' \in {Uart!WriteByte(uart, b), Uart!PushReceivedByte(uart, b)}
    BY <1>1, <2>2, UartPut
  <2>3. CASE \E rate \in Bauds \cup {0} : uart' = Uart!SetBaudRate(uart, rate)
    <3>1. PICK rate \in Bauds \cup {0} : uart' = Uart!SetBaudRate(uart, rate)
      BY <2>3
    <3>2. TRUE \in BOOLEAN
      OBVIOUS
    <3> QED BY <1>1, <3>1, <3>2, UartStored
  <2>4. CASE uart' \in {Uart!Enable(uart), Uart!Disable(uart), Uart!Reset(uart)}
    BY <1>1, <2>4, UartSwitched
  <2> QED BY <1>3, <2>1, <2>2, <2>3, <2>4
<1>5. DevicesGood'
  BY <1>2, <1>4 DEF IInv, DevicesGood, PwmTimed
<1> QED BY <1>2, <1>5, KeepsAttached

LEMMA SpiSteps == ASSUME IInv, SpiHAL \/ SpiDriver PROVE IInv'
<1>1. /\ SpiGood(spi) /\ OnlyFetched(spi, filled)
      /\ filled \in {"nothing", "write", "transfer"}
  BY DEF IInv, DevicesGood, SpiFilled
<1>2. /\ UNCHANGED <<maps, onBus, hal, gpio, uart, i2c, adc, pwm, queue>>
      /\ stored' \subseteq stored /\ ("pwm" \in stored <=> "pwm" \in stored')
  BY DEF SpiHAL, SpiDriver, Keeps
<1>3. SpiFilled(spi', filled')
  <2>1. CASE \E a \in Spi!Answers(spi, Bytes) :
               \/ /\ spi' = Spi!WriteByte(spi, a)
                  /\ filled' = IF spi.enabled THEN "write" ELSE filled
               \/ /\ spi' = Spi!Transfer(spi, a)
                  /\ filled' = IF spi.enabled THEN "transfer" ELSE filled
    <3>1. PICK a \in Spi!Answers(spi, Bytes) :
               \/ /\ spi' = Spi!WriteByte(spi, a)
                  /\ filled' = IF spi.enabled THEN "write" ELSE filled
               \/ /\ spi' = Spi!Transfer(spi, a)
                  /\ filled' = IF spi.enabled THEN "transfer" ELSE filled
      BY <2>1
    <3>2. a \in ReadableBytes
      BY SpiAnswer
    <3>3. SpiGood(spi') /\ OnlyFetched(spi', filled')
      BY <1>1, <3>1, <3>2, SpiWritten
    <3> QED BY <1>1, <3>1, <3>3 DEF SpiFilled
  <2>2. CASE /\ spi' = Spi!ReadByte(spi)
             /\ filled' = IF spi.enabled /\ spi.rx = <<>> THEN "nothing" ELSE filled
    <3>1. SpiGood(spi') /\ OnlyFetched(spi', filled')
      BY <1>1, <2>2, SpiRead
    <3> QED BY <1>1, <2>2, <3>1 DEF SpiFilled
  <2>3. CASE /\ filled' = filled
             /\ \/ \E m \in Modes \cup {4}, d \in Dividers \cup {0} : spi' = Spi!Configure(spi, m, d)
                \/ spi' \in {Spi!AttachSlave(spi), Spi!DetachSlave(spi)}
    <3>1. PICK m \in Modes \cup {4}, d \in Dividers \cup {0} :
            spi' \in {Spi!Configure(spi, m, d), Spi!AttachSlave(spi), Spi!DetachSlave(spi)}
      BY <2>3
    <3>2. SpiGood(spi') /\ OnlyFetched(spi', filled)
      BY <1>1, <3>1, SpiSet
    <3> QED BY <1>1, <2>3, <3>2 DEF SpiFilled
  <2>4. CASE spi' \in {Spi!Enable(spi), Spi!Disable(spi)} /\ filled' = filled
    BY <1>1, <2>4, SpiSwitched DEF SpiFilled
  <2>5. CASE spi' = Spi!Reset(spi) /\ filled' = "nothing"
    BY <1>1, <2>5, SpiSwitched DEF SpiFilled
  <2> QED BY <2>1, <2>2, <2>3, <2>4, <2>5 DEF SpiHAL, SpiDriver
<1>4. DevicesGood'
  BY <1>2, <1>3 DEF IInv, DevicesGood, PwmTimed
<1> QED BY <1>2, <1>4, KeepsAttached

LEMMA I2cSteps == ASSUME IInv, I2cReadQueued \/ I2cHAL \/ I2cDriver PROVE IInv'
<1>1. I2cGood(i2c) /\ queue \in Seq(ReadableBytes)
  BY DEF IInv, DevicesGood
<1>2. /\ UNCHANGED <<maps, onBus, hal, gpio, uart, spi, adc, pwm, filled>>
      /\ stored' \subseteq stored /\ ("pwm" \in stored <=> "pwm" \in stored')
  BY DEF I2cReadQueued, I2cHAL, I2cDriver, Keeps
<1>3. \A any \in Seq(Bytes) : any \in Seq(ReadableBytes)
  BY DEF ReadableBytes
<1>4. I2cGood(i2c') /\ queue' \in Seq(ReadableBytes)
  <2>1. CASE \E a \in BusAddresses, ack \in BOOLEAN, n \in 0 .. FifoBound :
             \E answers \in [1 .. n -> Bytes] :
               /\ i2c' = I2c!RequestFrom(i2c, a, ack, answers)
               /\ queue' = I2c!Requested(i2c, a, ack, answers)
    <3>1. PICK a \in BusAddresses, ack \in BOOLEAN, n \in 0 .. FifoBound :
             \E answers \in [1 .. n -> Bytes] :
               /\ i2c' = I2c!RequestFrom(i2c, a, ack, answers)
               /\ queue' = I2c!Requested(i2c, a, ack, answers)
      BY <2>1
    <3>2. [1 .. n -> Bytes] \subseteq Seq(Bytes)
      BY BoundsAssumption
    <3> QED BY <1>1, <1>3, <3>1, <3>2, I2cTransactions
  <2>2. CASE \E a \in BusAddresses, ack \in BOOLEAN :
               i2c' = I2c!BeginTransmission(i2c, a, ack) /\ queue' = queue
    <3>1. <<>> \in Seq(Bytes)
      OBVIOUS
    <3> QED BY <1>1, <2>2, <3>1, I2cTransactions
  <2>3. CASE i2c' = I2c!EndTransmission(i2c) /\ queue' = queue
    <3>1. TRUE \in BOOLEAN
      OBVIOUS
    <3> QED BY <1>1, <2>3, <3>1, I2cStartStop DEF I2c!EndTransmission
  <2>4. CASE \E b \in Bytes, ack \in BOOLEAN :
               i2c' \in {I2c!WriteByte(i2c, b, ack), I2c!ReadByte(i2c, b)} /\ queue' = queue
    BY <1>1, <2>4, I2cMoved
  <2>5. CASE I2cReadQueued
    BY <1>1, <2>5 DEF I2cReadQueued, Keeps
  <2>6. CASE i2c' \in {I2c!Enable(i2c), I2c!Disable(i2c), I2c!Reset(i2c)} /\ queue' = queue
    BY <1>1, <2>6, I2cSwitched
  <2>7. CASE \E d \in Devices : /\ i2c' \in {I2c!AttachDevice(i2c, d), I2c!DetachDevice(i2c, d)}
                                /\ queue' = queue
    BY <1>1, <2>7, I2cDevices
  <2>8. CASE I2cHAL
    <3>1. TRUE \in BOOLEAN
      OBVIOUS
    <3> QED BY <2>1, <2>2, <2>3, <2>4, <2>6, <2>8, <3>1 DEF I2cHAL
  <2>9. CASE I2cDriver
    BY <2>6, <2>7, <2>9 DEF I2cDriver, Keeps
  <2> QED BY <2>5, <2>8, <2>9
<1>5. DevicesGood'
  BY <1>2, <1>4 DEF IInv, DevicesGood, PwmTimed
<1> QED BY <1>2, <1>5, KeepsAttached

LEMMA AdcSteps == ASSUME IInv, AdcHAL \/ AdcDriver PROVE IInv'
<1>1. AdcGood(adc)
  BY DEF IInv, DevicesGood
<1>2. /\ UNCHANGED <<maps, onBus, hal, gpio, uart, spi, i2c, pwm, queue, filled>>
      /\ stored' \subseteq stored /\ ("pwm" \in stored <=> "pwm" \in stored')
  BY DEF AdcHAL, AdcDriver, Keeps
<1>3. AdcGood(adc')
  <2>1. CASE \E c \in Channels : adc' = Adc!Sample(adc, c)
    BY <1>1, <2>1, AdcSampled
  <2>2. CASE \E x \in Volts : \/ adc' = Adc!SetReferenceVoltage(adc, x)
                              \/ \E c \in Channels : adc' = Adc!SetAnalogInput(adc, c, x)
    BY <1>1, <2>2, AdcSet
  <2>3. CASE \E bits : adc' = Adc!SetResolution(adc, bits)
    <3>1. PICK bits : adc' = Adc!SetResolution(adc, bits)
      BY <2>3
    <3>2. PICK on \in BOOLEAN, v \in {adc'} : TRUE
      OBVIOUS
    <3>3. v \in {[adc EXCEPT !.enabled = on], Adc!SetResolution(adc, bits)}
      BY <3>1, <3>2
    <3>4. AdcGood(v)
      BY <1>1, <3>3, AdcStored
    <3> QED BY <3>2, <3>4
  <2>4. CASE adc' \in {Adc!Enable(adc), Adc!Disable(adc), Adc!Reset(adc, DefaultVref)}
    BY <1>1, <2>4, AdcSwitched
  <2> QED BY <2>1, <2>2, <2>3, <2>4 DEF AdcHAL, AdcDriver
<1>4. DevicesGood'
  BY <1>2, <1>3 DEF IInv, DevicesGood, PwmTimed
<1> QED BY <1>2, <1>4, KeepsAttached

LEMMA PwmSteps == ASSUME IInv, PwmHAL \/ PwmReset \/ PwmTick PROVE IInv'
<1>1. PwmGood(pwm) /\ ("pwm" \notin stored => Armed(pwm))
  BY DEF IInv, DevicesGood, PwmTimed
<1>2. /\ UNCHANGED <<maps, onBus, hal, gpio, uart, spi, i2c, adc, queue, filled>>
      /\ stored' \subseteq stored
  BY DEF PwmHAL, PwmReset, PwmTick, Keeps
<1>3. PwmTimed(pwm', stored')
  <2>1. CASE /\ stored' = stored
             /\ \E f \in Nat, d \in Nat : pwm' \in {Pwm!SetFrequency(pwm, f), Pwm!SetDutyCycle(pwm, d)}
    <3>1. PwmGood(pwm') /\ (Armed(pwm) => Armed(pwm'))
      BY <1>1, <2>1, PwmSetters
    <3> QED BY <1>1, <2>1, <3>1 DEF PwmTimed
  <2>2. CASE pwm' = Pwm!Enable(pwm)
    BY <1>1, <2>2, PwmEnabled DEF PwmTimed
  <2>3. CASE pwm' = Pwm!Disable(pwm)
    BY <1>1, <2>3, PwmDisabled DEF PwmTimed, Armed
  <2>4. CASE pwm' = Pwm!Reset(pwm)
    BY <1>1, <2>4, PwmIsReset DEF PwmTimed
  <2>5. CASE pwm' = Pwm!Tick(pwm) /\ stored' = stored
    BY <1>1, <2>5, PwmTicked DEF PwmTimed
  <2>6. CASE PwmHAL
    <3>1. 0 .. SystemClockHz + 1 \subseteq Nat /\ Duties \subseteq Nat /\ 0 \in Nat
      BY PwmAssumption
    <3> QED BY <2>1, <2>2, <2>3, <2>6, <3>1 DEF PwmHAL
  <2> QED BY <2>4, <2>5, <2>6 DEF PwmReset, PwmTick, Keeps
<1>4. DevicesGood'
  BY <1>2, <1>3 DEF IInv, DevicesGood
<1> QED BY <1>2, <1>4, KeepsAttached

-----------------------------------------------------------------------------
LEMMA StepGood == IInv /\ [Next]_vars => IInv'
<1> SUFFICES ASSUME IInv, [Next]_vars PROVE IInv'
  OBVIOUS
<1>1. CASE UNCHANGED vars
  <2>1. UNCHANGED <<maps, onBus, hal, devs>>
    BY <1>1 DEF vars
  <2>2. DevicesGood' /\ stored' = stored
    BY <2>1 DEF devs, IInv, DevicesGood
  <2> QED BY <2>1, <2>2, KeepsAttached
<1>2. CASE \/ \E k \in Kinds, b \in Bases : Construct(k, b) \/ ConstructorThrows(k, b)
           \/ \E a \in Bases : MapRegister(a) \/ UnmapRegister(a)
  BY <1>2, MapSteps
<1>3. CASE \E k \in Kinds : Destroy(k)
  BY <1>3, DestroyStep
<1>4. CASE \E k \in Kinds : AttachToBus(k) \/ AttachHAL(k) \/ DetachHAL(k)
  BY <1>4, AttachSteps
<1>5. CASE \E k \in Kinds, on \in BOOLEAN : Store(k, on)
  BY <1>5, StoreStep
<1>6. CASE \/ \E pin \in Pins, high \in BOOLEAN : StoreOut(pin, high)
           \/ GpioHAL \/ GpioDriver
  BY <1>6, GpioSteps
<1>7. CASE BusReset
  BY <1>7, BusResetStep
<1>8. CASE UartHAL \/ UartDriver
  BY <1>8, UartSteps
<1>9. CASE SpiHAL \/ SpiDriver
  BY <1>9, SpiSteps
<1>10. CASE I2cReadQueued \/ I2cHAL \/ I2cDriver
  BY <1>10, I2cSteps
<1>11. CASE AdcHAL \/ AdcDriver
  BY <1>11, AdcSteps
<1>12. CASE PwmHAL \/ PwmReset \/ PwmTick
  BY <1>12, PwmSteps
<1> QED BY <1>1, <1>2, <1>3, <1>4, <1>5, <1>6, <1>7, <1>8, <1>9, <1>10, <1>11, <1>12
        DEF Next

(***************************************************************************)
(* The inductive invariant of the board holds in every reachable state.    *)
(***************************************************************************)
THEOREM Inductive == Spec => []IInv
BY InitGood, StepGood, PTL DEF Spec

(***************************************************************************)
(* Type correctness of the board and of every peripheral on it.            *)
(***************************************************************************)
THEOREM TypeCorrect == Spec => []TypeOK
<1>1. IInv => TypeOK
  BY DEF IInv, MapGood, AttachedLive, DevicesGood, SpiFilled, PwmTimed, GpioStates,
         UartGood, UartStates, SpiGood, SpiStates, I2cGood, I2cStates, AdcGood, AdcStates,
         PwmGood, PwmPlausible, PwmStates, TypeOK
<1> QED BY <1>1, Inductive, PTL

(***************************************************************************)
(* No constructor, wreck or destructor takes a register away from a live   *)
(* peripheral.                                                             *)
(***************************************************************************)
THEOREM RegistersMapped == Spec => []LiveRegistersMapped
<1>1. IInv => LiveRegistersMapped
  BY DEF IInv, MapGood
<1> QED BY <1>1, Inductive, PTL

(***************************************************************************)
(* STATUS of every peripheral tells the truth whenever its ENABLED bit     *)
(* agrees with CONTROL.                                                    *)
(***************************************************************************)
THEOREM StatusTruthful == Spec => []StatusReportsState
<1>1. IInv => StatusReportsState
  BY UartTruthful, SpiTruthful, I2cTruthful, AdcTruthful, PwmTruthful
     DEF IInv, DevicesGood, SpiFilled, PwmTimed, StatusReportsState
<1> QED BY <1>1, Inductive, PTL

(***************************************************************************)
(* m_activeDevice of the I2C master is null or an attached device for      *)
(* which the bus is held.                                                  *)
(***************************************************************************)
THEOREM ActiveAttached == Spec => []ActiveIsAttached
<1>1. IInv => ActiveIsAttached
  BY DEF IInv, DevicesGood, I2cGood, ActiveIsAttached, Range
<1> QED BY <1>1, Inductive, PTL

(***************************************************************************)
(* readByte of the SPI master takes from DATA only the answer of a         *)
(* transfer() that nobody has fetched: a byte that was in the receive      *)
(* buffer is not returned from there a second time.                        *)
(***************************************************************************)
THEOREM BufferReadOnce == Spec => []BufferedByteReadOnce
<1>1. IInv => BufferedByteReadOnce
  BY DEF IInv, DevicesGood, SpiFilled, OnlyFetched, BufferedByteReadOnce
<1> QED BY <1>1, Inductive, PTL

(***************************************************************************)
(* The code that the ADC computes is the nearest to the voltage, whatever  *)
(* the voltages, the reference and the resolution.                         *)
(***************************************************************************)
THEOREM CodeIsNearest == Spec => []NearestCode
<1>1. ASSUME IInv PROVE NearestCode
  <2> DEFINE ref == adc.vref
             res == adc.res
             max == Adc!MaxDigital(res)
             code(v) == Adc!Convert(v, ref, res)
  <2>1. ref \in Nat \ {0} /\ res \in Adc!Resolutions
    BY <1>1, AdcAssumption DEF IInv, DevicesGood, AdcGood, AdcStates, Adc!AdcState
  <2> HIDE DEF ref, res, max, code
  <2>2. max \in Nat
    BY <2>1, FullScale DEF max
  <2>3. ASSUME NEW v \in Volts
        PROVE  /\ v >= ref => code(v) = max
               /\ ~(v >= ref) => /\ -ref <= 2 * (code(v) * ref - v * max)
                                 /\ 2 * (code(v) * ref - v * max) <= ref
    <3>1. v \in Nat
      BY AdcAssumption
    <3>2. PICK c : c = code(v)
      OBVIOUS
    <3>3. /\ c \in Nat /\ (v >= ref => c = max)
          /\ v < ref => Nearest(c, v, max, ref)
      BY <2>1, <3>1, <3>2, ConvertNearest DEF code, max
    <3>4. ~(v >= ref) => v < ref
      BY <2>1, <3>1
    <3> QED BY <3>2, <3>3, <3>4 DEF Nearest
  <2> QED BY <2>3 DEF NearestCode, code, max, ref, res
<1> QED BY <1>1, Inductive, PTL

(***************************************************************************)
(* A PWM generator that enable() switched on has its timer armed with the  *)
(* period of its frequency.                                                *)
(***************************************************************************)
THEOREM PeriodIsArmed == Spec => []PeriodArmed
<1>1. IInv => PeriodArmed
  BY DEF IInv, DevicesGood, PwmTimed, PwmGood, PwmPlausible, Armed, PeriodArmed
<1> QED BY <1>1, Inductive, PTL
=============================================================================
