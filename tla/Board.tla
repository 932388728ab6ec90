-------------------------------- MODULE Board --------------------------------
(***************************************************************************)
(* A board: the peripherals that the program constructs on one MMIO bus,   *)
(* their attachment to the system bus and to the hardware abstraction      *)
(* layer, and the calls made to them (src/src/drivers, src/src/hal,        *)
(* src/src/mmio, src/src/system/system_bus.cpp).                           *)
(*                                                                         *)
(* Peripherals share the address map and the reset of the system bus and   *)
(* nothing else, so the model lets one of them leave the state it was      *)
(* constructed in only while it is alone: Operated and Idle are bounds.    *)
(* Timers, the DMA controller and memory are in TimerSystem and DataPath.  *)
(***************************************************************************)
EXTENDS Integers, Sequences, FiniteSets

CONSTANTS
  Kinds,           \* the peripherals of this board, of AllKinds
  Bases,           \* base addresses the program tries, in registers
  WorkBase,        \* the one at which a peripheral is operated
  MaxLive,         \* bound on the peripherals that exist at a time
  Pins, Bytes, FifoBound,
  Modes, Dividers,
  Devices, AddressOf, NoDevice,
  Channels, Volts, DefaultVref,
  SystemClockHz, CountRange, Duties

AllKinds == {"gpio", "uart", "spi", "i2c", "adc", "pwm"}

ASSUME KindsAssumption == Kinds \subseteq AllKinds
ASSUME BasesAssumption == Bases \subseteq Nat /\ WorkBase \in Bases
ASSUME BoundsAssumption == MaxLive \in Nat /\ FifoBound \in Nat
ASSUME BytesAssumption == Bytes \subseteq 0 .. 255 /\ Pins \subseteq Nat
ASSUME SpiAssumption == /\ {0, 1} \subseteq Modes /\ Modes \subseteq Nat
                        /\ Dividers \subseteq Nat /\ Dividers \ {0} # {}
ASSUME DeviceAssumption == /\ Devices # {} /\ NoDevice \notin Devices
                           /\ AddressOf \in [Devices -> 0 .. 127]
ASSUME AdcAssumption == /\ Volts \subseteq Nat /\ 0 \in Volts
                        /\ DefaultVref \in Volts \ {0} /\ Channels \subseteq Nat
ASSUME PwmAssumption == /\ SystemClockHz \in Nat \ {0}
                        /\ CountRange \in Nat /\ CountRange > SystemClockHz
                        /\ Duties \subseteq Nat

Mmio == INSTANCE MMIOBus
Gpio == INSTANCE GPIO
Uart == INSTANCE UART
Spi  == INSTANCE SPI
I2c  == INSTANCE I2C
Adc  == INSTANCE ADC
Pwm  == INSTANCE PWM

VARIABLES
  map,      \* the address map: register -> its owner
  base,     \* the base address of each live peripheral, NONE for the others
  onBus,    \* the peripherals attached to the system bus
  hal,      \* the peripherals that their HAL object is attached to
  gpio, uart, spi, i2c, adc, pwm,
  queue,    \* m_rxQueue of I2CHAL
  filled,   \* history: what last put a byte in SPI DATA that can be read there
  stored    \* history: the peripherals whose CONTROL was stored to over MMIO
            \* since their last enable(), disable() or reset()

maps == <<map, base>>
devs == <<gpio, uart, spi, i2c, adc, pwm, queue, filled, stored>>
vars == <<maps, onBus, hal, devs>>

NONE == -1
STRAY == "stray"    \* owner of a register that no live peripheral owns

Bauds == {1, 2}
Freqs == 1 .. SystemClockHz
BusAddresses == {AddressOf[d] : d \in Devices}
ReadableBytes == Bytes \cup {0, 255}

Live == {k \in Kinds : base[k] # NONE}

\* The registers of a peripheral, and those of the timer inside a PWM.
OwnBlock(k, b) == IF k = "gpio" THEN b .. b + 2 ELSE b .. b + 3
TimerBlock(k, b) == IF k = "pwm" THEN b + 4 .. b + 7 ELSE {}
Block(k, b) == OwnBlock(k, b) \cup TimerBlock(k, b)

Fits(k, b) == Mmio!Accepted(map, Block(k, b)) = Block(k, b)

(***************************************************************************)
(* What a constructor that throws leaves in the address map.  No           *)
(* destructor runs, so the registers that were accepted stay.  The timer   *)
(* of a PWM is constructed first; if it was, it is destroyed again.        *)
(***************************************************************************)
Wreck(k, b) ==
  LET timerUp == Mmio!Accepted(map, TimerBlock(k, b)) = TimerBlock(k, b)
  IN Mmio!RegisterBlock(map, IF timerUp THEN OwnBlock(k, b) ELSE TimerBlock(k, b), STRAY)

FreshGpio == Gpio!NewGPIO
FreshUart == Uart!NewUART(1)
FreshSpi == Spi!NewSPI(CHOOSE d \in Dividers : d # 0, 1)
FreshI2c == I2c!NewI2C(CHOOSE a \in BusAddresses : TRUE)
FreshAdc == Adc!NewADC(Channels, 10, DefaultVref)
FreshPwm == Pwm!NewPWM(1, 50)

Idle == <<gpio, uart, spi, i2c, adc, pwm, queue>> =
        <<FreshGpio, FreshUart, FreshSpi, FreshI2c, FreshAdc, FreshPwm, <<>> >>

Operated(k) == Live = {k} /\ base[k] = WorkBase /\ DOMAIN map = Block(k, WorkBase)

-----------------------------------------------------------------------------
Init ==
  /\ map = Mmio!NoRegisters
  /\ base = [k \in Kinds |-> NONE]
  /\ onBus = {} /\ hal = {}
  /\ gpio = FreshGpio /\ uart = FreshUart /\ spi = FreshSpi
  /\ i2c = FreshI2c /\ adc = FreshAdc /\ pwm = FreshPwm
  /\ queue = <<>> /\ filled = "nothing" /\ stored = {}

-----------------------------------------------------------------------------
(***************************************************************************)
(* Constructors, destructors and the address map.                          *)
(***************************************************************************)
Construct(k, b) ==
  /\ k \notin Live /\ Idle /\ Cardinality(Live) < MaxLive
  /\ Fits(k, b)
  /\ map' = Mmio!RegisterBlock(map, Block(k, b), k)
  /\ base' = [base EXCEPT ![k] = b]
  /\ UNCHANGED <<onBus, hal, devs>>

ConstructorThrows(k, b) ==
  /\ k \notin Live /\ Idle /\ Cardinality(Live) < MaxLive
  /\ ~Fits(k, b)
  /\ map' = Wreck(k, b)
  /\ UNCHANGED <<base, onBus, hal, devs>>

\* A program destroys only what no bus and no HAL still points to.
Destroy(k) ==
  /\ k \in Live \ (onBus \cup hal)
  /\ map' = Mmio!UnregisterBlock(map, Block(k, base[k]))
  /\ base' = [base EXCEPT ![k] = NONE]
  /\ gpio' = IF k = "gpio" THEN FreshGpio ELSE gpio
  /\ uart' = IF k = "uart" THEN FreshUart ELSE uart
  /\ spi' = IF k = "spi" THEN FreshSpi ELSE spi
  /\ i2c' = IF k = "i2c" THEN FreshI2c ELSE i2c
  /\ adc' = IF k = "adc" THEN FreshAdc ELSE adc
  /\ pwm' = IF k = "pwm" THEN FreshPwm ELSE pwm
  /\ filled' = IF k = "spi" THEN "nothing" ELSE filled
  /\ stored' = stored \ {k}
  /\ UNCHANGED <<onBus, hal, queue>>

\* The program maps a register of its own, or takes one away that no live
\* peripheral owns.
MapRegister(a) ==
  /\ ~Mmio!Contains(map, a) /\ Idle
  /\ map' = Mmio!RegisterBlock(map, {a}, STRAY)
  /\ UNCHANGED <<base, onBus, hal, devs>>

UnmapRegister(a) ==
  /\ Mmio!Contains(map, a) /\ map[a] = STRAY /\ Idle
  /\ map' = Mmio!UnregisterBlock(map, {a})
  /\ UNCHANGED <<base, onBus, hal, devs>>

-----------------------------------------------------------------------------
(***************************************************************************)
(* SystemBus::attachUART and its siblings, with an object or with null,    *)
(* and the same of the HAL classes.  UARTHAL enables what it is given.     *)
(***************************************************************************)
AttachToBus(k) ==
  /\ k \in Live
  /\ onBus' = IF k \in onBus THEN onBus \ {k} ELSE onBus \cup {k}
  /\ UNCHANGED <<maps, hal, devs>>

AttachHAL(k) ==
  /\ Operated(k) /\ k \notin hal
  /\ hal' = hal \cup {k}
  /\ uart' = IF k = "uart" THEN Uart!Enable(uart) ELSE uart
  /\ stored' = IF k = "uart" THEN stored \ {k} ELSE stored
  /\ UNCHANGED <<maps, onBus, gpio, spi, i2c, adc, pwm, queue, filled>>

DetachHAL(k) ==
  /\ k \in hal
  /\ hal' = hal \ {k}
  /\ UNCHANGED <<maps, onBus, devs>>

(***************************************************************************)
(* SystemBus::reset, as far as it reaches these peripherals.  The queue of *)
(* I2CHAL and the attachments are not part of it.                          *)
(***************************************************************************)
BusReset ==
  /\ gpio' = IF "gpio" \in onBus THEN Gpio!Reset(gpio) ELSE gpio
  /\ uart' = IF "uart" \in onBus THEN Uart!Reset(uart) ELSE uart
  /\ spi' = IF "spi" \in onBus THEN Spi!Reset(spi) ELSE spi
  /\ i2c' = IF "i2c" \in onBus THEN I2c!Reset(i2c) ELSE i2c
  /\ pwm' = IF "pwm" \in onBus THEN Pwm!Reset(pwm) ELSE pwm
  /\ adc' = IF "adc" \in onBus THEN Adc!Reset(adc, DefaultVref) ELSE adc
  /\ filled' = IF "spi" \in onBus THEN "nothing" ELSE filled
  /\ stored' = stored \ onBus
  /\ UNCHANGED <<maps, onBus, hal, queue>>

-----------------------------------------------------------------------------
(***************************************************************************)
(* A 32-bit store over the bus to the CONTROL register, or to OUT of the   *)
(* pins: the register changes and the object is not told.                  *)
(***************************************************************************)
ControlAddress(k) == base[k] + (IF k \in {"uart", "spi", "i2c"} THEN 2 ELSE 0)

Store(k, on) ==
  /\ Operated(k) /\ k # "gpio"
  /\ Mmio!Contains(map, ControlAddress(k)) /\ map[ControlAddress(k)] = k
  /\ uart' = IF k = "uart" THEN [uart EXCEPT !.enabled = on] ELSE uart
  /\ spi' = IF k = "spi" THEN [spi EXCEPT !.enabled = on, !.mode = 0] ELSE spi
  /\ i2c' = IF k = "i2c" THEN [i2c EXCEPT !.enabled = on] ELSE i2c
  /\ adc' = IF k = "adc" THEN [adc EXCEPT !.enabled = on] ELSE adc
  /\ pwm' = IF k = "pwm" THEN [pwm EXCEPT !.enabled = on] ELSE pwm
  /\ stored' = stored \cup {k}
  /\ UNCHANGED <<maps, onBus, hal, gpio, queue, filled>>

StoreOut(pin, high) ==
  /\ Operated("gpio")
  /\ gpio' = [gpio EXCEPT !.out = Gpio!With(@, pin, high)]
  /\ UNCHANGED <<maps, onBus, hal, uart, spi, i2c, adc, pwm, queue, filled, stored>>

-----------------------------------------------------------------------------
(***************************************************************************)
(* The calls of the drivers.  The ones that the HAL offers, too, are made  *)
(* through the HAL: with a null pointer inside it does nothing or throws.  *)
(***************************************************************************)
Keeps(rest) == UNCHANGED <<maps, onBus, hal, rest>>

GpioHAL ==
  /\ Operated("gpio") /\ "gpio" \in hal
  /\ \E pin \in Pins :
       \/ \E output \in BOOLEAN : gpio' = Gpio!ConfigurePin(gpio, pin, output)
       \/ \E high \in BOOLEAN : gpio' = Gpio!WritePin(gpio, pin, high)
       \/ gpio' = Gpio!TogglePin(gpio, pin)
  /\ Keeps(<<uart, spi, i2c, adc, pwm, queue, filled, stored>>)

GpioDriver ==
  /\ Operated("gpio")
  /\ \/ \E pin \in Pins, high \in BOOLEAN : gpio' = Gpio!SetExternalInput(gpio, pin, high)
     \/ gpio' = Gpio!Reset(gpio)
  /\ Keeps(<<uart, spi, i2c, adc, pwm, queue, filled, stored>>)

UartHAL ==
  /\ Operated("uart") /\ "uart" \in hal
  /\ \/ /\ \/ \E b \in Bytes : Len(uart.tx) < FifoBound /\ uart' = Uart!WriteByte(uart, b)
           \/ uart' = Uart!ReadByte(uart)
           \/ \E rate \in Bauds \cup {0} : uart' = Uart!SetBaudRate(uart, rate)
        /\ stored' = stored
     \/ uart' \in {Uart!Enable(uart), Uart!Disable(uart)} /\ stored' = stored \ {"uart"}
  /\ Keeps(<<gpio, spi, i2c, adc, pwm, queue, filled>>)

UartDriver ==
  /\ Operated("uart")
  /\ \/ /\ \/ /\ Len(uart.rx) < FifoBound
              /\ \E b \in Bytes : uart' = Uart!PushReceivedByte(uart, b)
           \/ uart' = Uart!PopTxByte(uart)
        /\ stored' = stored
     \/ uart' = Uart!Reset(uart) /\ stored' = stored \ {"uart"}
  /\ Keeps(<<gpio, spi, i2c, adc, pwm, queue, filled>>)

SpiHAL ==
  /\ Operated("spi") /\ "spi" \in hal
  /\ \/ /\ Len(spi.rx) < FifoBound
        /\ \E a \in Spi!Answers(spi, Bytes) : spi' = Spi!WriteByte(spi, a)
        /\ filled' = IF spi.enabled THEN "write" ELSE filled
        /\ stored' = stored
     \/ /\ \E a \in Spi!Answers(spi, Bytes) : spi' = Spi!Transfer(spi, a)
        /\ filled' = IF spi.enabled THEN "transfer" ELSE filled
        /\ stored' = stored
     \/ /\ spi' = Spi!ReadByte(spi)
        /\ filled' = IF spi.enabled /\ spi.rx = <<>> THEN "nothing" ELSE filled
        /\ stored' = stored
     \/ /\ \E m \in Modes \cup {4}, d \in Dividers \cup {0} : spi' = Spi!Configure(spi, m, d)
        /\ UNCHANGED <<filled, stored>>
     \/ /\ spi' \in {Spi!Enable(spi), Spi!Disable(spi)}
        /\ stored' = stored \ {"spi"} /\ filled' = filled
  /\ Keeps(<<gpio, uart, i2c, adc, pwm, queue>>)

SpiDriver ==
  /\ Operated("spi")
  /\ \/ spi' \in {Spi!AttachSlave(spi), Spi!DetachSlave(spi)} /\ UNCHANGED <<filled, stored>>
     \/ spi' = Spi!Reset(spi) /\ filled' = "nothing" /\ stored' = stored \ {"spi"}
  /\ Keeps(<<gpio, uart, i2c, adc, pwm, queue>>)

\* readByte takes from the queue of the HAL before it asks the controller, or
\* whether there is one.
I2cReadQueued ==
  /\ queue # <<>> /\ queue' = Tail(queue)
  /\ Keeps(<<gpio, uart, spi, i2c, adc, pwm, filled, stored>>)

I2cHAL ==
  /\ Operated("i2c") /\ "i2c" \in hal
  /\ \/ /\ \/ \E a \in BusAddresses, ack \in BOOLEAN : i2c' = I2c!BeginTransmission(i2c, a, ack)
           \/ i2c' = I2c!EndTransmission(i2c)
           \/ \E b \in Bytes, ack \in BOOLEAN : i2c' = I2c!WriteByte(i2c, b, ack)
           \/ queue = <<>> /\ \E b \in Bytes : i2c' = I2c!ReadByte(i2c, b)
        /\ UNCHANGED <<queue, stored>>
     \/ \E a \in BusAddresses, ack \in BOOLEAN, n \in 0 .. FifoBound :
        \E answers \in [1 .. n -> Bytes] :
          /\ i2c' = I2c!RequestFrom(i2c, a, ack, answers)
          /\ queue' = I2c!Requested(i2c, a, ack, answers)
          /\ stored' = stored
     \/ /\ i2c' \in {I2c!Enable(i2c), I2c!Disable(i2c)}
        /\ stored' = stored \ {"i2c"} /\ queue' = queue
  /\ Keeps(<<gpio, uart, spi, adc, pwm, filled>>)

I2cDriver ==
  /\ Operated("i2c")
  /\ \/ /\ \E d \in Devices : i2c' \in {I2c!AttachDevice(i2c, d), I2c!DetachDevice(i2c, d)}
        /\ stored' = stored
     \/ i2c' = I2c!Reset(i2c) /\ stored' = stored \ {"i2c"}
  /\ Keeps(<<gpio, uart, spi, adc, pwm, queue, filled>>)

AdcHAL ==
  /\ Operated("adc") /\ "adc" \in hal
  /\ \/ \E c \in Channels : adc' = Adc!Sample(adc, c) /\ stored' = stored
     \/ \E v \in Volts : adc' = Adc!SetReferenceVoltage(adc, v) /\ stored' = stored
     \/ adc' \in {Adc!Enable(adc), Adc!Disable(adc)} /\ stored' = stored \ {"adc"}
  /\ Keeps(<<gpio, uart, spi, i2c, pwm, queue, filled>>)

AdcDriver ==
  /\ Operated("adc")
  /\ \/ \E c \in Channels, v \in Volts : adc' = Adc!SetAnalogInput(adc, c, v) /\ stored' = stored
     \/ \E bits \in Adc!Resolutions \cup {9} : adc' = Adc!SetResolution(adc, bits) /\ stored' = stored
     \/ adc' = Adc!Reset(adc, DefaultVref) /\ stored' = stored \ {"adc"}
  /\ Keeps(<<gpio, uart, spi, i2c, pwm, queue, filled>>)

PwmHAL ==
  /\ Operated("pwm") /\ "pwm" \in hal
  /\ \/ \E f \in 0 .. SystemClockHz + 1 : pwm' = Pwm!SetFrequency(pwm, f) /\ stored' = stored
     \/ \E duty \in Duties : pwm' = Pwm!SetDutyCycle(pwm, duty) /\ stored' = stored
     \/ pwm' \in {Pwm!Enable(pwm), Pwm!Disable(pwm)} /\ stored' = stored \ {"pwm"}
  /\ Keeps(<<gpio, uart, spi, i2c, adc, queue, filled>>)

PwmReset ==
  /\ Operated("pwm")
  /\ pwm' = Pwm!Reset(pwm) /\ stored' = stored \ {"pwm"}
  /\ Keeps(<<gpio, uart, spi, i2c, adc, queue, filled>>)

\* The last call of SystemBus::tickTimers, in every step of the CPU.
PwmTick ==
  /\ Operated("pwm") /\ "pwm" \in onBus
  /\ pwm' = Pwm!Tick(pwm)
  /\ Keeps(<<gpio, uart, spi, i2c, adc, queue, filled, stored>>)

Next ==
  \/ \E k \in Kinds, b \in Bases : Construct(k, b) \/ ConstructorThrows(k, b)
  \/ \E k \in Kinds : Destroy(k) \/ AttachToBus(k) \/ AttachHAL(k) \/ DetachHAL(k)
  \/ \E a \in Bases : MapRegister(a) \/ UnmapRegister(a)
  \/ \E k \in Kinds, on \in BOOLEAN : Store(k, on)
  \/ \E pin \in Pins, high \in BOOLEAN : StoreOut(pin, high)
  \/ BusReset
  \/ GpioHAL \/ GpioDriver
  \/ UartHAL \/ UartDriver
  \/ SpiHAL \/ SpiDriver
  \/ I2cReadQueued \/ I2cHAL \/ I2cDriver
  \/ AdcHAL \/ AdcDriver
  \/ PwmHAL \/ PwmReset \/ PwmTick

Spec == Init /\ [][Next]_vars

\* The CPU keeps stepping, so a PWM on the system bus is ticked again and again.
FairSpec == Spec /\ WF_vars(PwmTick)

-----------------------------------------------------------------------------
\* Type invariant.
TypeOK ==
  /\ base \in [Kinds -> Bases \cup {NONE}]
  /\ \A a \in DOMAIN map : a \in Nat /\ map[a] \in Kinds \cup {STRAY}
  /\ onBus \subseteq Live /\ hal \subseteq Live /\ stored \subseteq Live
  /\ gpio \in Gpio!GpioState(Pins)
  /\ uart.tx \in Seq(Bytes) /\ uart \in Uart!UartState(ReadableBytes, Bauds)
  /\ spi \in Spi!SpiState(ReadableBytes, Modes, Dividers)
  /\ i2c \in I2c!I2cState(Devices, ReadableBytes, BusAddresses)
  /\ adc \in Adc!AdcState(Channels, Volts, Volts \ {0})
  /\ pwm \in Pwm!PwmState(Freqs, 0 .. 100)
  /\ queue \in Seq(ReadableBytes)
  /\ filled \in {"nothing", "write", "transfer"}

(***************************************************************************)
(* Every register of a live peripheral is mapped, and to that peripheral:  *)
(* neither a later constructor, nor the wreck of one that threw, nor the   *)
(* destruction of a neighbour takes a register away from it.               *)
(***************************************************************************)
LiveRegistersMapped ==
  \A k \in Live : \A a \in Block(k, base[k]) : Mmio!Contains(map, a) /\ map[a] = k

(***************************************************************************)
(* STATUS tells the truth after every call: whenever its ENABLED bit       *)
(* agrees with CONTROL (a store over MMIO can part the two), so does all   *)
(* the rest: FIFO flags, BUSY and NACK, COMPLETE and the PWM output.       *)
(***************************************************************************)
Truthful(d, statusOf) == (d.enabled <=> "ENABLED" \in d.status) => d.status = statusOf

StatusReportsState ==
  /\ Truthful(uart, Uart!StatusOf(uart))
  /\ Truthful(spi, Spi!StatusOf(spi))
  /\ Truthful(i2c, I2c!StatusOf(i2c))
  /\ Truthful(adc, Adc!StatusOf(adc))
  /\ Truthful(pwm, Pwm!StatusOf(pwm))

(***************************************************************************)
(* The device that m_activeDevice points to is still attached, and the bus *)
(* is held for it: no detach, disable, stop or reset in the middle of a    *)
(* transaction leaves the pointer dangling.                                *)
(***************************************************************************)
ActiveIsAttached ==
  i2c.active # NoDevice => i2c.busy /\ \E j \in DOMAIN i2c.devices : i2c.devices[j] = i2c.active

(***************************************************************************)
(* readByte of the SPI master falls back on DATA only for the answer of a  *)
(* transfer() that nobody has fetched, never for a byte that was in the    *)
(* buffer and has been read from there.  What transfer() itself has        *)
(* returned can be had once more, from readByte.                           *)
(***************************************************************************)
BufferedByteReadOnce == spi.hasData /\ spi.rx = <<>> => filled = "transfer"

(***************************************************************************)
(* The code of a conversion is the nearest one to the voltage on the scale *)
(* from 0 to the reference, with full scale at and above the reference.    *)
(***************************************************************************)
NearestCode ==
  \A v \in Volts :
    LET code == Adc!Convert(v, adc.vref, adc.res)
        err == code * adc.vref - v * Adc!MaxDigital(adc.res)
    IN IF v >= adc.vref THEN code = Adc!MaxDigital(adc.res)
       ELSE -adc.vref <= 2 * err /\ 2 * err <= adc.vref

(***************************************************************************)
(* A generator that enable() switched on has its timer armed with the      *)
(* period of the frequency in FREQ, whatever was set before or since.      *)
(***************************************************************************)
PeriodArmed ==
  pwm.enabled /\ "pwm" \notin stored =>
    /\ pwm.period = Pwm!PeriodOf(pwm.freq)
    /\ pwm.tm.compare = pwm.period

(***************************************************************************)
(* docs/peripherals.md: "Integrated timer-driven square wave generator."   *)
(* A generator that is on the bus and switched on, with a duty cycle that  *)
(* leaves room for both levels, gets its output low again and again.       *)
(***************************************************************************)
Generating ==
  /\ Operated("pwm") /\ "pwm" \in onBus /\ "pwm" \notin stored
  /\ pwm.enabled /\ pwm.on \in 1 .. pwm.period - 1

SquareWave == Generating ~> (~Generating \/ ~Pwm!OutputState(pwm))
=============================================================================
