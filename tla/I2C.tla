--------------------------------- MODULE I2C ---------------------------------
(***************************************************************************)
(* The I2C master, class efs::drivers::i2c::I2CController                  *)
(* (src/src/drivers/i2c/i2c_controller.cpp), the devices on its wires and  *)
(* the transactions of I2CHAL.  m_rxBuffer is never filled and             *)
(* m_isReadMode never read, so neither is here.  What a device             *)
(* acknowledges and answers is an argument of the operators: the           *)
(* repository's simulated device can be told either at any time.           *)
(***************************************************************************)
EXTENDS Naturals, Sequences, SequencesExt

CONSTANTS AddressOf,   \* the 7-bit address of each device
          NoDevice     \* the null device pointer

ENABLED_BIT == "ENABLED"
BUSY_BIT == "BUSY"
NACK_BIT == "NACK"

I2cState(devs, bytes, addresses) ==
  [enabled : BOOLEAN, addr : addresses, addr0 : addresses,
   devices : Seq(devs), active : devs \cup {NoDevice}, busy : BOOLEAN,
   lastAck : BOOLEAN, data : bytes,
   status : SUBSET {ENABLED_BIT, BUSY_BIT, NACK_BIT}]

StatusOf(i) == (IF i.enabled THEN {ENABLED_BIT} ELSE {})
                 \cup (IF i.busy THEN {BUSY_BIT} ELSE {})
                 \cup (IF i.busy /\ ~i.lastAck THEN {NACK_BIT} ELSE {})

UpdateStatusRegister(i) == [i EXCEPT !.status = StatusOf(i)]

NewI2C(address) ==
  [enabled |-> FALSE, addr |-> address, addr0 |-> address, devices |-> <<>>,
   active |-> NoDevice, busy |-> FALSE, lastAck |-> FALSE, data |-> 0,
   status |-> {}]

Enable(i) == UpdateStatusRegister([i EXCEPT !.enabled = TRUE])

Disable(i) == UpdateStatusRegister(
                [i EXCEPT !.enabled = FALSE, !.busy = FALSE, !.active = NoDevice])

\* The first attached device that has the address in ADDR.
Called(i) ==
  LET answering == {j \in DOMAIN i.devices : AddressOf[i.devices[j]] = i.addr}
  IN IF answering = {} THEN NoDevice ELSE i.devices[Min(answering)]

Start(i, ack) ==
  LET acked == ack /\ Called(i) # NoDevice
  IN IF ~i.enabled THEN i
     ELSE UpdateStatusRegister([i EXCEPT !.busy = TRUE, !.lastAck = acked,
                                         !.active = IF acked THEN Called(i)
                                                             ELSE NoDevice])

Stop(i) == UpdateStatusRegister([i EXCEPT !.active = NoDevice, !.busy = FALSE])

WriteByte(i, b, ack) ==
  IF ~i.enabled \/ ~i.busy THEN i
  ELSE UpdateStatusRegister([i EXCEPT !.lastAck = ack /\ i.active # NoDevice,
                                      !.data = b])

\* When readByte returns; otherwise it throws.
CanRead(i) == i.enabled /\ i.busy /\ i.active # NoDevice

ReadByte(i, b) ==
  IF ~CanRead(i) THEN i ELSE UpdateStatusRegister([i EXCEPT !.data = b])

SetSlaveAddress(i, a) == [i EXCEPT !.addr = a % 128]

AttachDevice(i, d) ==
  IF Contains(i.devices, d) THEN i ELSE [i EXCEPT !.devices = Append(@, d)]

\* Mutant: the pointer of the open transaction is left behind.
DetachKeepsActive(i, d) == [i EXCEPT !.devices = RemoveFirst(@, d)]

\* In the middle of a transaction too, which then goes on with no device.
DetachDevice(i, d) ==
  [i EXCEPT !.devices = RemoveFirst(@, d),
            !.active = IF @ = d THEN NoDevice ELSE @]

Reset(i) ==
  UpdateStatusRegister([Disable(i) EXCEPT !.devices = <<>>, !.data = 0,
                                          !.addr = i.addr0, !.lastAck = FALSE])

-----------------------------------------------------------------------------
(***************************************************************************)
(* I2CHAL.  Both of its transactions change ADDR before start() can refuse *)
(* them; requestFrom has dropped what was queued by then, too.             *)
(***************************************************************************)
BeginTransmission(i, a, ack) == Start(SetSlaveAddress(i, a), ack)

EndTransmission(i) == Stop(i)

\* The bytes that requestFrom queues, of those that the device has for it: none
\* if start() throws, even if a transaction is still open.
Requested(i, a, ack, answers) ==
  IF i.enabled /\ BeginTransmission(i, a, ack).active # NoDevice THEN answers ELSE <<>>

RequestFrom(i, a, ack, answers) ==
  LET s == BeginTransmission(i, a, ack)
      got == Requested(i, a, ack, answers)
  IN IF ~i.enabled THEN s
     ELSE Stop(IF got = <<>> THEN s ELSE ReadByte(s, Last(got)))
=============================================================================
