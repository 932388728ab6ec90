-------------------------------- MODULE UART --------------------------------
(***************************************************************************)
(* The serial port, class efs::drivers::uart::UART (src/src/drivers/uart/  *)
(* uart.cpp): the registers DATA, STATUS, CONTROL (its ENABLE bit) and     *)
(* BAUD, and the two FIFOs.                                                *)
(***************************************************************************)
EXTENDS Naturals, Sequences

TX_EMPTY == "TX_EMPTY"
RX_AVAIL == "RX_AVAIL"
ENABLED_BIT == "ENABLED"

UartState(bytes, bauds) ==
  [enabled : BOOLEAN, tx : Seq(bytes), rx : Seq(bytes), data : bytes,
   baud : bauds, status : SUBSET {TX_EMPTY, RX_AVAIL, ENABLED_BIT}]

StatusOf(u) == (IF u.tx = <<>> THEN {TX_EMPTY} ELSE {})
                 \cup (IF u.rx # <<>> THEN {RX_AVAIL} ELSE {})
                 \cup (IF u.enabled THEN {ENABLED_BIT} ELSE {})

UpdateStatusRegister(u) == [u EXCEPT !.status = StatusOf(u)]

\* The constructor, with a baud rate other than 0.
NewUART(baud) == [enabled |-> FALSE, tx |-> <<>>, rx |-> <<>>, data |-> 0,
                  baud |-> baud, status |-> {TX_EMPTY}]

Enable(u) == UpdateStatusRegister([u EXCEPT !.enabled = TRUE])
Disable(u) == UpdateStatusRegister([u EXCEPT !.enabled = FALSE])

\* When writeByte and readByte return; otherwise they throw.
CanWrite(u) == u.enabled
CanRead(u) == u.enabled /\ u.rx # <<>>

WriteByte(u, b) ==
  IF ~CanWrite(u) THEN u
  ELSE UpdateStatusRegister([u EXCEPT !.tx = Append(@, b), !.data = b])

\* Mutant: the status is not refreshed when the last byte leaves.
ReadByteOnly(u) ==
  IF ~CanRead(u) THEN u
  ELSE [u EXCEPT !.rx = Tail(@), !.data = Head(u.rx)]

\* readByte; it returns Head(u.rx).
ReadByte(u) ==
  IF ~CanRead(u) THEN u
  ELSE UpdateStatusRegister([u EXCEPT !.rx = Tail(@), !.data = Head(u.rx)])

PushReceivedByte(u, b) ==
  IF ~u.enabled THEN u ELSE UpdateStatusRegister([u EXCEPT !.rx = Append(@, b)])

\* popTxByte works on a disabled port too.
PopTxByte(u) ==
  IF u.tx = <<>> THEN u ELSE UpdateStatusRegister([u EXCEPT !.tx = Tail(@)])

SetBaudRate(u, baud) == IF baud = 0 THEN u ELSE [u EXCEPT !.baud = baud]

\* reset() keeps the baud rate.
Reset(u) == UpdateStatusRegister([u EXCEPT !.enabled = FALSE, !.tx = <<>>,
                                          !.rx = <<>>, !.data = 0])
=============================================================================
