--------------------------------- MODULE SPI ---------------------------------
(***************************************************************************)
(* The SPI master, class efs::drivers::spi::SPIController                  *)
(* (src/src/drivers/spi/spi_controller.cpp).  CONTROL holds the ENABLE bit *)
(* and the mode.  m_busy is set only while the slave is called, so it is   *)
(* not part of the state between calls; the byte the slave answers is an   *)
(* argument of the operators.                                              *)
(***************************************************************************)
EXTENDS Naturals, Sequences

RX_AVAIL == "RX_AVAIL"
ENABLED_BIT == "ENABLED"
IDLE_LINE == 255     \* what is read when no slave answers

SpiState(bytes, modes, dividers) ==
  [enabled : BOOLEAN, mode : modes, div : dividers, div0 : dividers,
   status : SUBSET {RX_AVAIL, ENABLED_BIT}, data : bytes, slave : BOOLEAN,
   rx : Seq(bytes), hasData : BOOLEAN]

HasData(s) == s.rx # <<>> \/ s.hasData

StatusOf(s) == (IF s.enabled THEN {ENABLED_BIT} ELSE {})
                 \cup (IF HasData(s) THEN {RX_AVAIL} ELSE {})

UpdateStatusRegister(s) == [s EXCEPT !.status = StatusOf(s)]

\* The constructor; it refuses a divider of 0 and a mode above 3.
NewSPI(div, mode) ==
  [enabled |-> FALSE, mode |-> mode, div |-> div, div0 |-> div, status |-> {},
   data |-> 0, slave |-> FALSE, rx |-> <<>>, hasData |-> FALSE]

Enable(s) == UpdateStatusRegister([s EXCEPT !.enabled = TRUE])
Disable(s) == UpdateStatusRegister([s EXCEPT !.enabled = FALSE])

\* What the slave, or the open line, answers.
Answers(s, bytes) == IF s.slave THEN bytes ELSE {IDLE_LINE}

\* transfer: the answer is returned, and readByte can fetch it once more.
Transfer(s, answer) ==
  IF ~s.enabled THEN s
  ELSE UpdateStatusRegister([s EXCEPT !.data = answer, !.hasData = TRUE])

WriteByte(s, answer) ==
  IF ~s.enabled THEN s
  ELSE UpdateStatusRegister([s EXCEPT !.data = answer, !.hasData = TRUE,
                                      !.rx = Append(@, answer)])

\* Mutant: emptying the buffer leaves m_rxHasData set.
ReadByteKeepsFlag(s) ==
  IF ~s.enabled \/ ~HasData(s) THEN s
  ELSE UpdateStatusRegister(IF s.rx # <<>> THEN [s EXCEPT !.rx = Tail(@)]
                                           ELSE [s EXCEPT !.hasData = FALSE])

\* readByte: the buffer first, then the DATA register; it throws if there is
\* nothing in either.
ReadByte(s) ==
  IF ~s.enabled \/ ~HasData(s) THEN s
  ELSE LET r == IF s.rx # <<>> THEN [s EXCEPT !.rx = Tail(@)]
                               ELSE [s EXCEPT !.hasData = FALSE]
       IN UpdateStatusRegister([r EXCEPT !.hasData = @ /\ r.rx # <<>>])

SetClockDivider(s, div) == IF div = 0 THEN s ELSE [s EXCEPT !.div = div]

SetMode(s, mode) == IF mode > 3 THEN s ELSE [s EXCEPT !.mode = mode]

AttachSlave(s) == [s EXCEPT !.slave = TRUE]
DetachSlave(s) == [s EXCEPT !.slave = FALSE]

\* reset(): the slave is detached and the mode is 0, not the constructor's.
Reset(s) ==
  UpdateStatusRegister([s EXCEPT !.enabled = FALSE, !.mode = 0, !.div = s.div0,
                                 !.data = 0, !.slave = FALSE, !.rx = <<>>,
                                 !.hasData = FALSE])

\* SPIHAL::configure: a divider that is refused leaves the new mode behind.
Configure(s, mode, div) ==
  IF mode > 3 THEN s ELSE SetClockDivider(SetMode(s, mode), div)
=============================================================================
