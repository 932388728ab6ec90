--------------------------------- MODULE ADC ---------------------------------
(***************************************************************************)
(* The analog to digital converter, class efs::drivers::adc::ADCController *)
(* (src/src/drivers/adc/adc_controller.cpp).  Voltages are whole numbers   *)
(* of an arbitrary unit; the quotient that the code computes in floating   *)
(* point and rounds is exact here.  RES always holds m_resolutionBits and  *)
(* DATA the last sample.                                                   *)
(***************************************************************************)
EXTENDS Integers

Resolutions == {8, 10, 12}

ENABLED_BIT == "ENABLED"
COMPLETE_BIT == "COMPLETE"

AdcState(channels, volts, refs) ==
  [enabled : BOOLEAN, status : SUBSET {ENABLED_BIT, COMPLETE_BIT},
   res : Resolutions, vref : refs, input : [channels -> volts],
   last : 0 .. 2^12 - 1]

\* COMPLETE goes with ENABLED: a conversion takes no time.
StatusOf(a) == IF a.enabled THEN {ENABLED_BIT, COMPLETE_BIT} ELSE {}

UpdateStatusRegister(a) == [a EXCEPT !.status = StatusOf(a)]

NewADC(channels, res, vref) ==
  [enabled |-> FALSE, status |-> {}, res |-> res, vref |-> vref,
   input |-> [c \in channels |-> 0], last |-> 0]

Enable(a) == UpdateStatusRegister([a EXCEPT !.enabled = TRUE])
Disable(a) == UpdateStatusRegister([a EXCEPT !.enabled = FALSE])

SetResolution(a, bits) == IF bits \in Resolutions THEN [a EXCEPT !.res = bits] ELSE a

\* Mutant: a reference of 0 is taken.
SetAnyReference(a, v) == [a EXCEPT !.vref = v]

SetReferenceVoltage(a, v) == IF v <= 0 THEN a ELSE [a EXCEPT !.vref = v]

SetAnalogInput(a, c, v) ==
  IF c \notin DOMAIN a.input \/ v < 0 THEN a ELSE [a EXCEPT !.input[c] = v]

MaxDigital(res) == 2^res - 1

\* Mutant: the code is cut off, not rounded.
ConvertTruncated(vin, vref, res) ==
  CASE vin <= 0 -> 0
    [] vin >= vref -> MaxDigital(res)
    [] OTHER -> (vin * MaxDigital(res)) \div vref

\* std::round of vin / vref * max, half up.
Convert(vin, vref, res) ==
  CASE vin <= 0 -> 0
    [] vin >= vref -> MaxDigital(res)
    [] OTHER -> (2 * vin * MaxDigital(res) + vref) \div (2 * vref)

Sample(a, c) ==
  IF ~a.enabled \/ c \notin DOMAIN a.input THEN a
  ELSE UpdateStatusRegister([a EXCEPT !.last = Convert(a.input[c], a.vref, a.res)])

\* reset() goes to 12 bits and 3.3 V, whatever the constructor was given.
Reset(a, volts33) ==
  UpdateStatusRegister([a EXCEPT !.enabled = FALSE, !.res = 12, !.vref = volts33,
                                 !.input = [c \in DOMAIN a.input |-> 0],
                                 !.last = 0])
=============================================================================
