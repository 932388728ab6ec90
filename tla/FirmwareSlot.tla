---------------------------- MODULE FirmwareSlot ----------------------------
(***************************************************************************)
(* What firmware management promises, in the words of firmware_manager.hpp *)
(* ("Shuts down previous active firmware first"): at most one firmware is  *)
(* up at any time, and the peripherals are handed from one firmware to     *)
(* another only through a moment in which none is up.                      *)
(***************************************************************************)
CONSTANTS Images,    \* the firmware objects
          NoImage    \* the null pointer

VARIABLE up          \* the firmware that is initialized and not shut down

Init == up = NoImage

BringUp(f) == up = NoImage /\ up' = f

TakeDown == up # NoImage /\ up' = NoImage

Next == (\E f \in Images : BringUp(f)) \/ TakeDown

Spec == Init /\ [][Next]_up
=============================================================================
