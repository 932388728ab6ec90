-------------------------------- MODULE GPIO --------------------------------
(***************************************************************************)
(* The pins, class efs::drivers::gpio::GPIO (src/src/drivers/gpio/         *)
(* gpio.cpp).  Its registers DIR, OUT and IN are sets of pins.             *)
(*                                                                         *)
(* Here and in the other peripherals, a call that throws before it has     *)
(* changed anything returns the state it was given.                        *)
(***************************************************************************)
EXTENDS Naturals

MAX_PINS == 32

GpioState(pins) == [dir : SUBSET pins, out : SUBSET pins, in : SUBSET pins]

NewGPIO == [dir |-> {}, out |-> {}, in |-> {}]

With(S, pin, on) == IF on THEN S \cup {pin} ELSE S \ {pin}

ConfigurePin(g, pin, output) ==
  IF pin >= MAX_PINS THEN g ELSE [g EXCEPT !.dir = With(@, pin, output)]

IsOutputPin(g, pin) == pin \in g.dir

\* An output pin reads back what is written to it.
WritePin(g, pin, high) ==
  IF pin >= MAX_PINS \/ ~IsOutputPin(g, pin) THEN g
  ELSE [g EXCEPT !.out = With(@, pin, high), !.in = With(@, pin, high)]

ReadPin(g, pin) == pin \in g.in

TogglePin(g, pin) == WritePin(g, pin, ~ReadPin(g, pin))

SetExternalInput(g, pin, high) ==
  IF pin >= MAX_PINS \/ IsOutputPin(g, pin) THEN g
  ELSE [g EXCEPT !.in = With(@, pin, high)]

Reset(g) == NewGPIO
=============================================================================
