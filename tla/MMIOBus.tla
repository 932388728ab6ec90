------------------------------- MODULE MMIOBus -------------------------------
(***************************************************************************)
(* The address map of the MMIO bus, class efs::mmio::MMIOBus               *)
(* (src/src/mmio/mmio_bus.cpp): a function from the mapped addresses to    *)
(* the owner of the register there.  Addresses count registers, four bytes *)
(* each.  What a register holds is part of its owner's state.              *)
(***************************************************************************)
EXTENDS Naturals

NoRegisters == [a \in {} |-> 0]

Contains(bus, a) == a \in DOMAIN bus

\* Mutant: the newcomer replaces the register that is there.
RegisterOver(bus, block, owner) ==
  [a \in DOMAIN bus \cup block |-> IF a \in block THEN owner ELSE bus[a]]

(***************************************************************************)
(* The registerRegister calls of a constructor, joined by ||: one after    *)
(* another from the lowest address, up to the first that is refused.       *)
(***************************************************************************)
Accepted(bus, block) == {a \in block : \A b \in block : b <= a => ~Contains(bus, b)}

RegisterBlock(bus, block, owner) ==
  [a \in DOMAIN bus \cup Accepted(bus, block) |->
     IF a \in Accepted(bus, block) THEN owner ELSE bus[a]]

\* The unregisterRegister calls of a destructor: by address, whoever owns it.
UnregisterBlock(bus, block) == [a \in DOMAIN bus \ block |-> bus[a]]
=============================================================================
