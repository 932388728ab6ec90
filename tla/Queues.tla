------------------------------- MODULE Queues -------------------------------
(***************************************************************************)
(* Operations the simulator performs on its std::vector work lists beyond  *)
(* the ones of the library modules.                                        *)
(***************************************************************************)
EXTENDS Integers, Sequences

(***************************************************************************)
(* The elements of s that are in the set keep, in their order in s: what   *)
(* an erase-while-iterating loop leaves in, or takes out of, a vector.     *)
(* (SelectSeq with its test given as a set: an operator argument would put *)
(* it out of reach of the provers.)                                        *)
(***************************************************************************)
FilterSeq(s, keep) ==
  LET kept[i \in 0 .. Len(s)] ==
        IF i = 0 THEN << >>
        ELSE IF s[i] \in keep THEN Append(kept[i - 1], s[i]) ELSE kept[i - 1]
  IN kept[Len(s)]
=============================================================================
