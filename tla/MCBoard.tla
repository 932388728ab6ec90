------------------------------- MODULE MCBoard -------------------------------
(***************************************************************************)
(* Board for TLC: two devices share an address, so that the first one      *)
(* attached answers, and a third has its own.                              *)
(***************************************************************************)
EXTENDS Board, TLC

CONSTANTS d1, d2, d3

MCAddressOf == d1 :> 80 @@ d2 :> 80 @@ d3 :> 81

MCKinds == AllKinds
=============================================================================
