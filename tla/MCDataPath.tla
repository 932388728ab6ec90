----------------------------- MODULE MCDataPath -----------------------------
(***************************************************************************)
(* DataPath for TLC: two bytes to send, in the first two cells; a transfer *)
(* between each two ends, one that stores over the cells it fetches from,  *)
(* one that runs off the end of memory and an empty one.                   *)
(***************************************************************************)
EXTENDS DataPath, TLC

MCTransfers == {<<0, 2, 2>>, <<1, 0, 2>>, <<0, 8, 2>>, <<8, 8, 2>>,
                <<8, 2, 2>>, <<8, 3, 2>>, <<0, 2, 0>>}

MCPayload == 0 :> 1 @@ 1 :> 2
=============================================================================
