--------------------------- MODULE MCRelayerRewards ---------------------------
(***************************************************************************)
(* Model-checking instance of RelayerRewards.                              *)
(***************************************************************************)
EXTENDS RelayerRewards

CONSTANTS r1, r2

MCRelayers == {r1, r2}
MCParaHead == <<1, 1, 2>>       \* the second block brings no new head
MCDeliverer == <<r1, r2>>
=============================================================================
