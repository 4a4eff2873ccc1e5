--------------------------- MODULE MCDeliveryRace ---------------------------
(* DeliveryRace with messages of the same weight. *)
EXTENDS DeliveryRace, TLC

UnitWeight(n) == 1
=============================================================================
