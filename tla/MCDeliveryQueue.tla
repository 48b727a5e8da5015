--------------------------- MODULE MCDeliveryQueue ---------------------------
(* DeliveryQueue on small sets, for TLC. *)
EXTENDS DeliveryQueue
=============================================================================
