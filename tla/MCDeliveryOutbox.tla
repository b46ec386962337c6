-------------------------- MODULE MCDeliveryOutbox --------------------------
(* Model checking DeliveryOutbox: the instances are in the configurations.   *)
EXTENDS DeliveryOutbox, TLC

=============================================================================
