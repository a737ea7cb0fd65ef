------------------------- MODULE MCProducerConsumer -------------------------
(* A small instance of ProducerConsumer for TLC. *)
EXTENDS ProducerConsumer
=============================================================================
