------------------------ MODULE MCConfigDistribution ------------------------
(* A consumer for checking ConfigDistribution with TLC. *)
EXTENDS ConfigDistribution

CONSTANT a
OneConsumer == {a}
=============================================================================
