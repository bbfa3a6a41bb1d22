---------------------------- MODULE MCExperiment ----------------------------
(* Instances of Experiment for TLC. *)
EXTENDS Experiment

CONSTANTS a, b, c, d

TwoBatches == <<<<a, b>>, <<c, d>>>>
=============================================================================
