---------------------------- MODULE MCTrainingRun ----------------------------
(* TLC instances of TrainingRun: all its constants are numbers or names. *)
EXTENDS TrainingRun
=============================================================================
