-------------------------- MODULE MCEvaluatorCommand --------------------------
(* Instances of EvaluatorCommand for TLC.  The negative number has the        *)
(* longest text and is 0 in 8 bits, as is every multiple of 256.              *)
EXTENDS EvaluatorCommand

MCNumbers == {-1000000000, 4, 258}

=============================================================================
