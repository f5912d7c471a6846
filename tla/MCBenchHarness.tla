---------------------------- MODULE MCBenchHarness ----------------------------
(* Three tests for TLC: the last one, as tflite, has no warm-up. *)
EXTENDS BenchHarness

MCWarmed == {1, 2}
=============================================================================
