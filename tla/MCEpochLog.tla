------------------------------ MODULE MCEpochLog ------------------------------
(* Instances of EpochLog for TLC. *)
EXTENDS EpochLog, TLC

NoInputs == {}
Interchangeable == Permutations(Writers)

===============================================================================
