---------------------------- MODULE MCEpochLogOutage ----------------------------
(* Instances of EpochLogOutage for TLC. *)
EXTENDS EpochLogOutage

NoInputs == {}

=================================================================================
