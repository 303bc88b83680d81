---------------------------- MODULE MCEventSystem ----------------------------
(* Instances of EventSystem for TLC. *)
EXTENDS EventSystem, TLC

FiveEvents == 1..5
=============================================================================
