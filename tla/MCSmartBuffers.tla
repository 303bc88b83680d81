---------------------------- MODULE MCSmartBuffers ----------------------------
(* An instance of SmartBuffers for model checking. *)
EXTENDS SmartBuffers

\* Two buckets, of two chunks and of one.
TwoSizes == <<2, 4>>
=============================================================================
