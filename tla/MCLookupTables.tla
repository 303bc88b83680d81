---------------------------- MODULE MCLookupTables ----------------------------
(* Instances of LookupTables for model checking. *)
EXTENDS LookupTables

\* The SPs are on alternating hosts; every mapping of the ranks.
AlternatingHosts == [s \in SP |-> s % NumHosts]
AllMappings == [Rank -> SP]
=============================================================================
