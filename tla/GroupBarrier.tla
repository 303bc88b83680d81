----------------------------- MODULE GroupBarrier -----------------------------
(***************************************************************************)
(* What the group cache promises to the ranks that create and free a group *)
(* again and again: every instantiation of the group is a pair of          *)
(* barriers.  A rank sees the group populated only after every rank        *)
(* created this instantiation, and sees it revoked only after every rank   *)
(* freed it.                                                               *)
(***************************************************************************)
EXTENDS Naturals

CONSTANTS Member, MaxCreates

VARIABLES
  creates,   \* [Member -> how often the rank created the group]
  seen,      \* [Member -> the last instantiation the rank saw populated]
  frees,     \* [Member -> how often the rank freed the group]
  revoked    \* [Member -> the last instantiation the rank saw revoked]

bvars == <<creates, seen, frees, revoked>>

BInit ==
  /\ creates = [r \in Member |-> 0]
  /\ seen = [r \in Member |-> 0]
  /\ frees = [r \in Member |-> 0]
  /\ revoked = [r \in Member |-> 0]

BCreate(r) ==
  /\ creates[r] = frees[r] /\ creates[r] < MaxCreates
  /\ creates' = [creates EXCEPT ![r] = @ + 1]
  /\ UNCHANGED <<seen, frees, revoked>>

BPopulate(r) ==
  /\ \A s \in Member : creates[s] > seen[r]
  /\ seen[r] = revoked[r]
  /\ seen' = [seen EXCEPT ![r] = @ + 1]
  /\ UNCHANGED <<creates, frees, revoked>>

BFree(r) ==
  /\ seen[r] = creates[r] /\ frees[r] < creates[r]
  /\ frees' = [frees EXCEPT ![r] = @ + 1]
  /\ UNCHANGED <<creates, seen, revoked>>

BRevoke(r) ==
  /\ \A s \in Member : frees[s] > revoked[r]
  /\ revoked' = [revoked EXCEPT ![r] = @ + 1]
  /\ UNCHANGED <<creates, seen, frees>>

BNext == \E r \in Member : BCreate(r) \/ BPopulate(r) \/ BFree(r) \/ BRevoke(r)

BSpec == BInit /\ [][BNext]_bvars
=============================================================================
