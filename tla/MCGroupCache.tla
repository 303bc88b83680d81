----------------------------- MODULE MCGroupCache -----------------------------
(* Instances of GroupCache for model checking. *)
EXTENDS GroupCache, TLC

\* Two ranks on each of two SPs, on two hosts.
PairsSpOf == (0 :> "s0") @@ (1 :> "s0") @@ (2 :> "s1") @@ (3 :> "s1")
TwoHosts  == ("s0" :> "h0") @@ ("s1" :> "h1")

\* Two ranks on one SP, and an SP whose only client is not in the group.
UninvolvedSpOf == (0 :> "s0") @@ (1 :> "s0") @@ (2 :> "s1")

\* Two ranks on one SP and one on the other.
ThreeSpOf == (0 :> "s0") @@ (1 :> "s0") @@ (2 :> "s1")

\* One rank on each of three SPs, on three hosts.
SpreadSpOf == (0 :> "s0") @@ (1 :> "s1") @@ (2 :> "s2")
ThreeHosts == ("s0" :> "h0") @@ ("s1" :> "h1") @@ ("s2" :> "h2")

\* One rank on each of two SPs.
SingleSpOf == (0 :> "s0") @@ (1 :> "s1")
=============================================================================
