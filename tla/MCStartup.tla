------------------------------- MODULE MCStartup -------------------------------
(* Instances of Startup for model checking. *)
EXTENDS Startup

TwoDpus == <<"a", "b">>
ThreeDpus == <<"a", "b", "c">>

\* Files with the DPUs of the list, in its order or in another one, and one that
\* the job does not use; each SP has a port of its own.
OwnPorts == [d \in {"a", "b", "x"} |-> CASE d = "a" -> <<1, 2>>
                                          [] d = "b" -> <<3, 4>>
                                          [] OTHER   -> <<5, 6>>]
TwoDpuConfigs ==
  [file : {<<"a", "x", "b">>, <<"b", "x", "a">>}, ports : {OwnPorts}]
ThreeDpuConfigs == [file : {ThreeDpus}, ports : {[d \in {"a", "b", "c"} |-> <<1>>]}]
=============================================================================
