-------------------------- MODULE TerminationDaemon --------------------------
(***************************************************************************)
(* Termination, with the job_persistent daemon around it: an SP leaves its *)
(* loop when the server for its host is done and calls                     *)
(* offload_engine_fini, which calls client_fini on every client that was   *)
(* not freed yet.                                                          *)
(***************************************************************************)
EXTENDS Termination, FiniteSetsExt

VARIABLE pc   \* what each daemon does: "loop", "fini", "wait" or "exit"

daemon_vars == <<vars, pc>>

\* The clients that are left, the first of which is finalized.
Left(i) == {j \in Servers(i) : sp[i].ctx[j].there}

DaemonInit == Init /\ pc = [i \in SP |-> "loop"]

\* The handlers run when the daemon progresses its engine, and while it waits
\* for the client that it finalizes.
Handlers(i) ==
  /\ UNCHANGED pc
  /\ \/ pc[i] = "loop" /\ RecvFromRank(i)
     \/ pc[i] \in {"loop", "wait"} /\ \E j \in Clients(i) : RecvFromSp(i, j)
     \/ pc[i] = "loop" /\ \E j \in Servers(i) : TermCompleted(i, j)
     \/ pc[i] = "wait" /\ Left(i) # {} /\ TermCompleted(i, Min(Left(i)))

LeaveLoop(i) ==
  /\ pc[i] = "loop" /\ sp[i].host_done
  /\ pc' = [pc EXCEPT ![i] = "fini"]
  /\ UNCHANGED vars

\* client_fini up to its loop.  A second message needs the endpoint of the
\* server, which is gone when the first one completed.
FiniClient(i) ==
  /\ pc[i] = "fini" /\ Left(i) # {}
  /\ LET j == Min(Left(i)) IN
       /\ sp' = [sp EXCEPT ![i] = ClientFiniNb(@, j)]
       /\ term' = [term EXCEPT ![i][j] = IF sp[i].ctx[j].ep THEN @ + 1 ELSE @]
       /\ failed' = failed \cup Check(sp[i].ctx[j].ep, "server_ep")
  /\ pc' = [pc EXCEPT ![i] = "wait"]

\* client_fini after its loop.
ClientFreed(i) ==
  /\ pc[i] = "wait"
  /\ Left(i) # {} => sp[i].ctx[Min(Left(i))].done
  /\ sp' = [sp EXCEPT ![i].ctx = [j \in Servers(i) |->
              IF j \in Left(i) /\ j = Min(Left(i)) THEN [@[j] EXCEPT !.there = FALSE] ELSE @[j]]]
  /\ pc' = [pc EXCEPT ![i] = "fini"]
  /\ UNCHANGED <<term, failed>>

Exit(i) ==
  /\ pc[i] = "fini" /\ Left(i) = {}
  /\ pc' = [pc EXCEPT ![i] = "exit"]
  /\ UNCHANGED vars

DaemonNext ==
  \E i \in SP : Handlers(i) \/ LeaveLoop(i) \/ FiniClient(i) \/ ClientFreed(i) \/ Exit(i)

DaemonSpec == DaemonInit /\ [][DaemonNext]_daemon_vars

\* The assertion of term_msg_cb that a client is still connected when a
\* termination message arrives.
ConnectedWhenTermArrives == "num_connected_clients" \notin failed
=============================================================================
