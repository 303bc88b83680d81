----------------------------- MODULE Termination -----------------------------
(***************************************************************************)
(* Termination of the service processes (SPs).                             *)
(*                                                                         *)
(* The SPs are fully connected: SP i is a client of every SP with a higher *)
(* global ID and a server for every SP with a lower one.  Each also has a  *)
(* server for the ranks of its host.  When the last rank left, the SP      *)
(* sends a termination message over every connection in which it is the    *)
(* client.  An engine is terminated when it has neither active clients nor *)
(* active servers; the execution contexts of its clients are then freed.   *)
(*                                                                         *)
(* This module has the handlers.  Startup puts the establishment of the    *)
(* connections before them, and TerminationDaemon the finalization of the  *)
(* job_persistent daemon after them.                                       *)
(***************************************************************************)
EXTENDS Integers, FiniteSets

CONSTANTS
  NumSps,      \* the number of SPs
  NumRanks     \* the number of ranks connected to each SP

ASSUME TerminationAssumption ==
  NumSps \in Nat \ {0} /\ NumRanks \in Nat \ {0}

VARIABLES
  sp,       \* the SPs
  term,     \* term[i][j]: termination messages on their way from SP i to SP j
  failed    \* the assertions that did not hold

vars == <<sp, term, failed>>

SP == 0..(NumSps - 1)

\* The SPs that i is a client of; the ones it is a server for.
Servers(i) == {j \in SP : j > i}
Clients(i) == {j \in SP : j < i}

-----------------------------------------------------------------------------
(* Operations on the state of one SP *)

\* The engine is terminated: its clients are freed.
Terminated(s) ==
  [s EXCEPT !.terminated = TRUE,
            !.ctx = [j \in DOMAIN @ |-> [@[j] EXCEPT !.there = FALSE]]]

\* update_engine_state.  (OnlyClients: the servers do not count.)
OnlyClients(s) ==
  IF s.clients_active = 0 THEN Terminated(s) ELSE s
UpdateEngineState(s) ==
  IF s.clients_active = 0 /\ s.servers_active = 0 THEN Terminated(s) ELSE s

\* client_fini_nb: the message is sent through the endpoint of the server, and
\* its event is remembered, whether there was one or not.
ClientFiniNb(s, j) == [s EXCEPT !.ctx[j].ev = TRUE]

\* term_notification_completed, after event_return.  (WrongCounter: the client
\* is counted off the servers.  NoUpdate: the engine's state is left alone.)
ClientDone(s, j) ==
  [s EXCEPT !.ctx[j].ev = FALSE, !.ctx[j].ep = FALSE, !.ctx[j].done = TRUE]
WrongCounter(s, j) ==
  UpdateEngineState([ClientDone(s, j) EXCEPT !.servers_active = @ - 1])
NoUpdate(s, j) ==
  [ClientDone(s, j) EXCEPT !.clients_active = @ - 1]
TermNotificationCompleted(s, j) ==
  UpdateEngineState([ClientDone(s, j) EXCEPT !.clients_active = @ - 1])

\* disconnect_to_service_procs
Disconnect(s) == [s EXCEPT !.ctx = [j \in DOMAIN @ |-> ClientFiniNb(s, j).ctx[j]]]

\* term_msg_cb of the server for the host: when it is done, the SP disconnects
\* from the other SPs, and the engine's state is left alone.
RankLeft(s) ==
  IF s.ranks = 1
  THEN Disconnect([s EXCEPT !.ranks = 0, !.host_done = TRUE, !.servers_active = @ - 1])
  ELSE [s EXCEPT !.ranks = @ - 1]

\* term_msg_cb of the server for other SPs: it is done when no SP is connected or
\* connecting.  (FirstLeft: one message will do.)
InterDone(s) ==
  UpdateEngineState([s EXCEPT !.peers = @ - 1, !.inter_done = TRUE, !.servers_active = @ - 1])
FirstLeft(s) == InterDone(s)
LastPeer(s) == s.peers = 1 /\ s.ongoing = 0
PeerLeft(s) == IF LastPeer(s) THEN InterDone(s) ELSE [s EXCEPT !.peers = @ - 1]

\* The assertion called name, which the callback makes.
Check(cond, name) == IF cond THEN {} ELSE {name}

-----------------------------------------------------------------------------
(* The handlers *)

\* All connections are established.
Init ==
  /\ sp = [i \in SP |->
             [ranks |-> NumRanks, host_done |-> FALSE,
              peers |-> Cardinality(Clients(i)), ongoing |-> 0, inter_done |-> FALSE,
              servers_active |-> IF Clients(i) = {} THEN 1 ELSE 2,
              clients_active |-> Cardinality(Servers(i)),
              ctx |-> [j \in Servers(i) |->
                         [ep |-> TRUE, ev |-> FALSE, done |-> FALSE, there |-> TRUE]],
              terminated |-> FALSE]]
  /\ term = [i \in SP |-> [j \in Servers(i) |-> 0]]
  /\ failed = {}

\* A rank on the host of i terminated, and its message arrives.
RecvFromRank(i) ==
  /\ sp[i].ranks > 0
  /\ sp' = [sp EXCEPT ![i] = RankLeft(@)]
  /\ term' = [term EXCEPT ![i] = [j \in Servers(i) |->
                 IF sp'[i].host_done THEN @[j] + 1 ELSE @[j]]]
  /\ failed' = failed \cup
       Check(sp[i].ranks # 1 \/ sp[i].servers_active > 0, "servers.num_active")

\* A termination message of SP j arrives at SP i.
RecvFromSp(i, j) ==
  /\ term[j][i] > 0
  /\ term' = [term EXCEPT ![j][i] = @ - 1]
  /\ sp' = [sp EXCEPT ![i] = PeerLeft(@)]
  /\ failed' = failed
       \cup Check(sp[i].peers > 0, "num_connected_clients")
       \cup Check(LastPeer(sp[i]) => sp[i].servers_active > 0, "servers.num_active")

\* execution_context_progress of the client of i for j: the event of the
\* termination message completed.
TermCompleted(i, j) ==
  /\ sp[i].ctx[j].there /\ sp[i].ctx[j].ev
  /\ sp' = [sp EXCEPT ![i] = TermNotificationCompleted(@, j)]
  /\ failed' = failed \cup Check(sp[i].clients_active > 0, "clients.num_active")
  /\ UNCHANGED term

-----------------------------------------------------------------------------
(* Properties *)

\* The assertions of term_msg_cb and term_notification_completed hold: no
\* message arrives without a client still connected, and no server or client
\* is taken off the engine's active ones twice.
AssertionsHold == failed = {}

\* An SP that considers itself terminated has freed its clients.  By then its
\* own ranks and those of every SP with a lower ID have left, and nothing that
\* these SPs sent is still on its way.
TerminatedLast ==
  \A i \in SP : sp[i].terminated =>
    /\ \A j \in SP : j <= i => sp[j].host_done
    /\ \A j \in Clients(i) : term[j][i] = 0
=============================================================================
