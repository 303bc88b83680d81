------------------------------- MODULE Startup -------------------------------
(***************************************************************************)
(* The life of the service processes (SPs) of a job: each one reads the    *)
(* list of DPUs and the configuration file, derives from them which SPs    *)
(* connect to it and to which it connects, starts a server for the former, *)
(* connects to the latter, and when it is connected to all starts the      *)
(* server for the ranks of its host.  From there on Termination applies.   *)
(*                                                                         *)
(* Nobody tells an SP what the others decided.  A connection is made by    *)
(* three threads: the client's main thread, which connects to one server   *)
(* after the other; connect_thread of the server, which accepts; and the   *)
(* server's main thread, which only progresses once it has connected to    *)
(* all its own servers.                                                    *)
(***************************************************************************)
EXTENDS Termination, Sequences, Functions

CONSTANTS
  ListDpus,     \* the list of DPUs, in the environment of all SPs
  SpsPerDpu,    \* num_service_procs_per_dpu, in the environment of all SPs
  Configs,      \* the configuration files: order of the DPUs, and their ports
  WorldFirst    \* do ranks wait for the cache of the world group before they leave?

ASSUME StartupAssumption ==
  /\ SpsPerDpu \in Nat \ {0} /\ NumSps = Len(ListDpus) * SpsPerDpu
  /\ IsInjective(ListDpus)
  /\ \A c \in Configs :
       /\ Range(ListDpus) \subseteq Range(c.file) /\ IsInjective(c.file)
       /\ \A d \in Range(c.file) : Len(c.ports[d]) = SpsPerDpu /\ IsInjective(c.ports[d])
       /\ \A d, e \in Range(c.file) : \/ c.ports[d] = c.ports[e]
                                      \/ Range(c.ports[d]) \cap Range(c.ports[e]) = {}
  /\ WorldFirst \in BOOLEAN

VARIABLES
  config,      \* the configuration file of the job
  pc,          \* where the daemons are: "config", "connect", "wait" or "run"
  plan,        \* what each SP made of the list of DPUs
  link,        \* link[i][j]: client of i for j: "none", "oob", "sent" or "done"
  slot,        \* slot[j][i]: SP i at the server of j: "none", "oob", "done" or "gone"
  accepting,   \* whether connect_thread of an SP runs
  connected    \* num_connected_service_procs

startup_vars == <<vars, config, pc, plan, link, slot, accepting, connected>>
static == <<config, plan>>

\* Before the list is parsed.
NoPlan == [pre |-> TRUE, num_dpus |-> 0, from |-> 0, to |-> <<>>]

-----------------------------------------------------------------------------
(* The list of DPUs *)

\* The environment of SP i.
Me(i) == [global_id |-> i, local_id |-> i % SpsPerDpu, dpu |-> ListDpus[(i \div SpsPerDpu) + 1]]

\* dpu_offload_parse_list_dpus, for one DPU of the list.  On its own DPU an SP
\* connects to the SPs after it.  (TooLow: to the ones from itself on.)
TooLow(me, p, dpu) ==
  IF dpu = me.dpu
  THEN [p EXCEPT !.pre = FALSE, !.num_dpus = @ + 1, !.from = @ + me.local_id,
                 !.to = @ \o [k \in 1..(SpsPerDpu - me.local_id - 1) |-> me.global_id + k - 1]]
  ELSE IF p.pre
  THEN [p EXCEPT !.num_dpus = @ + 1, !.from = @ + SpsPerDpu]
  ELSE [p EXCEPT !.num_dpus = @ + 1,
                 !.to = @ \o [k \in 1..SpsPerDpu |-> p.num_dpus * SpsPerDpu + k - 1]]
ParseDpu(me, p, dpu) ==
  IF dpu = me.dpu
  THEN [p EXCEPT !.pre = FALSE, !.num_dpus = @ + 1, !.from = @ + me.local_id,
                 !.to = @ \o [k \in 1..(SpsPerDpu - me.local_id - 1) |-> me.global_id + k]]
  ELSE IF p.pre
  THEN [p EXCEPT !.num_dpus = @ + 1, !.from = @ + SpsPerDpu]
  ELSE [p EXCEPT !.num_dpus = @ + 1,
                 !.to = @ \o [k \in 1..SpsPerDpu |-> p.num_dpus * SpsPerDpu + k - 1]]
ParseList(me) ==
  LET parsed[k \in 0..Len(ListDpus)] ==
        IF k = 0 THEN NoPlan ELSE ParseDpu(me, parsed[k - 1], ListDpus[k])
  IN  parsed[Len(ListDpus)]

(* The configuration file *)

\* parse_line_dpu_version_1: the DPUs that are not on the list are skipped, and
\* the ports of the SPs of the others are stored in the order of the file.
\* (NoneSkipped: those of all DPUs are stored.)
Stored(c, dpus) ==
  [n \in 1..NumSps |-> c.ports[dpus[((n - 1) \div SpsPerDpu) + 1]][((n - 1) % SpsPerDpu) + 1]]
NoneSkipped(c) == Stored(c, c.file)
SpsConfig(c) == Stored(c, SelectSeq(c.file, LAMBDA d : d \in Range(ListDpus)))
OwnPort(c, i) == c.ports[Me(i).dpu][Me(i).local_id + 1]

\* The SPs that listen where an SP connects to reach j: at the address of j's DPU
\* and at the port that was stored for j's global ID.
Reached ==
  [c \in Configs |-> [j \in SP |->
     {k \in SP : Me(k).dpu = Me(j).dpu /\ OwnPort(c, k) = SpsConfig(c)[j + 1]}]]

\* The files that list the DPUs in the same order as the list.
Consistent ==
  {c \in Configs : SelectSeq(c.file, LAMBDA d : d \in Range(ListDpus)) = ListDpus}

-----------------------------------------------------------------------------
(* Connecting: operations on the state of one SP *)

\* server_init, and the first part of client_init.
ServerStarted(s) == [s EXCEPT !.servers_active = @ + 1]
ClientStarted(s, j) == [s EXCEPT !.clients_active = @ + 1, !.ctx[j].there = TRUE]

\* client_ucx_bootstrap_step1: the endpoint of the server.
EndpointCreated(s, j) == [s EXCEPT !.ctx[j].ep = TRUE]

\* The server: a client is accepted by oob_server_listen, and is connected.
ClientAccepted(s) == [s EXCEPT !.ongoing = @ + 1]
ClientFinalized(s) == [s EXCEPT !.ongoing = @ - 1, !.peers = @ + 1]

(* Connecting: the steps *)

StartupInit ==
  /\ sp = [i \in SP |->
             [ranks |-> NumRanks, host_done |-> FALSE,
              peers |-> 0, ongoing |-> 0, inter_done |-> FALSE,
              servers_active |-> 0, clients_active |-> 0,
              ctx |-> [j \in Servers(i) |->
                         [ep |-> FALSE, ev |-> FALSE, done |-> FALSE, there |-> FALSE]],
              terminated |-> FALSE]]
  /\ term = [i \in SP |-> [j \in Servers(i) |-> 0]]
  /\ failed = {}
  /\ config \in Configs
  /\ pc = [i \in SP |-> "config"]
  /\ plan = [i \in SP |-> NoPlan]
  /\ link = [i \in SP |-> [j \in Servers(i) |-> "none"]]
  /\ slot = [j \in SP |-> [i \in Clients(j) |-> "none"]]
  /\ accepting = [i \in SP |-> FALSE]
  /\ connected = [i \in SP |-> 0]

\* get_dpu_config, and inter_dpus_connect_mgr up to its connections: the server is
\* started if there are SPs that connect to it.
StartServer(i) ==
  /\ pc[i] = "config"
  /\ pc' = [pc EXCEPT ![i] = "connect"]
  /\ plan' = [plan EXCEPT ![i] = ParseList(Me(i))]
  /\ IF plan'[i].from > 0
     THEN /\ sp' = [sp EXCEPT ![i] = ServerStarted(@)]
          /\ accepting' = [accepting EXCEPT ![i] = TRUE]
     ELSE UNCHANGED <<sp, accepting>>
  /\ UNCHANGED <<config, term, failed, link, slot, connected>>

\* The SP to which i connects next.
Target(i) == plan[i].to[Cardinality({j \in Servers(i) : link[i][j] # "none"}) + 1]

\* connect_to_remote_service_proc: the client connects, again and again, until
\* connect_thread of the server accepts it.  The thread returns when it finds
\* the server done.
Connect(i) ==
  /\ pc[i] = "connect"
  /\ \E j \in Servers(i) :
       /\ link[i][j] = "none" /\ j = Target(i)
       /\ j \in Reached[config][j] /\ accepting[j]
       /\ link' = [link EXCEPT ![i][j] = "oob"]
       /\ slot' = [slot EXCEPT ![j][i] = "oob"]
       /\ sp' = [sp EXCEPT ![j] = ClientAccepted(@), ![i] = ClientStarted(@, j)]
       /\ accepting' = [accepting EXCEPT ![j] = ~sp[j].inter_done]
  /\ UNCHANGED <<static, term, failed, pc, connected>>

\* connect_to_service_procs returns, and the daemon progresses its engine.
AllStarted(i) ==
  /\ pc[i] = "connect" /\ \A j \in Servers(i) : link[i][j] # "none"
  /\ pc' = [pc EXCEPT ![i] = "wait"]
  /\ UNCHANGED <<vars, static, link, slot, accepting, connected>>

Progresses(i) == pc[i] \in {"wait", "run"}

\* progress_client_econtext: the endpoint is created, and the messages of the
\* bootstrapping are sent;
SendBootstrap(i, j) ==
  /\ Progresses(i) /\ link[i][j] = "oob"
  /\ link' = [link EXCEPT ![i][j] = "sent"]
  /\ sp' = [sp EXCEPT ![i] = EndpointCreated(@, j)]
  /\ UNCHANGED <<static, term, failed, pc, slot, accepting, connected>>

\* they completed: finalize_connection_to_remote_service_proc and
\* connected_to_server_dpu.  (CountsTwice: both count the connection.)
CountsTwice(n) == n + 2
OneMore(n) == n + 1
ClientConnected(i, j) ==
  /\ Progresses(i) /\ link[i][j] = "sent"
  /\ link' = [link EXCEPT ![i][j] = "done"]
  /\ connected' = [connected EXCEPT ![i] = OneMore(@)]
  /\ UNCHANGED <<vars, static, pc, slot, accepting>>

\* progress_server_econtext received them: finalize_client_connection and
\* client_service_proc_connected.
ServerConnected(j, i) ==
  /\ Progresses(j) /\ slot[j][i] = "oob" /\ link[i][j] \in {"sent", "done"}
  /\ slot' = [slot EXCEPT ![j][i] = "done"]
  /\ sp' = [sp EXCEPT ![j] = ClientFinalized(@)]
  /\ connected' = [connected EXCEPT ![j] = @ + 1]
  /\ UNCHANGED <<term, failed, static, pc, link, accepting>>

\* all_service_procs_connected: the server for the host is started.
StartHostServer(i) ==
  /\ pc[i] = "wait" /\ connected[i] + 1 = NumSps
  /\ pc' = [pc EXCEPT ![i] = "run"]
  /\ sp' = [sp EXCEPT ![i] = ServerStarted(@)]
  /\ UNCHANGED <<term, failed, static, link, slot, accepting, connected>>

-----------------------------------------------------------------------------
(* Terminating *)

Unconnected == <<static, pc, link, accepting, connected>>

\* With WorldFirst, the ranks of i have the complete cache of the world group: all
\* SPs exchanged theirs, for which they are connected and have ranks.
RankLeaves(i) ==
  /\ pc[i] = "run" /\ (WorldFirst => \A j \in SP : pc[j] = "run")
  /\ RecvFromRank(i)
  /\ UNCHANGED <<Unconnected, slot>>

SpLeaves(i, j) ==
  /\ Progresses(i) /\ RecvFromSp(i, j)
  /\ slot' = [slot EXCEPT ![i][j] = "gone"]
  /\ UNCHANGED Unconnected

LeaveCompleted(i, j) ==
  /\ Progresses(i) /\ TermCompleted(i, j)
  /\ UNCHANGED <<Unconnected, slot>>

\* A pass of the progress functions that finds nothing to do, or a connect that
\* is refused.
Idle == UNCHANGED startup_vars

\* What an SP does.
Step(i) ==
  \/ StartServer(i) \/ Connect(i) \/ AllStarted(i) \/ StartHostServer(i)
  \/ \E j \in Servers(i) :
       SendBootstrap(i, j) \/ ClientConnected(i, j) \/ LeaveCompleted(i, j)
  \/ \E j \in Clients(i) : ServerConnected(i, j) \/ SpLeaves(i, j)
  \/ RankLeaves(i)

Next == (\E i \in SP : Step(i)) \/ Idle

\* The daemons are started, try to connect until they succeed, and poll; ranks
\* terminate.
Fairness == \A i \in SP : WF_startup_vars(Step(i))

Spec == StartupInit /\ [][Next]_startup_vars /\ Fairness

-----------------------------------------------------------------------------
(* Properties *)

\* The plans that the SPs make by themselves, each from its own place in the
\* list, fit together: once all have read it, an SP expects as many connections
\* as there are SPs that plan to connect to it, and of every two SPs exactly one
\* plans to connect to the other, once.
PlansAgree ==
  (\A i \in SP : pc[i] # "config") =>
    \A i \in SP :
      /\ plan[i].from = Cardinality({j \in SP : i \in Range(plan[j].to)})
      /\ IsInjective(plan[i].to) /\ i \notin Range(plan[i].to)
      /\ \A j \in SP \ {i} : i \in Range(plan[j].to) <=> j \notin Range(plan[i].to)

\* An SP that counts itself as connected to all, and accepts ranks from then on,
\* has an endpoint for every other SP: as a client or as a server.
ReachesEveryone ==
  \A i \in SP : pc[i] = "run" /\ ~sp[i].terminated =>
    /\ \A j \in Servers(i) : sp[i].ctx[j].ep \/ sp[i].ctx[j].done
    /\ \A j \in Clients(i) : slot[i][j] \in {"done", "gone"}

\* The counters that decide on the state of an engine, which two threads' worth
\* of callbacks of two servers and several clients change, are what they stand
\* for: the servers that were started and are not done, and the clients that
\* were created and whose termination message did not complete.
One(cond) == IF cond THEN 1 ELSE 0
ActiveCounted ==
  \A i \in SP :
    /\ sp[i].clients_active =
         Cardinality({j \in Servers(i) : link[i][j] # "none" /\ ~sp[i].ctx[j].done})
    /\ sp[i].servers_active =
         One(pc[i] = "run" /\ ~sp[i].host_done) +
         One(pc[i] # "config" /\ plan[i].from > 0 /\ ~sp[i].inter_done)

\* Every SP is connected to all others in the end, in whatever order the daemons
\* are started, provided that the file and the list name the DPUs in the same
\* order.
EveryoneConnects ==
  config \in Consistent => <>(\A i \in SP : pc[i] = "run")

\* Every SP that is a client of another one terminates.  (The one with the
\* highest ID need not: nothing looks at the state of its engine when the
\* server for its host is the last to be done.)
Terminates ==
  config \in Consistent => <>(\A i \in SP : Servers(i) # {} => sp[i].terminated)
=============================================================================
