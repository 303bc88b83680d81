---------------------------- MODULE StartupProofs ----------------------------
(***************************************************************************)
(* What Startup guarantees, for every number of SPs and ranks, every list  *)
(* of DPUs and every configuration file, when ranks only leave once all    *)
(* SPs accept ranks: no assertion of the termination callbacks fails, the  *)
(* counters that decide on the end of an engine are right, an SP that      *)
(* accepts ranks is connected to all others, and no SP considers itself    *)
(* terminated too early.                                                   *)
(*                                                                         *)
(* The inductive invariant comes first, then what the operations on the    *)
(* state of one SP do to the parts it speaks of, one lemma per action, and *)
(* the theorems.                                                           *)
(***************************************************************************)
EXTENDS Startup, FiniteSetTheorems, TLAPS

-----------------------------------------------------------------------------
(* The inductive invariant *)

Ctx == [ep : BOOLEAN, ev : BOOLEAN, done : BOOLEAN, there : BOOLEAN]
SpType(i) ==
  [ranks : Nat, host_done : BOOLEAN, peers : Int, ongoing : Int, inter_done : BOOLEAN,
   servers_active : Int, clients_active : Int, ctx : [Servers(i) -> Ctx],
   terminated : BOOLEAN]

Types ==
  /\ DOMAIN sp = SP /\ \A i \in SP : sp[i] \in SpType(i)
  /\ DOMAIN term = SP /\ \A i \in SP : term[i] \in [Servers(i) -> Nat]
  /\ DOMAIN link = SP
  /\ \A i \in SP : link[i] \in [Servers(i) -> {"none", "oob", "sent", "done"}]
  /\ DOMAIN slot = SP
  /\ \A i \in SP : slot[i] \in [Clients(i) -> {"none", "oob", "done", "gone"}]
  /\ pc \in [SP -> {"config", "connect", "wait", "run"}]
  /\ DOMAIN plan = SP /\ accepting \in [SP -> BOOLEAN] /\ connected \in [SP -> Int]

\* The SPs that the counters of i stand for.
Present(i) == {j \in Clients(i) : slot[i][j] = "done"}
Arriving(i) == {j \in Clients(i) : slot[i][j] = "oob"}
Accepted(i) == {j \in Clients(i) : slot[i][j] \in {"done", "gone"}}
Linked(i) == {j \in Servers(i) : link[i][j] = "done"}
Active(i) == {j \in Servers(i) : link[i][j] # "none" /\ ~sp[i].ctx[j].done}

Counts(i) ==
  /\ sp[i].peers = Cardinality(Present(i))
  /\ sp[i].ongoing = Cardinality(Arriving(i))
  /\ sp[i].clients_active = Cardinality(Active(i))
  /\ sp[i].servers_active = One(pc[i] = "run" /\ ~sp[i].host_done)
                          + One(pc[i] # "config" /\ plan[i].from > 0 /\ ~sp[i].inter_done)
  /\ connected[i] = Cardinality(Linked(i)) + Cardinality(Accepted(i))

\* The two ends of the connection of client i to server j.
PairInv(i, j) ==
  /\ link[i][j] = "none" => slot[j][i] = "none"
  /\ link[i][j] \in {"sent", "done"} => sp[i].ctx[j].ep \/ sp[i].ctx[j].done
  /\ term[i][j] \in {0, 1}
  /\ term[i][j] = 1 => sp[i].host_done /\ slot[j][i] = "done"
  /\ slot[j][i] = "gone" => sp[i].host_done
  /\ slot[j][i] # "none" => pc[j] # "config" /\ plan[j].from > 0
  /\ sp[i].ctx[j].ev \/ sp[i].ctx[j].done => sp[i].host_done
  /\ ~(sp[i].ctx[j].ev /\ sp[i].ctx[j].done)

\* How far SP i is, and what it knows of the others by then.
SpInv(i) ==
  /\ sp[i].host_done <=> sp[i].ranks = 0
  /\ sp[i].host_done => \A k \in SP : pc[k] = "run"
  /\ accepting[i] => pc[i] # "config" /\ plan[i].from > 0
  /\ sp[i].inter_done => pc[i] = "run" /\ \A j \in Clients(i) : slot[i][j] = "gone"
  /\ pc[i] = "run" => /\ \A j \in Servers(i) : link[i][j] = "done"
                      /\ \A j \in Clients(i) : slot[i][j] \in {"done", "gone"}
  /\ sp[i].terminated => sp[i].host_done /\ \A j \in Clients(i) : slot[i][j] = "gone"

IInv ==
  /\ Types
  /\ failed = {}
  /\ \A i \in SP : Counts(i)
  /\ \A i \in SP : \A j \in Servers(i) : PairInv(i, j)
  /\ \A i \in SP : SpInv(i)

-----------------------------------------------------------------------------
(* Sets of SPs *)

\* Servers and Clients are the two sides of a pair.
LEMMA SpSets ==
  /\ \A i, j \in SP : /\ j \in Servers(i) <=> i \in Clients(j)
                      /\ j \in Servers(i) => i # j /\ j \notin Clients(i)
  /\ \A i \in SP : Servers(i) \subseteq SP /\ Clients(i) \subseteq SP
  /\ \A i \in SP : i \notin Servers(i) /\ i \notin Clients(i)
<1>1. SP \subseteq Nat
  BY TerminationAssumption DEF TerminationAssumption, SP
<1> QED
  BY <1>1 DEF Servers, Clients

\* What the proofs use of the cardinality of sets of SPs: one more, one less, and
\* that an SP that counts NumSps - 1 connections has one with each other SP.  It
\* is a hypothesis of the lemmas that follow, and StartupProofs proves it.
SpCounting ==
  /\ \A S \in SUBSET SP : Cardinality(S) \in Nat /\ (Cardinality(S) = 0 <=> S = {})
  /\ \A S \in SUBSET SP : \A j \in SP \ S : Cardinality(S \cup {j}) = Cardinality(S) + 1
  /\ \A S \in SUBSET SP : \A j \in S : /\ Cardinality(S \ {j}) = Cardinality(S) - 1
                                      /\ Cardinality(S) > 0
  /\ \A i \in SP : \A A \in SUBSET Servers(i), B \in SUBSET Clients(i) :
       Cardinality(A) + Cardinality(B) + 1 = NumSps => A = Servers(i) /\ B = Clients(i)

\* Sets of SPs are counted with natural numbers.
LEMMA CountType ==
  ASSUME SpCounting, NEW S \in SUBSET SP
  PROVE  Cardinality(S) \in Nat /\ (Cardinality(S) = 0 <=> S = {})
BY Zenon DEF SpCounting

\* One more,
LEMMA CountMore ==
  ASSUME SpCounting, NEW S \in SUBSET SP, NEW j \in SP, j \notin S
  PROVE  Cardinality(S \cup {j}) = Cardinality(S) + 1
BY Zenon DEF SpCounting

\* one less,
LEMMA CountLess ==
  ASSUME SpCounting, NEW S \in SUBSET SP, NEW j \in S
  PROVE  Cardinality(S \ {j}) = Cardinality(S) - 1 /\ Cardinality(S) > 0
BY Zenon DEF SpCounting

\* and all of them.
LEMMA CountAll ==
  ASSUME SpCounting, NEW i \in SP, NEW A \in SUBSET Servers(i), NEW B \in SUBSET Clients(i),
         Cardinality(A) + Cardinality(B) + 1 = NumSps
  PROVE  A = Servers(i) /\ B = Clients(i)
BY Zenon DEF SpCounting

-----------------------------------------------------------------------------
(* Operations on the state of one SP *)

\* The counters and flags that an operation that only concerns clients or only
\* servers leaves alone.
SameHost(s, t) ==
  t.ranks = s.ranks /\ t.host_done = s.host_done
SamePeers(s, t) ==
  t.peers = s.peers /\ t.ongoing = s.ongoing /\ t.inter_done = s.inter_done
SameContexts(s, t, S) ==
  \A m \in S : /\ t.ctx[m].ep = s.ctx[m].ep /\ t.ctx[m].ev = s.ctx[m].ev
               /\ t.ctx[m].done = s.ctx[m].done

\* server_init changes the number of active servers.
LEMMA ServerStartedOK ==
  ASSUME NEW i, NEW s \in SpType(i),
         NEW t, t = ServerStarted(s)
  PROVE  /\ t \in SpType(i) /\ SameHost(s, t) /\ SamePeers(s, t)
         /\ SameContexts(s, t, Servers(i)) /\ t.clients_active = s.clients_active
         /\ t.servers_active = s.servers_active + 1 /\ t.terminated = s.terminated
BY DEF ServerStarted, SpType, SameHost, SamePeers, SameContexts

\* client_init changes the number of active clients.
LEMMA ClientStartedOK ==
  ASSUME NEW i, NEW s \in SpType(i), NEW j \in Servers(i),
         NEW t, t = ClientStarted(s, j)
  PROVE  /\ t \in SpType(i) /\ SameHost(s, t) /\ SamePeers(s, t)
         /\ SameContexts(s, t, Servers(i)) /\ t.clients_active = s.clients_active + 1
         /\ t.servers_active = s.servers_active /\ t.terminated = s.terminated
<1> DEFINE f == [s.ctx EXCEPT ![j] = [@ EXCEPT !.there = TRUE]]
           n == s.clients_active + 1
<1>1. s.ctx \in [Servers(i) -> Ctx] /\ n \in Int
  BY DEF SpType
<1>2. [s.ctx[j] EXCEPT !.there = TRUE] \in Ctx
  BY <1>1, Zenon DEF Ctx
<1>3. f \in [Servers(i) -> Ctx]
  BY <1>1, <1>2, Zenon
<1>4. t = [s EXCEPT !.clients_active = n, !.ctx = f]
  BY Zenon DEF SpType, Ctx, ClientStarted
<1>5. t \in SpType(i)
  <2> HIDE DEF f, n
  <2> QED
    BY <1>1, <1>3, <1>4, Zenon DEF SpType
<1>6. /\ SameHost(s, t) /\ SamePeers(s, t) /\ t.clients_active = n
      /\ t.servers_active = s.servers_active /\ t.terminated = s.terminated /\ t.ctx = f
  <2> HIDE DEF f, n
  <2> QED
    BY <1>3, <1>4, Zenon DEF SpType, SameHost, SamePeers
<1>7. SameContexts(s, t, Servers(i))
  BY <1>1, <1>6 DEF SameContexts, Ctx
<1> QED
  BY <1>5, <1>6, <1>7, Zenon

\* The first step of the bootstrapping only creates the endpoint.
OneMoreEndpoint(i, j, s, t) ==
  /\ t \in SpType(i) /\ SameHost(s, t) /\ SamePeers(s, t)
  /\ t.clients_active = s.clients_active
  /\ t.servers_active = s.servers_active /\ t.terminated = s.terminated
  /\ t.ctx[j].ep
  /\ \A m \in Servers(i) : /\ m # j => t.ctx[m].ep = s.ctx[m].ep
                           /\ t.ctx[m].ev = s.ctx[m].ev
                           /\ t.ctx[m].done = s.ctx[m].done

LEMMA EndpointCreatedOK ==
  ASSUME NEW i, NEW s \in SpType(i), NEW j \in Servers(i),
         NEW t, t = EndpointCreated(s, j)
  PROVE  OneMoreEndpoint(i, j, s, t)
<1> DEFINE c == [s.ctx[j] EXCEPT !.ep = TRUE]
           f == [s.ctx EXCEPT ![j] = c]
<1>1. s.ctx \in [Servers(i) -> Ctx] /\ s.ctx[j] \in Ctx
  BY Zenon DEF SpType
<1>2. c \in Ctx /\ c.ep /\ c.ev = s.ctx[j].ev /\ c.done = s.ctx[j].done
  BY <1>1, Zenon DEF Ctx
<1>3. f \in [Servers(i) -> Ctx] /\ f[j] = c /\ \A m \in Servers(i) \ {j} : f[m] = s.ctx[m]
  BY <1>1, <1>2, Zenon
<1>4. t = [s EXCEPT !.ctx = f]
  BY Zenon DEF EndpointCreated
<1>5. t \in SpType(i)
  <2> HIDE DEF f
  <2> QED
    BY <1>3, <1>4, Zenon DEF SpType
<1>6. /\ SameHost(s, t) /\ SamePeers(s, t) /\ t.clients_active = s.clients_active
      /\ t.servers_active = s.servers_active /\ t.terminated = s.terminated /\ t.ctx = f
  <2> HIDE DEF f
  <2> QED
    BY <1>3, <1>4, Zenon DEF SpType, SameHost, SamePeers
<1> HIDE DEF f, c
<1>7. f[j].ep /\ \A m \in Servers(i) : /\ m # j => f[m].ep = s.ctx[m].ep
                                       /\ f[m].ev = s.ctx[m].ev
                                       /\ f[m].done = s.ctx[m].done
  <2>1. ASSUME NEW m \in Servers(i) \ {j}
        PROVE  f[m].ep = s.ctx[m].ep /\ f[m].ev = s.ctx[m].ev /\ f[m].done = s.ctx[m].done
    BY <1>3, Zenon
  <2>2. f[j].ep /\ f[j].ev = s.ctx[j].ev /\ f[j].done = s.ctx[j].done
    BY <1>2, <1>3, Zenon
  <2> QED
    BY <2>1, <2>2, Zenon
<1> QED
  BY <1>5, <1>6, <1>7, Zenon DEF OneMoreEndpoint

\* A client that was accepted is counted as connecting,
LEMMA ClientAcceptedOK ==
  ASSUME NEW i, NEW s \in SpType(i),
         NEW t, t = ClientAccepted(s)
  PROVE  /\ t \in SpType(i) /\ SameHost(s, t) /\ SameContexts(s, t, Servers(i))
         /\ t.clients_active = s.clients_active /\ t.servers_active = s.servers_active
         /\ t.terminated = s.terminated /\ t.inter_done = s.inter_done
         /\ t.ongoing = s.ongoing + 1 /\ t.peers = s.peers
BY DEF ClientAccepted, SpType, SameHost, SameContexts

\* and one that was finalized as connected.
LEMMA ClientFinalizedOK ==
  ASSUME NEW i, NEW s \in SpType(i),
         NEW t, t = ClientFinalized(s)
  PROVE  /\ t \in SpType(i) /\ SameHost(s, t) /\ SameContexts(s, t, Servers(i))
         /\ t.clients_active = s.clients_active /\ t.servers_active = s.servers_active
         /\ t.terminated = s.terminated /\ t.inter_done = s.inter_done
         /\ t.ongoing = s.ongoing - 1 /\ t.peers = s.peers + 1
<1> DEFINE m == s.ongoing - 1
           n == s.peers + 1
<1>1. m \in Int /\ n \in Int
  BY DEF SpType
<1>2. t = [s EXCEPT !.ongoing = m, !.peers = n]
  BY Zenon DEF ClientFinalized
<1> HIDE DEF m, n
<1>3. t \in SpType(i)
  BY <1>1, <1>2, Zenon DEF SpType
<1>4. /\ SameHost(s, t) /\ SameContexts(s, t, Servers(i))
      /\ t.clients_active = s.clients_active /\ t.servers_active = s.servers_active
      /\ t.terminated = s.terminated /\ t.inter_done = s.inter_done
      /\ t.ongoing = m /\ t.peers = n
  BY <1>1, <1>2, Zenon DEF SpType, SameHost, SameContexts
<1> QED
  BY <1>3, <1>4, Zenon DEF m, n

\* update_engine_state changes nothing the invariant speaks of, but for
\* terminated.
LEMMA UpdateEngineStateOK ==
  ASSUME NEW i, NEW s \in SpType(i),
         NEW t, t = UpdateEngineState(s)
  PROVE  /\ t \in SpType(i) /\ SameHost(s, t) /\ SamePeers(s, t)
         /\ SameContexts(s, t, Servers(i)) /\ t.clients_active = s.clients_active
         /\ t.servers_active = s.servers_active
         /\ t.terminated => s.terminated \/ (s.clients_active = 0 /\ s.servers_active = 0)
<1> DEFINE f == [j \in Servers(i) |-> [s.ctx[j] EXCEPT !.there = FALSE]]
           u == Terminated(s)
<1>1. s.ctx \in [Servers(i) -> Ctx]
  BY Zenon DEF SpType
<1>2. f \in [Servers(i) -> Ctx]
  BY <1>1, Zenon DEF Ctx
<1>3. u = [s EXCEPT !.terminated = TRUE, !.ctx = f]
  BY <1>1, Zenon DEF Terminated
<1>4. \A m \in Servers(i) : /\ f[m].ep = s.ctx[m].ep /\ f[m].ev = s.ctx[m].ev
                            /\ f[m].done = s.ctx[m].done
  BY <1>1, Zenon DEF Ctx
<1> HIDE DEF f, u
<1>5. u \in SpType(i)
  BY <1>2, <1>3, Zenon DEF SpType
<1>6. /\ SameHost(s, u) /\ SamePeers(s, u) /\ u.clients_active = s.clients_active
      /\ u.servers_active = s.servers_active /\ u.ctx = f
  BY <1>2, <1>3, Zenon DEF SpType, SameHost, SamePeers
<1>7. SameContexts(s, u, Servers(i))
  BY <1>4, <1>6, Zenon DEF SameContexts
<1>8. SameHost(s, s) /\ SamePeers(s, s) /\ SameContexts(s, s, Servers(i))
  BY Zenon DEF SameHost, SamePeers, SameContexts
<1>9. CASE s.clients_active = 0 /\ s.servers_active = 0
  <2>1. t = u
    BY <1>9, Zenon DEF UpdateEngineState, u
  <2> QED
    BY <2>1, <1>5, <1>6, <1>7, <1>9, Zenon
<1>10. CASE ~(s.clients_active = 0 /\ s.servers_active = 0)
  BY <1>8, <1>10, Zenon DEF UpdateEngineState
<1> QED
  BY <1>9, <1>10, Zenon

\* term_notification_completed takes one client off the active ones.
OneClientLess(i, j, s, t) ==
  /\ t \in SpType(i) /\ SameHost(s, t) /\ SamePeers(s, t)
  /\ t.clients_active = s.clients_active - 1 /\ t.servers_active = s.servers_active
  /\ t.ctx[j].done /\ ~t.ctx[j].ev
  /\ \A m \in Servers(i) \ {j} : /\ t.ctx[m].ep = s.ctx[m].ep
                                 /\ t.ctx[m].ev = s.ctx[m].ev
                                 /\ t.ctx[m].done = s.ctx[m].done
  /\ t.terminated => s.terminated \/ s.servers_active = 0

LEMMA TermNotificationCompletedOK ==
  ASSUME NEW i, NEW s \in SpType(i), NEW j \in Servers(i),
         NEW t, t = TermNotificationCompleted(s, j)
  PROVE  OneClientLess(i, j, s, t)
<1> DEFINE c == [s.ctx[j] EXCEPT !.ev = FALSE, !.ep = FALSE, !.done = TRUE]
           f == [s.ctx EXCEPT ![j] = c]
           n == s.clients_active - 1
           u == [ClientDone(s, j) EXCEPT !.clients_active = @ - 1]
<1>1. s.ctx \in [Servers(i) -> Ctx] /\ s.ctx[j] \in Ctx /\ n \in Int /\ s.terminated \in BOOLEAN
  BY DEF SpType
<1>2. c \in Ctx /\ c.done /\ ~c.ev
  BY <1>1, Zenon DEF Ctx
<1>3. f \in [Servers(i) -> Ctx] /\ f[j] = c /\ \A m \in Servers(i) \ {j} : f[m] = s.ctx[m]
  BY <1>1, <1>2, Zenon
<1>4. ClientDone(s, j) = [s EXCEPT !.ctx = f]
  BY Zenon DEF ClientDone
<1>5. u = [s EXCEPT !.clients_active = n, !.ctx = f]
  <2> HIDE DEF f
  <2> QED
    BY <1>3, <1>4, Zenon DEF SpType
<1> HIDE DEF c, f, n, u
<1>6. u \in SpType(i)
  BY <1>1, <1>3, <1>5, Zenon DEF SpType
<1>7. /\ SameHost(s, u) /\ SamePeers(s, u) /\ u.clients_active = n /\ u.ctx = f
      /\ u.servers_active = s.servers_active /\ u.terminated = s.terminated
  BY <1>1, <1>3, <1>5, Zenon DEF SpType, SameHost, SamePeers
<1>8. t = UpdateEngineState(u)
  BY Zenon DEF TermNotificationCompleted, u
<1>9. /\ t \in SpType(i) /\ SameHost(u, t) /\ SamePeers(u, t)
      /\ SameContexts(u, t, Servers(i)) /\ t.clients_active = u.clients_active
      /\ t.servers_active = u.servers_active
      /\ t.terminated => u.terminated \/ (u.clients_active = 0 /\ u.servers_active = 0)
  BY <1>6, <1>8, UpdateEngineStateOK, Zenon
<1>10. /\ t.ctx[j].done /\ ~t.ctx[j].ev
       /\ \A m \in Servers(i) \ {j} : /\ t.ctx[m].ep = s.ctx[m].ep
                                      /\ t.ctx[m].ev = s.ctx[m].ev
                                      /\ t.ctx[m].done = s.ctx[m].done
  BY <1>2, <1>3, <1>7, <1>9 DEF SameContexts
<1>11. SameHost(s, t) /\ SamePeers(s, t)
  BY <1>7, <1>9, Zenon DEF SameHost, SamePeers
<1> QED
  BY <1>7, <1>9, <1>10, <1>11, Zenon DEF n, OneClientLess

\* term_msg_cb of the server for the host.
LEMMA RankLeftOK ==
  ASSUME NEW i, NEW s \in SpType(i), s.ranks > 0,
         NEW t, t = RankLeft(s)
  PROVE  /\ t \in SpType(i) /\ SamePeers(s, t) /\ t.ranks = s.ranks - 1
         /\ t.clients_active = s.clients_active /\ t.terminated = s.terminated
         /\ IF s.ranks = 1
            THEN /\ t.host_done /\ t.servers_active = s.servers_active - 1
                 /\ \A m \in Servers(i) : /\ t.ctx[m].ep = s.ctx[m].ep
                                          /\ t.ctx[m].done = s.ctx[m].done
            ELSE /\ t.host_done = s.host_done /\ t.servers_active = s.servers_active
                 /\ SameContexts(s, t, Servers(i))
<1> DEFINE u == [s EXCEPT !.ranks = 0, !.host_done = TRUE, !.servers_active = @ - 1]
           f == [j \in Servers(i) |-> [s.ctx[j] EXCEPT !.ev = TRUE]]
           n == s.servers_active - 1
<1>1. s.ctx \in [Servers(i) -> Ctx] /\ n \in Int /\ s.ranks \in Nat
  BY DEF SpType
<1>2. /\ f \in [Servers(i) -> Ctx]
      /\ \A m \in Servers(i) : f[m].ep = s.ctx[m].ep /\ f[m].done = s.ctx[m].done
  BY <1>1, Zenon DEF Ctx
<1>3. CASE s.ranks = 1
  <2>1. u = [s EXCEPT !.ranks = 0, !.host_done = TRUE, !.servers_active = n]
    BY Zenon
  <2> HIDE DEF u, n
  <2>2. u \in SpType(i) /\ u.ctx = s.ctx
    BY <1>1, <2>1, Zenon DEF SpType
  <2>3. \A j \in Servers(i) : ClientFiniNb(u, j).ctx[j] = f[j]
    BY <2>2, <1>1, Zenon DEF ClientFiniNb, SpType, Ctx
  <2>4. t = [u EXCEPT !.ctx = f]
    <3>1. t = Disconnect(u)
      BY <1>3, Zenon DEF RankLeft, u
    <3>2. DOMAIN u.ctx = Servers(i)
      BY <2>2, <1>1, Zenon
    <3>3. [j \in DOMAIN u.ctx |-> ClientFiniNb(u, j).ctx[j]] = f
      BY <3>2, <2>3, Zenon
    <3> HIDE DEF f
    <3> QED
      BY <3>1, <3>3, Zenon DEF Disconnect
  <2> HIDE DEF f
  <2>5. t \in SpType(i) /\ t.ctx = f
    BY <1>2, <2>2, <2>4, Zenon DEF SpType
  <2>6. /\ SamePeers(s, u) /\ u.clients_active = s.clients_active
        /\ u.terminated = s.terminated /\ u.ranks = 0 /\ u.host_done /\ u.servers_active = n
    BY <1>1, <2>1, Zenon DEF SpType, SamePeers
  <2>7. /\ SamePeers(u, t) /\ t.clients_active = u.clients_active
        /\ t.terminated = u.terminated /\ t.ranks = u.ranks /\ t.host_done = u.host_done
        /\ t.servers_active = u.servers_active
    BY <1>2, <2>2, <2>4, Zenon DEF SpType, SamePeers
  <2>8. SamePeers(s, t)
    BY <2>6, <2>7, Zenon DEF SamePeers
  <2> QED
    BY <1>2, <1>3, <2>5, <2>6, <2>7, <2>8 DEF n
<1>4. CASE s.ranks # 1
  <2> DEFINE k == s.ranks - 1
  <2>1. k \in Nat
    BY <1>1
  <2>2. t = [s EXCEPT !.ranks = k]
    BY <1>4, Zenon DEF RankLeft
  <2> HIDE DEF k
  <2>3. t \in SpType(i)
    BY <2>1, <2>2, Zenon DEF SpType
  <2>4. /\ SamePeers(s, t) /\ t.ranks = k
        /\ t.clients_active = s.clients_active /\ t.terminated = s.terminated
        /\ t.host_done = s.host_done /\ t.servers_active = s.servers_active
        /\ SameContexts(s, t, Servers(i))
    BY <2>1, <2>2, Zenon DEF SpType, SamePeers, SameContexts
  <2> QED
    BY <1>4, <2>3, <2>4, Zenon DEF k
<1> QED
  BY <1>3, <1>4, Zenon

\* term_msg_cb of the server for other SPs.
LEMMA PeerLeftOK ==
  ASSUME NEW i, NEW s \in SpType(i),
         NEW t, t = PeerLeft(s)
  PROVE  /\ t \in SpType(i) /\ SameHost(s, t) /\ SameContexts(s, t, Servers(i))
         /\ t.peers = s.peers - 1 /\ t.ongoing = s.ongoing
         /\ t.clients_active = s.clients_active
         /\ IF LastPeer(s)
            THEN /\ t.inter_done /\ t.servers_active = s.servers_active - 1
                 /\ t.terminated => s.terminated \/ s.servers_active - 1 = 0
            ELSE /\ t.inter_done = s.inter_done /\ t.servers_active = s.servers_active
                 /\ t.terminated = s.terminated
<1> DEFINE n == s.peers - 1
           k == s.servers_active - 1
           u == [s EXCEPT !.peers = n, !.inter_done = TRUE, !.servers_active = k]
<1>1. n \in Int /\ k \in Int
  BY DEF SpType
<1>2. CASE LastPeer(s)
  <2>1. t = UpdateEngineState(u)
    BY <1>2, Zenon DEF PeerLeft, InterDone
  <2> HIDE DEF n, k
  <2>2. u \in SpType(i)
    BY <1>1, Zenon DEF SpType
  <2>3. /\ SameHost(s, u) /\ SameContexts(s, u, Servers(i)) /\ u.peers = n
        /\ u.ongoing = s.ongoing /\ u.clients_active = s.clients_active /\ u.inter_done
        /\ u.servers_active = k /\ u.terminated = s.terminated
    BY <1>1, Zenon DEF SpType, SameHost, SameContexts
  <2> HIDE DEF u
  <2>4. /\ t \in SpType(i) /\ SameHost(u, t) /\ SamePeers(u, t)
        /\ SameContexts(u, t, Servers(i)) /\ t.clients_active = u.clients_active
        /\ t.servers_active = u.servers_active
        /\ t.terminated => u.terminated \/ (u.clients_active = 0 /\ u.servers_active = 0)
    BY <2>1, <2>2, UpdateEngineStateOK, Zenon
  <2>5. SameHost(s, t) /\ SameContexts(s, t, Servers(i))
    BY <2>3, <2>4, ZenonT(30) DEF SameHost, SameContexts
  <2>6. t.peers = n /\ t.ongoing = s.ongoing /\ t.inter_done
    BY <2>3, <2>4, Zenon DEF SamePeers
  <2> QED
    BY <1>2, <2>3, <2>4, <2>5, <2>6, Zenon DEF n, k
<1>3. CASE ~LastPeer(s)
  <2>1. t = [s EXCEPT !.peers = n]
    BY <1>3, Zenon DEF PeerLeft
  <2> HIDE DEF n
  <2>2. t \in SpType(i)
    BY <1>1, <2>1, Zenon DEF SpType
  <2>3. /\ SameHost(s, t) /\ SameContexts(s, t, Servers(i)) /\ t.peers = n
        /\ t.ongoing = s.ongoing /\ t.clients_active = s.clients_active
        /\ t.inter_done = s.inter_done /\ t.servers_active = s.servers_active
        /\ t.terminated = s.terminated
    BY <1>1, <2>1, Zenon DEF SpType, SameHost, SameContexts
  <2> QED
    BY <1>3, <2>2, <2>3, Zenon DEF n
<1> QED
  BY <1>2, <1>3, Zenon

-----------------------------------------------------------------------------
(* The counters *)

\* The counters of an SP that a step does not touch stay right.
LEMMA CountsSame ==
  ASSUME NEW k \in SP, Counts(k), sp'[k] = sp[k], link'[k] = link[k], slot'[k] = slot[k],
         pc'[k] = pc[k], plan'[k] = plan[k], connected'[k] = connected[k]
  PROVE  Counts(k)'
BY DEF Counts, Present, Arriving, Active, Linked, Accepted

\* So does the invariant of an SP that takes no part in a step.
LEMMA SpInvSame ==
  ASSUME NEW k \in SP, SpInv(k), sp'[k] = sp[k], link'[k] = link[k], slot'[k] = slot[k],
         pc' = pc, plan'[k] = plan[k], accepting'[k] = accepting[k]
  PROVE  SpInv(k)'
BY ZenonT(30) DEF SpInv

\* What the counters of an SP count are sets of SPs.
LEMMA CountedSets ==
  ASSUME NEW k \in SP
  PROVE  /\ Present(k) \in SUBSET SP /\ Arriving(k) \in SUBSET SP
         /\ Accepted(k) \in SUBSET SP /\ Linked(k) \in SUBSET SP /\ Active(k) \in SUBSET SP
BY SpSets, Zenon DEF Present, Arriving, Accepted, Linked, Active

-----------------------------------------------------------------------------
(* Asking for connections: starting the server, connecting to the servers, the
   first message. *)

\* An SP that reads the list had no server: no rank left yet, anywhere.
LEMMA StartServerOK ==
  ASSUME IInv, NEW i \in SP, StartServer(i)
  PROVE  IInv'
<1>g. pc[i] = "config"
  BY Zenon DEF StartServer
<1>u. UNCHANGED <<term, failed, link, slot, connected>>
  BY Zenon DEF StartServer
<1>1. /\ pc' = [pc EXCEPT ![i] = "connect"]
      /\ plan' = [plan EXCEPT ![i] = ParseList(Me(i))]
  BY Zenon DEF StartServer
<1>2. \/ /\ plan'[i].from > 0
         /\ sp' = [sp EXCEPT ![i] = ServerStarted(@)]
         /\ accepting' = [accepting EXCEPT ![i] = TRUE]
      \/ ~(plan'[i].from > 0) /\ UNCHANGED <<sp, accepting>>
  BY Zenon DEF StartServer
<1>t. Types /\ sp[i] \in SpType(i)
  BY Zenon DEF IInv, Types
<1>3. /\ pc'[i] = "connect" /\ DOMAIN plan' = SP /\ pc' \in [SP -> {"config", "connect", "wait", "run"}]
      /\ \A k \in SP \ {i} : pc'[k] = pc[k] /\ plan'[k] = plan[k]
  BY <1>g, <1>1, <1>t, Zenon DEF Types
<1>4. ~sp[i].inter_done /\ \A k \in SP : ~sp[k].host_done
  BY <1>g, <1>1, <1>t, Zenon DEF IInv, SpInv
<1>5. /\ DOMAIN sp' = SP /\ \A k \in SP \ {i} : sp'[k] = sp[k] /\ accepting'[k] = accepting[k]
      /\ sp'[i] \in SpType(i) /\ SameHost(sp[i], sp'[i]) /\ SamePeers(sp[i], sp'[i])
      /\ SameContexts(sp[i], sp'[i], Servers(i))
      /\ sp'[i].clients_active = sp[i].clients_active /\ sp'[i].terminated = sp[i].terminated
      /\ sp'[i].servers_active = sp[i].servers_active + One(plan'[i].from > 0)
      /\ accepting' \in [SP -> BOOLEAN]
      /\ accepting'[i] => plan'[i].from > 0
  <2>1. CASE plan'[i].from > 0 /\ sp' = [sp EXCEPT ![i] = ServerStarted(@)]
             /\ accepting' = [accepting EXCEPT ![i] = TRUE]
    <3>1. sp'[i] = ServerStarted(sp[i]) /\ DOMAIN sp' = SP /\ \A k \in SP \ {i} : sp'[k] = sp[k]
      BY <2>1, <1>t, Zenon DEF Types
    <3>2. /\ sp'[i] \in SpType(i) /\ SameHost(sp[i], sp'[i]) /\ SamePeers(sp[i], sp'[i])
          /\ SameContexts(sp[i], sp'[i], Servers(i))
          /\ sp'[i].clients_active = sp[i].clients_active /\ sp'[i].terminated = sp[i].terminated
          /\ sp'[i].servers_active = sp[i].servers_active + 1
      BY <3>1, <1>t, ServerStartedOK
    <3>3. /\ accepting' \in [SP -> BOOLEAN]
          /\ \A k \in SP \ {i} : accepting'[k] = accepting[k]
      BY <2>1, <1>t, Zenon DEF Types
    <3> QED
      BY <2>1, <3>1, <3>2, <3>3, Zenon DEF One
  <2>2. CASE ~(plan'[i].from > 0) /\ UNCHANGED <<sp, accepting>>
    <3>1. ~accepting[i]
      BY <1>g, <1>1, Zenon DEF IInv, SpInv
    <3>2. sp[i].servers_active + 0 = sp[i].servers_active
      BY <1>t DEF SpType
    <3> QED
      BY <2>2, <3>1, <3>2, <1>t, Zenon DEF One, Types, SameHost, SamePeers, SameContexts
  <2> QED
    BY <1>2, <2>1, <2>2, Zenon
<1>6. Types'
  BY <1>u, <1>3, <1>5, <1>t, Zenon DEF Types
<1>7. ASSUME NEW k \in SP
      PROVE  Counts(k)'
  <2>1. CASE k = i
    <3>1. Counts(i)
      BY Zenon DEF IInv
    <3>2. Active(i)' = Active(i) /\ Present(i)' = Present(i) /\ Arriving(i)' = Arriving(i)
          /\ Linked(i)' = Linked(i) /\ Accepted(i)' = Accepted(i)
      BY <1>g, <1>u, <1>5, Zenon DEF Active, Present, Arriving, Linked, Accepted, SameContexts
    <3>3. sp'[i].servers_active = One(plan'[i].from > 0)
      BY <3>1, <1>g, <1>u, <1>4, <1>5, SMTT(30) DEF Counts, One
    <3>4. ~sp'[i].inter_done /\ ~sp'[i].host_done
      BY <1>4, <1>5, Zenon DEF SameHost, SamePeers
    <3> QED
      BY <2>1, <3>1, <3>2, <3>3, <3>4, <1>g, <1>u, <1>3, <1>5, SMTT(30) DEF Counts, One, SamePeers
  <2>2. CASE k # i
    BY <2>2, <1>g, <1>u, <1>3, <1>5, CountsSame, Zenon DEF IInv
  <2> QED
    BY <2>1, <2>2, Zenon
<1>8. ASSUME NEW k \in SP, NEW m \in Servers(k)
      PROVE  PairInv(k, m)'
  <2>1. m \in SP /\ PairInv(k, m)
    BY SpSets, Zenon DEF IInv
  <2>2. /\ sp'[k].host_done = sp[k].host_done /\ sp'[k].ctx[m].ep = sp[k].ctx[m].ep
        /\ sp'[k].ctx[m].ev = sp[k].ctx[m].ev /\ sp'[k].ctx[m].done = sp[k].ctx[m].done
    BY <1>5, SMTT(30) DEF SameHost, SameContexts
  <2> QED
    BY <2>1, <2>2, <1>g, <1>u, <1>3, Zenon DEF PairInv
<1>9. ASSUME NEW k \in SP
      PROVE  SpInv(k)'
  <2>1. SpInv(k)
    BY Zenon DEF IInv
  <2>2. /\ sp'[k].host_done = sp[k].host_done /\ sp'[k].ranks = sp[k].ranks
        /\ sp'[k].inter_done = sp[k].inter_done /\ sp'[k].terminated = sp[k].terminated
    BY <1>5, Zenon DEF SameHost, SamePeers
  <2> QED
    BY <2>1, <2>2, <1>g, <1>u, <1>3, <1>4, <1>5, SMTT(30) DEF SpInv
<1> QED
  BY <1>g, <1>u, <1>6, <1>7, <1>8, <1>9, Zenon DEF IInv

\* A new connection: the server is one that accepts, and was not done.
LEMMA ConnectOK ==
  ASSUME SpCounting, IInv, NEW i \in SP, Connect(i)
  PROVE  IInv'
<1>1. PICK j \in Servers(i) :
        /\ link[i][j] = "none" /\ accepting[j]
        /\ link' = [link EXCEPT ![i][j] = "oob"]
        /\ slot' = [slot EXCEPT ![j][i] = "oob"]
        /\ sp' = [sp EXCEPT ![j] = ClientAccepted(@), ![i] = ClientStarted(@, j)]
        /\ accepting' = [accepting EXCEPT ![j] = ~sp[j].inter_done]
  BY Zenon DEF Connect
<1>2. pc[i] = "connect" /\ UNCHANGED <<plan, term, failed, pc, connected>>
  BY Zenon DEF Connect, static
<1>3. j \in SP /\ i # j /\ i \in Clients(j) /\ i \notin Servers(i) /\ j \notin Clients(i)
  <2>1. j \in SP
    BY SpSets, Zenon
  <2> QED
    BY <2>1, SpSets, Zenon
<1>t. Types /\ sp[i] \in SpType(i) /\ sp[j] \in SpType(j)
  BY <1>3, Zenon DEF IInv, Types
<1>4. /\ sp'[j] = ClientAccepted(sp[j]) /\ sp'[i] = ClientStarted(sp[i], j)
      /\ \A k \in SP \ {i, j} : sp'[k] = sp[k]
      /\ DOMAIN sp' = SP
  BY <1>1, <1>3, <1>t, Zenon DEF Types
<1>5. /\ sp'[j] \in SpType(j) /\ SameHost(sp[j], sp'[j]) /\ SameContexts(sp[j], sp'[j], Servers(j))
      /\ sp'[j].clients_active = sp[j].clients_active
      /\ sp'[j].servers_active = sp[j].servers_active
      /\ sp'[j].terminated = sp[j].terminated /\ sp'[j].inter_done = sp[j].inter_done
      /\ sp'[j].ongoing = sp[j].ongoing + 1 /\ sp'[j].peers = sp[j].peers
  BY <1>4, <1>t, ClientAcceptedOK
<1>6. /\ sp'[i] \in SpType(i) /\ SameHost(sp[i], sp'[i]) /\ SamePeers(sp[i], sp'[i])
      /\ SameContexts(sp[i], sp'[i], Servers(i))
      /\ sp'[i].clients_active = sp[i].clients_active + 1
      /\ sp'[i].servers_active = sp[i].servers_active /\ sp'[i].terminated = sp[i].terminated
  BY <1>4, <1>t, ClientStartedOK, SMTT(30)
<1>7. /\ DOMAIN link' = SP /\ DOMAIN slot' = SP
      /\ \A k \in SP : link'[k] \in [Servers(k) -> {"none", "oob", "sent", "done"}]
      /\ \A k \in SP : slot'[k] \in [Clients(k) -> {"none", "oob", "done", "gone"}]
      /\ link'[i][j] = "oob" /\ \A m \in Servers(i) \ {j} : link'[i][m] = link[i][m]
      /\ slot'[j][i] = "oob" /\ \A m \in Clients(j) \ {i} : slot'[j][m] = slot[j][m]
      /\ \A k \in SP \ {i} : link'[k] = link[k]
      /\ \A k \in SP \ {j} : slot'[k] = slot[k]
  BY <1>1, <1>3, <1>t DEF Types
<1>8. accepting' \in [SP -> BOOLEAN] /\ \A k \in SP \ {j} : accepting'[k] = accepting[k]
  BY <1>1, <1>3, <1>t, Zenon DEF Types, SpType
<1>9. Types'
  <2>1. \A k \in SP : sp'[k] \in SpType(k)
    BY <1>4, <1>5, <1>6, <1>t, Zenon DEF Types
  <2> QED
    BY <2>1, <1>2, <1>4, <1>7, <1>8, <1>t, Zenon DEF Types
<1>10. /\ slot[j][i] = "none" /\ pc[j] # "config" /\ plan[j].from > 0 /\ pc[j] # "run"
       /\ \A k \in SP : ~sp[k].host_done
  <2>1. slot[j][i] = "none" /\ SpInv(j)
    BY <1>1, <1>3, Zenon DEF IInv, PairInv
  <2>2. \A k \in SP : ~sp[k].host_done
    BY <1>2, Zenon DEF IInv, SpInv
  <2> QED
    BY <2>1, <2>2, <1>1, <1>3, Zenon DEF SpInv
<1>11. ASSUME NEW k \in SP
       PROVE  Counts(k)'
  <2>1. CASE k = i
    <3>1. Counts(i) /\ ~sp[i].ctx[j].done
      BY <1>10 DEF IInv, PairInv
    <3>2. /\ Present(i)' = Present(i) /\ Arriving(i)' = Arriving(i) /\ Accepted(i)' = Accepted(i)
      BY <1>3, <1>7 DEF Present, Arriving, Accepted
    <3>3. Linked(i)' = Linked(i)
      BY <1>1, <1>7 DEF Linked
    <3>4. Active(i)' = Active(i) \cup {j} /\ j \notin Active(i)
      <4>1. \A m \in Servers(i) : /\ sp'[i].ctx[m].done = sp[i].ctx[m].done
                                  /\ m # j => link'[i][m] = link[i][m]
        BY <1>6, <1>7, Zenon DEF SameContexts
      <4>2. link'[i][j] # "none" /\ ~sp'[i].ctx[j].done
        BY <4>1, <3>1, <1>7, Zenon
      <4>3. \A m \in Servers(i) : m \in Active(i)' <=> m \in Active(i) \/ m = j
        BY <4>1, <4>2, Zenon DEF Active
      <4>4. j \notin Active(i)
        BY <1>1, Zenon DEF Active
      <4> QED
        BY <4>3, <4>4, Zenon DEF Active
    <3>5. Cardinality(Active(i)') = Cardinality(Active(i)) + 1
      BY <3>4, <1>3, CountMore, CountedSets, Zenon
    <3> QED
      BY <2>1, <3>1, <3>2, <3>3, <3>5, <1>2, <1>6, SMTT(30) DEF Counts, SamePeers, SameHost
  <2>2. CASE k = j
    <3>1. Counts(j)
      BY <1>3, Zenon DEF IInv
    <3>2. /\ Present(j)' = Present(j) /\ Accepted(j)' = Accepted(j)
      BY <1>3, <1>7, <1>10, SMTT(30) DEF Present, Accepted
    <3>3. Linked(j)' = Linked(j) /\ Active(j)' = Active(j)
      BY <1>3, <1>5, <1>7, SMTT(30) DEF Linked, Active, SameContexts
    <3>4. Arriving(j)' = Arriving(j) \cup {i} /\ i \notin Arriving(j)
      BY <1>3, <1>7, <1>10 DEF Arriving
    <3>5. Cardinality(Arriving(j)') = Cardinality(Arriving(j)) + 1
      BY <3>4, <1>3, CountMore, CountedSets, Zenon
    <3> QED
      BY <2>2, <3>1, <3>2, <3>3, <3>5, <1>2, <1>5, SMTT(30) DEF Counts, SameHost
  <2>3. CASE k \notin {i, j}
    BY <2>3, <1>2, <1>4, <1>7, CountsSame, Zenon DEF IInv
  <2> QED
    BY <2>1, <2>2, <2>3, ZenonT(30)
<1>12. ASSUME NEW k \in SP, NEW m \in Servers(k)
       PROVE  PairInv(k, m)'
  <2>1. m \in SP /\ PairInv(k, m) /\ k \in Clients(m)
    <3>1. m \in SP
      BY SpSets, ZenonT(30)
    <3> QED
      BY <3>1, SpSets, Zenon DEF IInv
  <2>2. /\ sp'[k].host_done = sp[k].host_done /\ sp'[k].ctx[m].ep = sp[k].ctx[m].ep
        /\ sp'[k].ctx[m].ev = sp[k].ctx[m].ev /\ sp'[k].ctx[m].done = sp[k].ctx[m].done
    BY <1>4, <1>5, <1>6, SMTT(30) DEF SameHost, SameContexts
  <2>3. CASE k = i /\ m = j
    BY <2>1, <2>2, <2>3, <1>2, <1>7, <1>10, Zenon DEF PairInv
  <2>4. CASE ~(k = i /\ m = j)
    <3>1. link'[k][m] = link[k][m] /\ slot'[m][k] = slot[m][k]
      BY <2>1, <2>4, <1>7, ZenonT(30)
    <3> QED
      BY <3>1, <2>1, <2>2, <1>2, Zenon DEF PairInv
  <2> QED
    BY <2>3, <2>4, Zenon
<1>13. ASSUME NEW k \in SP
       PROVE  SpInv(k)'
  <2>1. SpInv(k)
    BY Zenon DEF IInv
  <2>2. /\ sp'[k].host_done = sp[k].host_done /\ sp'[k].ranks = sp[k].ranks
        /\ sp'[k].inter_done = sp[k].inter_done /\ sp'[k].terminated = sp[k].terminated
    BY <1>4, <1>5, <1>6, Zenon DEF SameHost, SamePeers
  <2>3. accepting'[k] => pc[k] # "config" /\ plan[k].from > 0
    BY <2>1, <1>8, <1>10, Zenon DEF SpInv
  <2>4. pc[k] = "run" => k # i /\ k # j
    BY <1>2, <1>10, Zenon
  <2> QED
    BY <2>1, <2>2, <2>3, <2>4, <1>2, <1>7, <1>10, SMTT(30) DEF SpInv
<1> QED
  BY <1>2, <1>9, <1>11, <1>12, <1>13, SMTT(30) DEF IInv

\* Nothing changes but the place in the program.
LEMMA AllStartedOK ==
  ASSUME IInv, NEW i \in SP, AllStarted(i)
  PROVE  IInv'
<1>g. pc[i] = "connect"
  BY Zenon DEF AllStarted, vars, static
<1>u. UNCHANGED <<sp, term, failed, plan, link, slot, accepting, connected>>
  BY Zenon DEF AllStarted, vars, static
<1>1. /\ pc' = [pc EXCEPT ![i] = "wait"]
  BY Zenon DEF AllStarted, vars, static
<1>t. Types
  BY Zenon DEF IInv
<1>2. /\ pc' \in [SP -> {"config", "connect", "wait", "run"}] /\ pc'[i] = "wait"
      /\ \A k \in SP \ {i} : pc'[k] = pc[k]
  BY <1>g, <1>1, <1>t, Zenon DEF Types
<1>3. Types'
  BY <1>u, <1>2, <1>t, Zenon DEF Types
<1>4. ASSUME NEW k \in SP
      PROVE  Counts(k)'
  <2>1. CASE k = i
    <3>1. Counts(i)
      BY Zenon DEF IInv
    <3>2. /\ Present(i)' = Present(i) /\ Arriving(i)' = Arriving(i) /\ Accepted(i)' = Accepted(i)
          /\ Linked(i)' = Linked(i) /\ Active(i)' = Active(i)
      BY <1>g, <1>u, Zenon DEF Present, Arriving, Accepted, Linked, Active
    <3> QED
      BY <2>1, <3>1, <3>2, <1>g, <1>u, <1>2, Zenon DEF Counts, One
  <2>2. CASE k # i
    BY <2>2, <1>g, <1>u, <1>2, CountsSame, Zenon DEF IInv
  <2> QED
    BY <2>1, <2>2, Zenon
<1>5. ASSUME NEW k \in SP, NEW m \in Servers(k)
      PROVE  PairInv(k, m)'
  <2>1. m \in SP /\ PairInv(k, m)
    BY SpSets, Zenon DEF IInv
  <2> QED
    BY <2>1, <1>g, <1>u, <1>2, Zenon DEF PairInv
<1>6. ASSUME NEW k \in SP
      PROVE  SpInv(k)'
  BY <1>g, <1>u, <1>2 DEF IInv, SpInv
<1> QED
  BY <1>g, <1>u, <1>3, <1>4, <1>5, <1>6, Zenon DEF IInv

\* The endpoint is there before the connection counts.
LEMMA SendBootstrapOK ==
  ASSUME IInv, NEW i \in SP, NEW j \in Servers(i), SendBootstrap(i, j)
  PROVE  IInv'
<1>g. link[i][j] = "oob"
  BY Zenon DEF SendBootstrap, static
<1>u. UNCHANGED <<plan, term, failed, pc, slot, accepting, connected>>
  BY Zenon DEF SendBootstrap, static
<1>1. /\ link' = [link EXCEPT ![i][j] = "sent"]
      /\ sp' = [sp EXCEPT ![i] = EndpointCreated(@, j)]
  BY Zenon DEF SendBootstrap, static
<1>t. Types /\ sp[i] \in SpType(i)
  BY Zenon DEF IInv, Types
<1>2. DOMAIN sp' = SP /\ sp'[i] = EndpointCreated(sp[i], j) /\ \A k \in SP \ {i} : sp'[k] = sp[k]
  BY <1>g, <1>1, <1>t, Zenon DEF Types
<1>3. /\ sp'[i] \in SpType(i) /\ SameHost(sp[i], sp'[i]) /\ SamePeers(sp[i], sp'[i])
      /\ sp'[i].clients_active = sp[i].clients_active
      /\ sp'[i].servers_active = sp[i].servers_active /\ sp'[i].terminated = sp[i].terminated
      /\ sp'[i].ctx[j].ep
      /\ \A m \in Servers(i) : /\ m # j => sp'[i].ctx[m].ep = sp[i].ctx[m].ep
                               /\ sp'[i].ctx[m].ev = sp[i].ctx[m].ev
                               /\ sp'[i].ctx[m].done = sp[i].ctx[m].done
  <2>1. OneMoreEndpoint(i, j, sp[i], sp'[i])
    BY <1>2, <1>t, EndpointCreatedOK, Zenon
  <2> QED
    BY <2>1, Zenon DEF OneMoreEndpoint
<1>4. /\ DOMAIN link' = SP
      /\ \A k \in SP : link'[k] \in [Servers(k) -> {"none", "oob", "sent", "done"}]
      /\ link'[i][j] = "sent" /\ \A m \in Servers(i) \ {j} : link'[i][m] = link[i][m]
      /\ \A k \in SP \ {i} : link'[k] = link[k]
  BY <1>g, <1>1, <1>t, Zenon DEF Types
<1>5. Types'
  BY <1>u, <1>2, <1>3, <1>4, <1>t, Zenon DEF Types
<1>6. ASSUME NEW k \in SP
      PROVE  Counts(k)'
  <2>1. CASE k = i
    <3>1. Counts(i)
      BY Zenon DEF IInv
    <3>2. /\ Present(i)' = Present(i) /\ Arriving(i)' = Arriving(i) /\ Accepted(i)' = Accepted(i)
      BY <1>g, <1>u, ZenonT(30) DEF Present, Arriving, Accepted
    <3>3. Linked(i)' = Linked(i) /\ Active(i)' = Active(i)
      BY <1>g, <1>u, <1>3, <1>4, SMTT(30) DEF Linked, Active
    <3> QED
      BY <2>1, <3>1, <3>2, <3>3, <1>g, <1>u, <1>3, SMTT(30) DEF Counts, SamePeers, SameHost
  <2>2. CASE k # i
    BY <2>2, <1>g, <1>u, <1>2, <1>4, CountsSame, Zenon DEF IInv
  <2> QED
    BY <2>1, <2>2, ZenonT(30)
<1>7. ASSUME NEW k \in SP, NEW m \in Servers(k)
      PROVE  PairInv(k, m)'
  <2>1. PairInv(k, m)
    BY ZenonT(30) DEF IInv
  <2>2. /\ sp'[k].host_done = sp[k].host_done
        /\ sp'[k].ctx[m].ev = sp[k].ctx[m].ev /\ sp'[k].ctx[m].done = sp[k].ctx[m].done
    BY <1>2, <1>3, SMTT(30) DEF SameHost
  <2>3. CASE k = i /\ m = j
    <3>1. sp'[i].ctx[j].ep /\ link'[i][j] = "sent"
      BY <1>3, <1>4, Zenon
    <3> QED
      BY <2>1, <2>2, <2>3, <3>1, <1>g, <1>u, SMTT(30) DEF PairInv
  <2>4. CASE ~(k = i /\ m = j)
    <3>1. link'[k][m] = link[k][m] /\ sp'[k].ctx[m].ep = sp[k].ctx[m].ep
      BY <2>4, <1>2, <1>3, <1>4, SMTT(30)
    <3> QED
      BY <3>1, <2>1, <2>2, <1>g, <1>u, ZenonT(30) DEF PairInv
  <2> QED
    BY <2>3, <2>4, Zenon
<1>8. ASSUME NEW k \in SP
      PROVE  SpInv(k)'
  <2>1. SpInv(k)
    BY Zenon DEF IInv
  <2>2. /\ sp'[k].host_done = sp[k].host_done /\ sp'[k].ranks = sp[k].ranks
        /\ sp'[k].inter_done = sp[k].inter_done /\ sp'[k].terminated = sp[k].terminated
    BY <1>2, <1>3, Zenon DEF SameHost, SamePeers
  <2>3. pc[k] = "run" => k # i
    BY <2>1, <1>g, <1>u, Zenon DEF SpInv
  <2> QED
    BY <2>1, <2>2, <2>3, <1>g, <1>u, <1>4, SMTT(30) DEF SpInv
<1> QED
  BY <1>g, <1>u, <1>5, <1>6, <1>7, <1>8, Zenon DEF IInv

-----------------------------------------------------------------------------
(* Finalizing connections: both ends are connected. *)

\* One more connection on the side of the client,
LEMMA ClientConnectedOK ==
  ASSUME SpCounting, IInv, NEW i \in SP, NEW j \in Servers(i), ClientConnected(i, j)
  PROVE  IInv'
<1>g. link[i][j] = "sent"
  BY Zenon DEF ClientConnected, OneMore, vars, static
<1>u. UNCHANGED <<sp, plan, term, failed, pc, slot, accepting>>
  BY Zenon DEF ClientConnected, OneMore, vars, static
<1>1. /\ link' = [link EXCEPT ![i][j] = "done"]
      /\ connected' = [connected EXCEPT ![i] = @ + 1]
  BY Zenon DEF ClientConnected, OneMore, vars, static
<1>t. Types
  BY Zenon DEF IInv
<1>2. /\ DOMAIN link' = SP
      /\ \A k \in SP : link'[k] \in [Servers(k) -> {"none", "oob", "sent", "done"}]
      /\ link'[i][j] = "done" /\ \A m \in Servers(i) \ {j} : link'[i][m] = link[i][m]
      /\ \A k \in SP \ {i} : link'[k] = link[k]
  BY <1>g, <1>1, <1>t, Zenon DEF Types
<1>3. /\ connected' \in [SP -> Int] /\ connected'[i] = connected[i] + 1
      /\ \A k \in SP \ {i} : connected'[k] = connected[k]
  BY <1>g, <1>1, <1>t DEF Types
<1>4. Types'
  BY <1>u, <1>2, <1>3, <1>t, Zenon DEF Types
<1>5. ASSUME NEW k \in SP
      PROVE  Counts(k)'
  <2>1. CASE k = i
    <3>1. Counts(i)
      BY Zenon DEF IInv
    <3>2. /\ Present(i)' = Present(i) /\ Arriving(i)' = Arriving(i) /\ Accepted(i)' = Accepted(i)
      BY <1>g, <1>u, Zenon DEF Present, Arriving, Accepted
    <3>3. Active(i)' = Active(i)
      BY <1>g, <1>u, <1>2, Zenon DEF Active
    <3>4. Linked(i)' = Linked(i) \cup {j} /\ j \notin Linked(i)
      BY <1>g, <1>u, <1>2, ZenonT(30) DEF Linked
    <3>5. Cardinality(Linked(i)') = Cardinality(Linked(i)) + 1
      BY <3>4, SpSets, CountMore, CountedSets, Zenon
    <3>6. Cardinality(Linked(i)) \in Nat /\ Cardinality(Accepted(i)) \in Nat
      BY CountType, CountedSets, Zenon
    <3> QED
      BY <2>1, <3>1, <3>2, <3>3, <3>5, <3>6, <1>g, <1>u, <1>3, SMTT(30) DEF Counts
  <2>2. CASE k # i
    BY <2>2, <1>g, <1>u, <1>2, <1>3, CountsSame, ZenonT(30) DEF IInv
  <2> QED
    BY <2>1, <2>2, ZenonT(30)
<1>6. ASSUME NEW k \in SP, NEW m \in Servers(k)
      PROVE  PairInv(k, m)'
  BY <1>g, <1>u, <1>2, SMTT(30) DEF IInv, PairInv
<1>7. ASSUME NEW k \in SP
      PROVE  SpInv(k)'
  BY <1>g, <1>u, <1>2 DEF IInv, SpInv
<1> QED
  BY <1>g, <1>u, <1>4, <1>5, <1>6, <1>7, Zenon DEF IInv

\* and one more on the side of the server.
LEMMA ServerConnectedOK ==
  ASSUME SpCounting, IInv, NEW i \in SP, NEW j \in Clients(i), ServerConnected(i, j)
  PROVE  IInv'
<1>g. slot[i][j] = "oob" /\ link[j][i] \in {"sent", "done"}
  BY Zenon DEF ServerConnected, static
<1>u. UNCHANGED <<plan, term, failed, pc, link, accepting>>
  BY Zenon DEF ServerConnected, static
<1>1. /\ slot' = [slot EXCEPT ![i][j] = "done"]
      /\ sp' = [sp EXCEPT ![i] = ClientFinalized(@)]
      /\ connected' = [connected EXCEPT ![i] = @ + 1]
  BY Zenon DEF ServerConnected, static
<1>t. Types /\ sp[i] \in SpType(i)
  BY Zenon DEF IInv, Types
<1>2. DOMAIN sp' = SP /\ sp'[i] = ClientFinalized(sp[i]) /\ \A k \in SP \ {i} : sp'[k] = sp[k]
  BY <1>g, <1>1, <1>t, ZenonT(30) DEF Types
<1>3. /\ sp'[i] \in SpType(i) /\ SameHost(sp[i], sp'[i]) /\ SameContexts(sp[i], sp'[i], Servers(i))
      /\ sp'[i].clients_active = sp[i].clients_active
      /\ sp'[i].servers_active = sp[i].servers_active
      /\ sp'[i].terminated = sp[i].terminated /\ sp'[i].inter_done = sp[i].inter_done
      /\ sp'[i].ongoing = sp[i].ongoing - 1 /\ sp'[i].peers = sp[i].peers + 1
  BY <1>2, <1>t, ClientFinalizedOK
<1>4. /\ DOMAIN slot' = SP
      /\ \A k \in SP : slot'[k] \in [Clients(k) -> {"none", "oob", "done", "gone"}]
      /\ slot'[i][j] = "done" /\ \A m \in Clients(i) \ {j} : slot'[i][m] = slot[i][m]
      /\ \A k \in SP \ {i} : slot'[k] = slot[k]
  BY <1>g, <1>1, <1>t, Zenon DEF Types
<1>5. /\ connected' \in [SP -> Int] /\ connected'[i] = connected[i] + 1
      /\ \A k \in SP \ {i} : connected'[k] = connected[k]
  BY <1>g, <1>1, <1>t DEF Types
<1>6. Types'
  BY <1>u, <1>2, <1>3, <1>4, <1>5, <1>t, Zenon DEF Types
<1>7. ASSUME NEW k \in SP
      PROVE  Counts(k)'
  <2>1. CASE k = i
    <3>1. Counts(i) /\ j \in SP
      BY SpSets, Zenon DEF IInv
    <3>2. Linked(i)' = Linked(i) /\ Active(i)' = Active(i)
      BY <1>g, <1>u, <1>3, ZenonT(30) DEF Linked, Active, SameContexts
    <3>3. /\ Present(i)' = Present(i) \cup {j} /\ j \notin Present(i)
          /\ Accepted(i)' = Accepted(i) \cup {j} /\ j \notin Accepted(i)
      BY <1>g, <1>u, <1>4, SMTT(30) DEF Present, Accepted
    <3>4. Arriving(i)' = Arriving(i) \ {j} /\ j \in Arriving(i)
      BY <1>g, <1>u, <1>4 DEF Arriving
    <3>5. /\ Cardinality(Present(i)') = Cardinality(Present(i)) + 1
          /\ Cardinality(Accepted(i)') = Cardinality(Accepted(i)) + 1
      BY <3>1, <3>3, CountMore, CountedSets, Zenon
    <3>6. Cardinality(Arriving(i)') = Cardinality(Arriving(i)) - 1
      BY <3>4, CountLess, CountedSets, Zenon
    <3>7. Cardinality(Linked(i)) \in Nat /\ Cardinality(Accepted(i)) \in Nat
      BY CountType, CountedSets, Zenon
    <3> QED
      BY <2>1, <3>1, <3>2, <3>5, <3>6, <3>7, <1>g, <1>u, <1>3, <1>5, SMTT(30) DEF Counts, SameHost
  <2>2. CASE k # i
    BY <2>2, <1>g, <1>u, <1>2, <1>4, <1>5, CountsSame, Zenon DEF IInv
  <2> QED
    BY <2>1, <2>2, ZenonT(30)
<1>8. ASSUME NEW k \in SP, NEW m \in Servers(k)
      PROVE  PairInv(k, m)'
  <2>1. m \in SP /\ PairInv(k, m) /\ k \in Clients(m)
    <3>1. m \in SP
      BY SpSets, Zenon
    <3> QED
      BY <3>1, SpSets, Zenon DEF IInv
  <2>2. /\ sp'[k].host_done = sp[k].host_done /\ sp'[k].ctx[m].ep = sp[k].ctx[m].ep
        /\ sp'[k].ctx[m].ev = sp[k].ctx[m].ev /\ sp'[k].ctx[m].done = sp[k].ctx[m].done
    BY <1>2, <1>3, SMTT(30) DEF SameHost, SameContexts
  <2>3. CASE m = i /\ k = j
    BY <2>1, <2>2, <2>3, <1>g, <1>u, <1>4, Zenon DEF PairInv
  <2>4. CASE ~(m = i /\ k = j)
    <3>1. slot'[m][k] = slot[m][k]
      BY <2>1, <2>4, <1>4, ZenonT(30)
    <3> QED
      BY <3>1, <2>1, <2>2, <1>g, <1>u, Zenon DEF PairInv
  <2> QED
    BY <2>3, <2>4, Zenon
<1>9. ASSUME NEW k \in SP
      PROVE  SpInv(k)'
  <2>1. SpInv(k)
    BY Zenon DEF IInv
  <2>2. /\ sp'[k].host_done = sp[k].host_done /\ sp'[k].ranks = sp[k].ranks
        /\ sp'[k].inter_done = sp[k].inter_done /\ sp'[k].terminated = sp[k].terminated
    BY <1>2, <1>3, Zenon DEF SameHost
  <2>3. pc[k] = "run" \/ sp[k].inter_done \/ sp[k].terminated => slot'[k] = slot[k]
    BY <2>1, <1>g, <1>u, <1>4 DEF SpInv
  <2> QED
    BY <2>1, <2>2, <2>3, <1>g, <1>u, SMTT(30) DEF SpInv
<1> QED
  BY <1>g, <1>u, <1>6, <1>7, <1>8, <1>9, ZenonT(30) DEF IInv

-----------------------------------------------------------------------------
(* Accepting ranks. *)

\* By counting, an SP that starts the server for its host has all connections.
LEMMA StartHostServerOK ==
  ASSUME SpCounting, IInv, NEW i \in SP, StartHostServer(i)
  PROVE  IInv'
<1>g. pc[i] = "wait" /\ connected[i] + 1 = NumSps
  BY Zenon DEF StartHostServer, static
<1>u. UNCHANGED <<plan, term, failed, link, slot, accepting, connected>>
  BY Zenon DEF StartHostServer, static
<1>1. /\ pc' = [pc EXCEPT ![i] = "run"]
      /\ sp' = [sp EXCEPT ![i] = ServerStarted(@)]
  BY Zenon DEF StartHostServer, static
<1>t. Types /\ sp[i] \in SpType(i)
  BY Zenon DEF IInv, Types
<1>c. Counts(i)
  BY Zenon DEF IInv
<1>2. DOMAIN sp' = SP /\ sp'[i] = ServerStarted(sp[i]) /\ \A k \in SP \ {i} : sp'[k] = sp[k]
  BY <1>g, <1>1, <1>t, Zenon DEF Types
<1>3. /\ sp'[i] \in SpType(i) /\ SameHost(sp[i], sp'[i]) /\ SamePeers(sp[i], sp'[i])
      /\ SameContexts(sp[i], sp'[i], Servers(i))
      /\ sp'[i].clients_active = sp[i].clients_active /\ sp'[i].terminated = sp[i].terminated
      /\ sp'[i].servers_active = sp[i].servers_active + 1
  BY <1>2, <1>t, ServerStartedOK
<1>4. /\ pc' \in [SP -> {"config", "connect", "wait", "run"}] /\ pc'[i] = "run"
      /\ \A k \in SP \ {i} : pc'[k] = pc[k]
  BY <1>g, <1>1, <1>t, Zenon DEF Types
<1>5. Types'
  BY <1>u, <1>2, <1>3, <1>4, <1>t, Zenon DEF Types
<1>6. Linked(i) = Servers(i) /\ Accepted(i) = Clients(i)
  <2>1. Linked(i) \in SUBSET Servers(i) /\ Accepted(i) \in SUBSET Clients(i)
    BY Zenon DEF Linked, Accepted
  <2>2. Cardinality(Linked(i)) + Cardinality(Accepted(i)) + 1 = NumSps
    BY <1>g, <1>u, <1>c, Zenon DEF Counts
  <2> QED
    BY <2>1, <2>2, CountAll, Zenon
<1>7. \A k \in SP : ~sp[k].host_done
  BY <1>g, <1>u, Zenon DEF IInv, SpInv
<1>8. ASSUME NEW k \in SP
      PROVE  Counts(k)'
  <2>1. CASE k = i
    <3>1. /\ Present(i)' = Present(i) /\ Arriving(i)' = Arriving(i) /\ Accepted(i)' = Accepted(i)
          /\ Linked(i)' = Linked(i) /\ Active(i)' = Active(i)
      BY <1>u, <1>3, ZenonT(30) DEF Present, Arriving, Accepted, Linked, Active, SameContexts
    <3>2. sp'[i].servers_active = 1 + One(plan[i].from > 0 /\ ~sp[i].inter_done)
      BY <1>g, <1>u, <1>3, <1>c, SMTT(30) DEF Counts, One
    <3>3. /\ sp'[i].peers = sp[i].peers /\ sp'[i].ongoing = sp[i].ongoing
          /\ sp'[i].inter_done = sp[i].inter_done /\ sp'[i].clients_active = sp[i].clients_active
          /\ ~sp'[i].host_done
      BY <1>3, <1>7, Zenon DEF SameHost, SamePeers
    <3>4. sp'[i].servers_active = One(pc'[i] = "run" /\ ~sp'[i].host_done)
             + One(pc'[i] # "config" /\ plan'[i].from > 0 /\ ~sp'[i].inter_done)
      BY <3>2, <3>3, <1>u, <1>4, Zenon DEF One
    <3> QED
      BY <2>1, <3>1, <3>3, <3>4, <1>u, <1>c, Zenon DEF Counts
  <2>2. CASE k # i
    <3>1. sp'[k] = sp[k] /\ pc'[k] = pc[k] /\ Counts(k)
      BY <2>2, <1>2, <1>4, ZenonT(30) DEF IInv
    <3> QED
      BY <3>1, <1>u, CountsSame, Zenon
  <2> QED
    BY <2>1, <2>2, Zenon
<1>9. ASSUME NEW k \in SP, NEW m \in Servers(k)
      PROVE  PairInv(k, m)'
  <2>1. m \in SP /\ PairInv(k, m)
    BY SpSets, ZenonT(30) DEF IInv
  <2>2. /\ sp'[k].host_done = sp[k].host_done /\ sp'[k].ctx[m].ep = sp[k].ctx[m].ep
        /\ sp'[k].ctx[m].ev = sp[k].ctx[m].ev /\ sp'[k].ctx[m].done = sp[k].ctx[m].done
    BY <1>2, <1>3, SMTT(30) DEF SameHost, SameContexts
  <2> QED
    BY <2>1, <2>2, <1>g, <1>u, <1>4, SMTT(30) DEF PairInv
<1>10. ASSUME NEW k \in SP
       PROVE  SpInv(k)'
  <2>1. SpInv(k)
    BY Zenon DEF IInv
  <2>2. /\ sp'[k].host_done = sp[k].host_done /\ sp'[k].ranks = sp[k].ranks
        /\ sp'[k].inter_done = sp[k].inter_done /\ sp'[k].terminated = sp[k].terminated
    BY <1>2, <1>3, Zenon DEF SameHost, SamePeers
  <2>3. pc'[k] = "run" => /\ \A m \in Servers(k) : link[k][m] = "done"
                          /\ \A m \in Clients(k) : slot[k][m] \in {"done", "gone"}
    BY <2>1, <1>4, <1>6, Zenon DEF SpInv, Linked, Accepted
  <2> QED
    BY <2>1, <2>2, <2>3, <1>g, <1>u, <1>4, <1>7, SMTT(30) DEF SpInv
<1> QED
  BY <1>g, <1>u, <1>5, <1>8, <1>9, <1>10, Zenon DEF IInv

-----------------------------------------------------------------------------
(* Ranks and SPs leave. *)

\* Here it matters that the ranks leave after all SPs were started.
LEMMA RankLeavesOK ==
  ASSUME WorldFirst, IInv, NEW i \in SP, RankLeaves(i)
  PROVE  IInv'
<1>g. (\A k \in SP : pc[k] = "run") /\ sp[i].ranks > 0
  BY Zenon DEF RankLeaves, RecvFromRank, Unconnected, static
<1>u. UNCHANGED <<plan, pc, link, accepting, connected, slot>>
  BY Zenon DEF RankLeaves, RecvFromRank, Unconnected, static
<1>1. /\ sp' = [sp EXCEPT ![i] = RankLeft(@)]
      /\ term' = [term EXCEPT ![i] = [j \in Servers(i) |->
                     IF sp'[i].host_done THEN term[i][j] + 1 ELSE term[i][j]]]
      /\ failed' = failed \cup
           Check(sp[i].ranks # 1 \/ sp[i].servers_active > 0, "servers.num_active")
  BY Zenon DEF RankLeaves, RecvFromRank, Unconnected, static
<1>t. Types /\ sp[i] \in SpType(i) /\ sp[i].ranks \in Nat
  BY Zenon DEF IInv, Types, SpType
<1>c. Counts(i) /\ SpInv(i)
  BY Zenon DEF IInv
<1>2. DOMAIN sp' = SP /\ sp'[i] = RankLeft(sp[i]) /\ \A k \in SP \ {i} : sp'[k] = sp[k]
  BY <1>g, <1>1, <1>t, Zenon DEF Types
<1>3. /\ sp'[i] \in SpType(i) /\ SamePeers(sp[i], sp'[i]) /\ sp'[i].ranks = sp[i].ranks - 1
      /\ sp'[i].clients_active = sp[i].clients_active /\ sp'[i].terminated = sp[i].terminated
      /\ IF sp[i].ranks = 1
         THEN /\ sp'[i].host_done /\ sp'[i].servers_active = sp[i].servers_active - 1
              /\ \A m \in Servers(i) : /\ sp'[i].ctx[m].ep = sp[i].ctx[m].ep
                                       /\ sp'[i].ctx[m].done = sp[i].ctx[m].done
         ELSE /\ sp'[i].host_done = sp[i].host_done /\ sp'[i].servers_active = sp[i].servers_active
              /\ SameContexts(sp[i], sp'[i], Servers(i))
  BY <1>g, <1>1, <1>2, <1>t, RankLeftOK, Zenon
<1>4. /\ ~sp[i].host_done /\ (sp'[i].host_done <=> sp[i].ranks = 1)
      /\ ~sp[i].terminated
      /\ \A m \in Servers(i) : ~sp[i].ctx[m].ev /\ ~sp[i].ctx[m].done
      /\ \A m \in Servers(i) : /\ sp'[i].ctx[m].ep = sp[i].ctx[m].ep
                               /\ sp'[i].ctx[m].done = sp[i].ctx[m].done
  <2>1. ~sp[i].host_done
    BY <1>g, <1>c, SMTT(30) DEF SpInv
  <2> QED
    <3>1. sp'[i].host_done <=> sp[i].ranks = 1
      BY <2>1, <1>3, Zenon
    <3>2. ~sp[i].terminated
      BY <2>1, <1>c, Zenon DEF SpInv
    <3>3. \A m \in Servers(i) : ~sp[i].ctx[m].ev /\ ~sp[i].ctx[m].done
      BY <2>1, Zenon DEF IInv, PairInv
    <3>4. \A m \in Servers(i) : /\ sp'[i].ctx[m].ep = sp[i].ctx[m].ep
                                /\ sp'[i].ctx[m].done = sp[i].ctx[m].done
      BY <1>3, Zenon DEF SameContexts
    <3> QED
      BY <2>1, <3>1, <3>2, <3>3, <3>4, Zenon
<1>5. /\ DOMAIN term' = SP /\ \A k \in SP \ {i} : term'[k] = term[k]
      /\ \A k \in SP : term'[k] \in [Servers(k) -> Nat]
      /\ \A m \in Servers(i) : term'[i][m] = IF sp'[i].host_done THEN term[i][m] + 1 ELSE term[i][m]
  BY <1>g, <1>1, <1>t, SMTT(30) DEF Types
<1>6. Types'
  BY <1>u, <1>2, <1>3, <1>5, <1>t, Zenon DEF Types
<1>7. failed' = {}
  <2>1. sp[i].servers_active > 0
    BY <1>g, <1>u, <1>4, <1>c, SMTT(30) DEF Counts, One
  <2> QED
    BY <2>1, <1>1, ZenonT(30) DEF IInv, Check
<1>8. ASSUME NEW k \in SP
      PROVE  Counts(k)'
  <2>1. CASE k = i
    <3>1. /\ Present(i)' = Present(i) /\ Arriving(i)' = Arriving(i) /\ Accepted(i)' = Accepted(i)
          /\ Linked(i)' = Linked(i)
      BY <1>g, <1>u, Zenon DEF Present, Arriving, Accepted, Linked
    <3>2. Active(i)' = Active(i)
      BY <1>g, <1>u, <1>4, Zenon DEF Active
    <3>3. sp'[i].servers_active = One(pc[i] = "run" /\ ~sp'[i].host_done)
            + One(pc[i] # "config" /\ plan[i].from > 0 /\ ~sp[i].inter_done)
      <4> DEFINE x == One(pc[i] # "config" /\ plan[i].from > 0 /\ ~sp[i].inter_done)
      <4>1. x \in Int /\ (1 + x) - 1 = 0 + x
        BY DEF One
      <4>2. sp[i].servers_active = 1 + x
        BY <1>g, <1>4, <1>c, Zenon DEF Counts, One
      <4> HIDE DEF x
      <4>3. sp'[i].servers_active = One(pc[i] = "run" /\ ~sp'[i].host_done) + x
        BY <4>1, <4>2, <1>g, <1>3, <1>4, Zenon DEF One
      <4> QED
        BY <4>3, Zenon DEF x
    <3> QED
      BY <2>1, <3>1, <3>2, <3>3, <1>g, <1>u, <1>3, <1>c, ZenonT(30) DEF Counts, SamePeers
  <2>2. CASE k # i
    BY <2>2, <1>g, <1>u, <1>2, CountsSame, Zenon DEF IInv
  <2> QED
    BY <2>1, <2>2, Zenon
<1>9. ASSUME NEW k \in SP, NEW m \in Servers(k)
      PROVE  PairInv(k, m)'
  <2>1. m \in SP /\ PairInv(k, m) /\ k \in Clients(m) /\ SpInv(m)
    <3>1. m \in SP
      BY SpSets, ZenonT(30)
    <3> QED
      BY <3>1, SpSets, Zenon DEF IInv
  <2>2. CASE k = i
    <3>1. slot[m][i] = "done" /\ term[i][m] = 0
      BY <2>1, <2>2, <1>g, <1>u, <1>4, SMTT(30) DEF PairInv, SpInv
    <3>2. ~sp'[i].ctx[m].done
      BY <2>2, <1>4, ZenonT(30)
    <3>3. sp'[i].ctx[m].ev => sp'[i].host_done
      BY <2>2, <1>3, <1>4, SMTT(30) DEF SameContexts
    <3>4. link[i][m] \in {"sent", "done"} => sp'[i].ctx[m].ep
      BY <2>1, <2>2, <1>4, Zenon DEF PairInv
    <3>5. term'[i][m] = IF sp'[i].host_done THEN 1 ELSE 0
      BY <3>1, <2>2, <1>5
    <3>6. link[i][m] = "none" => slot[m][i] = "none"
      BY <2>1, <2>2, Zenon DEF PairInv
    <3>7. plan[m].from > 0
      BY <3>1, <2>1, <2>2, Zenon DEF PairInv
    <3> QED
      BY <2>1, <2>2, <3>1, <3>2, <3>3, <3>4, <3>5, <3>6, <3>7, <1>g, <1>u, SMTT(30) DEF PairInv
  <2>3. CASE k # i
    BY <2>1, <2>3, <1>g, <1>u, <1>2, <1>5, Zenon DEF PairInv
  <2> QED
    BY <2>2, <2>3, Zenon
<1>10. ASSUME NEW k \in SP
       PROVE  SpInv(k)'
  <2>1. SpInv(k)
    BY Zenon DEF IInv
  <2>2. CASE k = i
    <3>1. sp'[i].host_done <=> sp'[i].ranks = 0
      <4>1. sp'[i].ranks = sp[i].ranks - 1 /\ (sp'[i].host_done <=> sp[i].ranks = 1)
        BY <1>3, <1>4, Zenon
      <4>2. sp[i].ranks - 1 = 0 <=> sp[i].ranks = 1
        BY <1>t, SMTT(30)
      <4> QED
        BY <4>1, <4>2, Zenon
    <3> QED
      BY <2>1, <2>2, <3>1, <1>g, <1>u, <1>3, <1>4, ZenonT(30) DEF SpInv, SamePeers
  <2>3. CASE k # i
    BY <2>1, <2>3, <1>u, <1>2, SpInvSame, ZenonT(30)
  <2> QED
    BY <2>2, <2>3, Zenon
<1> QED
  BY <1>6, <1>7, <1>8, <1>9, <1>10, Zenon DEF IInv

\* A message of an SP arrives while its slot is taken; when it is the last one, by
\* counting, all slots were left.
LEMMA SpLeavesOK ==
  ASSUME SpCounting, IInv, NEW i \in SP, NEW j \in Clients(i), SpLeaves(i, j)
  PROVE  IInv'
<1>g. term[j][i] > 0
  BY Zenon DEF SpLeaves, RecvFromSp, Unconnected, static
<1>u. UNCHANGED <<plan, pc, link, accepting, connected>>
  BY Zenon DEF SpLeaves, RecvFromSp, Unconnected, static
<1>1. /\ term' = [term EXCEPT ![j][i] = @ - 1]
      /\ sp' = [sp EXCEPT ![i] = PeerLeft(@)]
      /\ failed' = failed
           \cup Check(sp[i].peers > 0, "num_connected_clients")
           \cup Check(LastPeer(sp[i]) => sp[i].servers_active > 0, "servers.num_active")
      /\ slot' = [slot EXCEPT ![i][j] = "gone"]
  BY Zenon DEF SpLeaves, RecvFromSp, Unconnected, static
<1>2. j \in SP /\ i \in Servers(j) /\ i # j
  <2>1. j \in SP
    BY SpSets, Zenon
  <2> QED
    BY <2>1, SpSets, Zenon
<1>t. Types /\ sp[i] \in SpType(i)
  BY <1>2, Zenon DEF IInv, Types
<1>c. Counts(i) /\ SpInv(i) /\ PairInv(j, i) /\ SpInv(j)
  BY <1>2, ZenonT(30) DEF IInv
<1>3. /\ term[j][i] = 1 /\ slot[i][j] = "done" /\ sp[j].host_done /\ plan[i].from > 0
      /\ \A k \in SP : pc[k] = "run"
  BY <1>g, <1>2, <1>c DEF PairInv, SpInv
<1>4. DOMAIN sp' = SP /\ sp'[i] = PeerLeft(sp[i]) /\ \A k \in SP \ {i} : sp'[k] = sp[k]
  BY <1>g, <1>1, <1>t, ZenonT(30) DEF Types
<1>5. /\ sp'[i] \in SpType(i) /\ SameHost(sp[i], sp'[i]) /\ SameContexts(sp[i], sp'[i], Servers(i))
      /\ sp'[i].peers = sp[i].peers - 1 /\ sp'[i].ongoing = sp[i].ongoing
      /\ sp'[i].clients_active = sp[i].clients_active
      /\ IF LastPeer(sp[i])
         THEN /\ sp'[i].inter_done /\ sp'[i].servers_active = sp[i].servers_active - 1
              /\ sp'[i].terminated => sp[i].terminated \/ sp[i].servers_active - 1 = 0
         ELSE /\ sp'[i].inter_done = sp[i].inter_done
              /\ sp'[i].servers_active = sp[i].servers_active
              /\ sp'[i].terminated = sp[i].terminated
  BY <1>4, <1>t, PeerLeftOK, SMTT(30)
<1>6. /\ DOMAIN term' = SP /\ \A k \in SP \ {j} : term'[k] = term[k]
      /\ \A m \in Servers(j) \ {i} : term'[j][m] = term[j][m]
      /\ term'[j][i] = 0 /\ \A k \in SP : term'[k] \in [Servers(k) -> Nat]
  BY <1>g, <1>1, <1>2, <1>3, <1>t, SMTT(30) DEF Types
<1>7. /\ DOMAIN slot' = SP
      /\ \A k \in SP : slot'[k] \in [Clients(k) -> {"none", "oob", "done", "gone"}]
      /\ slot'[i][j] = "gone" /\ \A m \in Clients(i) \ {j} : slot'[i][m] = slot[i][m]
      /\ \A k \in SP \ {i} : slot'[k] = slot[k]
  BY <1>g, <1>1, <1>t, Zenon DEF Types
<1>8. Types'
  BY <1>u, <1>4, <1>5, <1>6, <1>7, <1>t, Zenon DEF Types
<1>9. /\ ~sp[i].inter_done /\ ~sp[i].terminated
      /\ sp[i].servers_active = One(~sp[i].host_done) + 1
  BY <1>3, <1>c, Zenon DEF SpInv, Counts, One
<1>10. /\ Present(i)' = Present(i) \ {j} /\ j \in Present(i)
       /\ Cardinality(Present(i)') = Cardinality(Present(i)) - 1
       /\ sp[i].peers > 0 /\ sp'[i].peers = Cardinality(Present(i)')
  <2>1. Present(i)' = Present(i) \ {j} /\ j \in Present(i)
    BY <1>3, <1>7 DEF Present
  <2>2. Cardinality(Present(i)') = Cardinality(Present(i)) - 1 /\ Cardinality(Present(i)) > 0
    BY <2>1, CountLess, CountedSets, Zenon
  <2> QED
    BY <2>1, <2>2, <1>5, <1>c, Zenon DEF Counts
<1>11. LastPeer(sp[i]) => \A m \in Clients(i) : slot'[i][m] = "gone"
  <2> SUFFICES ASSUME LastPeer(sp[i]), NEW m \in Clients(i)
               PROVE  slot'[i][m] = "gone"
    BY ZenonT(30)
  <2>1. Cardinality(Present(i)') = 0
    BY <1>5, <1>10, <1>c, SMTT(30) DEF LastPeer, Counts
  <2>2. Present(i)' \in SUBSET SP
    BY <1>10, CountedSets, Zenon
  <2>3. Present(i)' = {}
    BY <2>1, <2>2, CountType, Zenon
  <2>4. slot[i][m] \in {"done", "gone"}
    BY <1>3, <1>c, Zenon DEF SpInv
  <2> QED
    BY <2>3, <2>4, <1>7, Zenon DEF Present
<1>12. failed' = {}
  <2>1. sp[i].servers_active > 0
    BY <1>9 DEF One
  <2> QED
    BY <2>1, <1>1, <1>10, Zenon DEF IInv, Check
<1>13. ASSUME NEW k \in SP
       PROVE  Counts(k)'
  <2>1. CASE k = i
    <3>1. Linked(i)' = Linked(i) /\ Active(i)' = Active(i)
      BY <1>g, <1>u, <1>5, ZenonT(30) DEF Linked, Active, SameContexts
    <3>2. Arriving(i)' = Arriving(i) /\ Accepted(i)' = Accepted(i)
      BY <1>3, <1>7, SMTT(30) DEF Arriving, Accepted
    <3>3. sp'[i].servers_active = One(~sp[i].host_done) + One(~sp'[i].inter_done)
      BY <1>5, <1>9 DEF One
    <3> QED
      BY <2>1, <3>1, <3>2, <3>3, <1>g, <1>u, <1>3, <1>5, <1>10, <1>c, SMTT(30) DEF Counts, One, SameHost
  <2>2. CASE k # i
    BY <2>2, <1>g, <1>u, <1>4, <1>7, CountsSame, Zenon DEF IInv
  <2> QED
    BY <2>1, <2>2, ZenonT(30)
<1>14. ASSUME NEW k \in SP, NEW m \in Servers(k)
       PROVE  PairInv(k, m)'
  <2>1. m \in SP /\ PairInv(k, m) /\ k \in Clients(m)
    <3>1. m \in SP
      BY SpSets, Zenon
    <3> QED
      BY <3>1, SpSets, Zenon DEF IInv
  <2>2. /\ sp'[k].host_done = sp[k].host_done /\ sp'[k].ctx[m].ep = sp[k].ctx[m].ep
        /\ sp'[k].ctx[m].ev = sp[k].ctx[m].ev /\ sp'[k].ctx[m].done = sp[k].ctx[m].done
    <3>1. CASE k = i
      BY <3>1, <1>5, Zenon DEF SameHost, SameContexts
    <3>2. CASE k # i
      BY <3>2, <1>4, Zenon
    <3> QED
      BY <3>1, <3>2, Zenon
  <2>3. CASE k = j /\ m = i
    <3>1. slot'[i][j] = "gone" /\ term'[j][i] = 0 /\ 0 # 1 /\ "gone" # "done" /\ "gone" # "none"
      BY <1>6, <1>7
    <3> QED
      BY <2>1, <2>2, <2>3, <3>1, <1>u, <1>3, Zenon DEF PairInv
  <2>4. CASE ~(k = j /\ m = i)
    <3>1. slot'[m][k] = slot[m][k] /\ term'[k][m] = term[k][m]
      BY <2>1, <2>4, <1>6, <1>7, Zenon
    <3> QED
      BY <3>1, <2>1, <2>2, <1>g, <1>u, ZenonT(30) DEF PairInv
  <2> QED
    BY <2>3, <2>4, Zenon
<1>15. ASSUME NEW k \in SP
       PROVE  SpInv(k)'
  <2>1. SpInv(k)
    BY ZenonT(30) DEF IInv
  <2>2. CASE k = i
    <3>1. sp'[i].inter_done => LastPeer(sp[i])
      BY <1>5, <1>9, Zenon
    <3>2. sp'[i].terminated => LastPeer(sp[i]) /\ sp[i].host_done
      <4>1. ~sp[i].host_done => sp[i].servers_active - 1 # 0
        BY <1>9 DEF One
      <4> QED
        BY <4>1, <1>5, <1>9, Zenon
    <3>3. \A m \in Clients(i) : slot[i][m] \in {"done", "gone"} => slot'[i][m] \in {"done", "gone"}
      BY <1>7, ZenonT(30)
    <3> QED
      BY <2>1, <2>2, <3>1, <3>2, <3>3, <1>g, <1>u, <1>3, <1>5, <1>11, SMTT(30) DEF SpInv, SameHost
  <2>3. CASE k # i
    BY <2>1, <2>3, <1>u, <1>4, <1>7, SpInvSame, ZenonT(30)
  <2> QED
    BY <2>2, <2>3, Zenon
<1> QED
  BY <1>8, <1>12, <1>13, <1>14, <1>15, Zenon DEF IInv

\* A client that completed was active.  If the SP is terminated by it, all its
\* servers are done.
LEMMA LeaveCompletedOK ==
  ASSUME SpCounting, IInv, NEW i \in SP, NEW j \in Servers(i), LeaveCompleted(i, j)
  PROVE  IInv'
<1>g. sp[i].ctx[j].ev
  BY Zenon DEF LeaveCompleted, TermCompleted, Unconnected, static
<1>u. UNCHANGED <<plan, pc, link, accepting, connected, slot, term>>
  BY Zenon DEF LeaveCompleted, TermCompleted, Unconnected, static
<1>1. /\ sp' = [sp EXCEPT ![i] = TermNotificationCompleted(@, j)]
      /\ failed' = failed \cup Check(sp[i].clients_active > 0, "clients.num_active")
  BY Zenon DEF LeaveCompleted, TermCompleted, Unconnected, static
<1>t. Types /\ sp[i] \in SpType(i)
  BY Zenon DEF IInv, Types
<1>c. Counts(i) /\ SpInv(i) /\ PairInv(i, j)
  BY Zenon DEF IInv
<1>2. DOMAIN sp' = SP /\ sp'[i] = TermNotificationCompleted(sp[i], j)
      /\ \A k \in SP \ {i} : sp'[k] = sp[k]
  BY <1>g, <1>1, <1>t, Zenon DEF Types
<1>3. /\ sp'[i] \in SpType(i) /\ SameHost(sp[i], sp'[i]) /\ SamePeers(sp[i], sp'[i])
      /\ sp'[i].clients_active = sp[i].clients_active - 1
      /\ sp'[i].servers_active = sp[i].servers_active
      /\ sp'[i].ctx[j].done /\ ~sp'[i].ctx[j].ev
      /\ \A m \in Servers(i) \ {j} : /\ sp'[i].ctx[m].ep = sp[i].ctx[m].ep
                                     /\ sp'[i].ctx[m].ev = sp[i].ctx[m].ev
                                     /\ sp'[i].ctx[m].done = sp[i].ctx[m].done
      /\ sp'[i].terminated => sp[i].terminated \/ sp[i].servers_active = 0
  <2>1. OneClientLess(i, j, sp[i], sp'[i])
    BY <1>2, <1>t, TermNotificationCompletedOK, Zenon
  <2> QED
    BY <2>1, Zenon DEF OneClientLess
<1>4. /\ sp[i].host_done /\ ~sp[i].ctx[j].done /\ \A k \in SP : pc[k] = "run"
  BY <1>g, <1>c, Zenon DEF PairInv, SpInv
<1>5. Types'
  BY <1>u, <1>2, <1>3, <1>t, ZenonT(30) DEF Types
<1>6. /\ Active(i)' = Active(i) \ {j} /\ sp[i].clients_active > 0
      /\ Cardinality(Active(i)') = Cardinality(Active(i)) - 1
  <2>1. link[i][j] = "done"
    BY <1>4, <1>c, Zenon DEF SpInv
  <2>2. Active(i)' = Active(i) \ {j} /\ j \in Active(i)
    BY <2>1, <1>g, <1>u, <1>3, <1>4, Zenon DEF Active
  <2>3. /\ Cardinality(Active(i) \ {j}) = Cardinality(Active(i)) - 1
        /\ Cardinality(Active(i)) > 0
    <3>1. Active(i) \in SUBSET SP
      BY CountedSets, Zenon
    <3> QED
      BY <2>2, <3>1, CountLess, Zenon
  <2> QED
    BY <2>2, <2>3, <1>c, Zenon DEF Counts
<1>7. failed' = {}
  BY <1>1, <1>6, Zenon DEF IInv, Check
<1>8. ASSUME NEW k \in SP
      PROVE  Counts(k)'
  <2>1. CASE k = i
    <3>1. /\ Present(i)' = Present(i) /\ Arriving(i)' = Arriving(i) /\ Accepted(i)' = Accepted(i)
          /\ Linked(i)' = Linked(i)
      BY <1>g, <1>u, Zenon DEF Present, Arriving, Accepted, Linked
    <3>2. Counts(i) /\ sp'[i].clients_active = Cardinality(Active(i)')
      BY <1>3, <1>6, <1>c, Zenon DEF Counts
    <3>3. /\ sp'[i].peers = sp[i].peers /\ sp'[i].ongoing = sp[i].ongoing
          /\ sp'[i].inter_done = sp[i].inter_done /\ sp'[i].host_done = sp[i].host_done
          /\ sp'[i].servers_active = sp[i].servers_active
      BY <1>3, Zenon DEF SamePeers, SameHost
    <3> QED
      BY <2>1, <3>1, <3>2, <3>3, <1>g, <1>u, SMTT(30) DEF Counts
  <2>2. CASE k # i
    BY <2>2, <1>g, <1>u, <1>2, CountsSame, Zenon DEF IInv
  <2> QED
    BY <2>1, <2>2, ZenonT(30)
<1>9. ASSUME NEW k \in SP, NEW m \in Servers(k)
      PROVE  PairInv(k, m)'
  <2>1. PairInv(k, m)
    BY Zenon DEF IInv
  <2>2. CASE k = i /\ m = j
    <3>1. sp'[i].ctx[j].done /\ ~sp'[i].ctx[j].ev /\ sp'[i].host_done = sp[i].host_done
      BY <1>3, Zenon DEF SameHost
    <3> QED
      BY <2>1, <2>2, <3>1, <1>g, <1>u, <1>4, Zenon DEF PairInv
  <2>3. CASE ~(k = i /\ m = j)
    <3>1. sp'[k].host_done = sp[k].host_done
      BY <1>2, <1>3, ZenonT(30) DEF SameHost
    <3>2. /\ sp'[k].ctx[m].ep = sp[k].ctx[m].ep /\ sp'[k].ctx[m].ev = sp[k].ctx[m].ev
          /\ sp'[k].ctx[m].done = sp[k].ctx[m].done
      BY <2>3, <1>2, <1>3
    <3> QED
      BY <2>1, <3>1, <3>2, <1>u, Zenon DEF PairInv
  <2> QED
    BY <2>2, <2>3, Zenon
<1>10. ASSUME NEW k \in SP
       PROVE  SpInv(k)'
  <2>1. SpInv(k)
    BY Zenon DEF IInv
  <2>2. CASE k = i
    <3>1. sp[i].servers_active = 0 => \A m \in Clients(i) : slot[i][m] = "gone"
      <4>1. sp[i].servers_active = 0 => ~(plan[i].from > 0) \/ sp[i].inter_done
        BY <1>4, <1>c DEF Counts, One
      <4>2. \A m \in Clients(i) : slot[i][m] # "none" /\ m \in SP /\ i \in Servers(m)
        BY <1>4, <1>c, SpSets, ZenonT(30) DEF SpInv
      <4>3. \A m \in Clients(i) : plan[i].from > 0
        BY <4>2, SMTT(30) DEF IInv, PairInv
      <4> QED
        BY <4>1, <4>3, <1>c, ZenonT(30) DEF SpInv
    <3>2. /\ sp'[i].host_done = sp[i].host_done /\ sp'[i].ranks = sp[i].ranks
          /\ sp'[i].inter_done = sp[i].inter_done
      BY <1>3, Zenon DEF SameHost, SamePeers
    <3>3. sp'[i].terminated => sp'[i].host_done /\ \A m \in Clients(i) : slot'[i][m] = "gone"
      BY <2>1, <2>2, <3>1, <3>2, <1>u, <1>3, <1>4, Zenon DEF SpInv
    <3> QED
      BY <2>1, <2>2, <3>2, <3>3, <1>u, ZenonT(30) DEF SpInv
  <2>3. CASE k # i
    BY <2>1, <2>3, <1>u, <1>2, SpInvSame, ZenonT(30)
  <2> QED
    BY <2>2, <2>3, Zenon
<1> QED
  BY <1>5, <1>7, <1>8, <1>9, <1>10, Zenon DEF IInv

-----------------------------------------------------------------------------
(* The invariant *)

\* Nothing changes.
LEMMA IdleOK ==
  ASSUME IInv, UNCHANGED startup_vars
  PROVE  IInv'
<1>1. UNCHANGED <<sp, term, failed, pc, plan, link, slot, accepting, connected>>
  BY Zenon DEF startup_vars, vars
<1>2. Types'
  BY <1>1, Zenon DEF IInv, Types
<1>3. \A k \in SP : Counts(k)'
  BY <1>1, CountsSame, ZenonT(30) DEF IInv
<1>4. \A k \in SP : \A m \in Servers(k) : PairInv(k, m)'
  BY <1>1, SMTT(30) DEF IInv, PairInv
<1>5. \A k \in SP : SpInv(k)'
  BY <1>1 DEF IInv, SpInv
<1> QED
  BY <1>1, <1>2, <1>3, <1>4, <1>5, Zenon DEF IInv

\* The invariant holds when the daemons start,
LEMMA InitOK ==
  ASSUME SpCounting, StartupInit
  PROVE  IInv
<1>1. NumRanks \in Nat /\ NumRanks # 0
  BY TerminationAssumption, Zenon DEF TerminationAssumption
<1>2. \A i \in SP :
        /\ sp[i] \in SpType(i) /\ sp[i].ranks = NumRanks /\ ~sp[i].host_done /\ sp[i].peers = 0
        /\ sp[i].ongoing = 0 /\ ~sp[i].inter_done /\ sp[i].servers_active = 0
        /\ sp[i].clients_active = 0 /\ ~sp[i].terminated
        /\ \A j \in Servers(i) : ~sp[i].ctx[j].ev /\ ~sp[i].ctx[j].done
  BY <1>1 DEF StartupInit, SpType, Ctx
<1>3. /\ \A i \in SP : \A j \in Servers(i) : link[i][j] = "none" /\ term[i][j] = 0
      /\ \A i \in SP : \A j \in Clients(i) : slot[i][j] = "none"
      /\ \A i \in SP : pc[i] = "config" /\ ~accepting[i] /\ connected[i] = 0
  BY Zenon DEF StartupInit
<1>4. Types
  BY <1>2, SMTT(30) DEF StartupInit, Types
<1>5. ASSUME NEW i \in SP
      PROVE  Counts(i)
  <2>1. Present(i) = {} /\ Arriving(i) = {} /\ Accepted(i) = {} /\ Linked(i) = {} /\ Active(i) = {}
    BY <1>3, Zenon DEF Present, Arriving, Accepted, Linked, Active
  <2>2. Cardinality({}) = 0
    BY CountType, SMTT(30)
  <2> QED
    BY <2>1, <2>2, <1>2, <1>3 DEF Counts, One
<1>6. ASSUME NEW i \in SP, NEW j \in Servers(i)
      PROVE  PairInv(i, j)
  <2>1. slot[j][i] = "none"
    BY <1>3, SpSets, Zenon
  <2> QED
    BY <2>1, <1>2, <1>3 DEF PairInv
<1>7. ASSUME NEW i \in SP
      PROVE  SpInv(i)
  BY <1>1, <1>2, <1>3 DEF SpInv
<1> QED
  BY <1>4, <1>5, <1>6, <1>7, Zenon DEF IInv, StartupInit

\* every step preserves it,
LEMMA NextOK ==
  ASSUME SpCounting, WorldFirst, IInv, [Next]_startup_vars
  PROVE  IInv'
<1>1. CASE UNCHANGED startup_vars
  BY <1>1, IdleOK, Zenon
<1>2. ASSUME NEW i \in SP, Step(i)
      PROVE  IInv'
  BY <1>2, StartServerOK, ConnectOK, AllStartedOK, StartHostServerOK, SendBootstrapOK,
     ClientConnectedOK, LeaveCompletedOK, ServerConnectedOK, SpLeavesOK, RankLeavesOK, Zenon DEF Step
<1> QED
  BY <1>1, <1>2, Zenon DEF Next, Idle

\* and it implies the properties.
LEMMA IInvImplies ==
  ASSUME IInv
  PROVE  AssertionsHold /\ ActiveCounted /\ ReachesEveryone /\ TerminatedLast
<1>1. AssertionsHold
  BY Zenon DEF IInv, AssertionsHold
<1>2. ActiveCounted
  BY Zenon DEF IInv, Counts, Active, ActiveCounted
<1>3. ReachesEveryone
  BY DEF IInv, SpInv, PairInv, ReachesEveryone
<1>4. TerminatedLast
  <2> SUFFICES ASSUME NEW i \in SP, sp[i].terminated
               PROVE  /\ \A j \in SP : j <= i => sp[j].host_done
                      /\ \A j \in Clients(i) : term[j][i] = 0
    BY Zenon DEF TerminatedLast
  <2>1. sp[i].host_done /\ \A j \in Clients(i) : slot[i][j] = "gone"
    BY ZenonT(30) DEF IInv, SpInv
  <2>2. ASSUME NEW j \in Clients(i)
        PROVE  sp[j].host_done /\ term[j][i] = 0
    <3>1. j \in SP /\ i \in Servers(j)
      BY SpSets, Zenon
    <3> QED
      BY <2>1, <3>1 DEF IInv, PairInv
  <2>3. \A j \in SP : j <= i => j = i \/ j \in Clients(i)
    BY TerminationAssumption DEF TerminationAssumption, SP, Clients
  <2> QED
    BY <2>1, <2>2, <2>3, Zenon
<1> QED
  BY <1>1, <1>2, <1>3, <1>4, Zenon

-----------------------------------------------------------------------------
(* Sets of SPs *)

\* Sets of SPs are finite.
LEMMA FiniteSpSets ==
  /\ IsFiniteSet(SP)
  /\ \A S \in SUBSET SP : IsFiniteSet(S) /\ Cardinality(S) \in Nat
<1>1. IsFiniteSet(SP)
  BY TerminationAssumption, FS_Interval DEF TerminationAssumption, SP
<1> QED
  BY <1>1, FS_Subset, FS_CardinalityType, Zenon

\* One more and one less.
LEMMA OneMoreOneLess ==
  ASSUME NEW S \in SUBSET SP, NEW j
  PROVE  /\ j \notin S => Cardinality(S \cup {j}) = Cardinality(S) + 1
         /\ j \in S => Cardinality(S \ {j}) = Cardinality(S) - 1 /\ Cardinality(S) > 0
<1>1. j \notin S => Cardinality(S \cup {j}) = Cardinality(S) + 1
  BY FiniteSpSets, FS_AddElement, Zenon
<1>2. j \in S => Cardinality(S \ {j}) = Cardinality(S) - 1
  BY FiniteSpSets, FS_RemoveElement, Zenon
<1>3. Cardinality(S \ {j}) \in Nat /\ Cardinality(S) \in Nat
  BY FiniteSpSets, Zenon
<1> QED
  BY <1>1, <1>2, <1>3

\* An SP that counts NumSps - 1 connections has one with each other SP.
LEMMA EveryOtherSp ==
  ASSUME NEW i \in SP, NEW A \in SUBSET Servers(i), NEW B \in SUBSET Clients(i),
         Cardinality(A) + Cardinality(B) + 1 = NumSps
  PROVE  A = Servers(i) /\ B = Clients(i)
<1>1. IsFiniteSet(Servers(i)) /\ IsFiniteSet(Clients(i))
      /\ Cardinality(Servers(i)) \in Nat /\ Cardinality(Clients(i)) \in Nat
      /\ IsFiniteSet(A) /\ IsFiniteSet(B)
      /\ Cardinality(A) \in Nat /\ Cardinality(B) \in Nat
  <2>1. A \in SUBSET SP /\ B \in SUBSET SP
    BY FiniteSpSets, SpSets, Zenon
  <2> QED
    BY <2>1, FiniteSpSets, SpSets, Zenon
<1>2. Cardinality(SP \ {i}) = NumSps - 1
  <2>1. NumSps \in Nat /\ NumSps > 0
    BY TerminationAssumption DEF TerminationAssumption
  <2>2. Cardinality(SP) = NumSps
    BY <2>1, FS_Interval DEF SP
  <2> QED
    BY <2>2, FiniteSpSets, SpSets, FS_RemoveElement, Zenon
<1>3. Servers(i) \cup Clients(i) = SP \ {i} /\ Servers(i) \cap Clients(i) = {}
  BY TerminationAssumption DEF TerminationAssumption, SP, Servers, Clients
<1>4. Cardinality(Servers(i)) + Cardinality(Clients(i)) = NumSps - 1
  BY <1>1, <1>2, <1>3, FS_Union, FS_EmptySet
<1>5. /\ Cardinality(A) <= Cardinality(Servers(i))
      /\ Cardinality(A) = Cardinality(Servers(i)) => A = Servers(i)
      /\ Cardinality(B) <= Cardinality(Clients(i))
      /\ Cardinality(B) = Cardinality(Clients(i)) => B = Clients(i)
  BY <1>1, FS_Subset, Zenon
<1> QED
  BY <1>1, <1>4, <1>5, TerminationAssumption DEF TerminationAssumption

\* The facts about sets of SPs that the lemmas above assume.
LEMMA SpCountingHolds == SpCounting
<1>1. \A S \in SUBSET SP : Cardinality(S) \in Nat /\ (Cardinality(S) = 0 <=> S = {})
  BY FiniteSpSets, FS_EmptySet, Zenon
<1> QED
  BY <1>1, OneMoreOneLess, EveryOtherSp, Zenon DEF SpCounting

-----------------------------------------------------------------------------
(* Theorems *)

\* The invariant holds in every reachable state.
LEMMA Inductive == ASSUME WorldFirst PROVE Spec => []IInv
<1>1. StartupInit => IInv
  BY InitOK, SpCountingHolds, Zenon
<1>2. IInv /\ [Next]_startup_vars => IInv'
  BY NextOK, SpCountingHolds, Zenon
<1> QED
  BY <1>1, <1>2, PTL DEF Spec

\* However many SPs and ranks there are, and in whatever order the daemons
\* start, connect and are left by their ranks, the assertions of term_msg_cb and
\* of term_notification_completed hold.
THEOREM NoAssertionFails == ASSUME WorldFirst PROVE Spec => []AssertionsHold
<1>1. IInv => AssertionsHold
  BY IInvImplies, Zenon
<1> QED
  BY <1>1, Inductive, PTL

\* The counters of active servers and clients of every engine are right.
THEOREM EnginesCountRight == ASSUME WorldFirst PROVE Spec => []ActiveCounted
<1>1. IInv => ActiveCounted
  BY IInvImplies, Zenon
<1> QED
  BY <1>1, Inductive, PTL

\* An SP that counted up to the number of SPs, and so accepts ranks, has an
\* endpoint for every other SP.
THEOREM CountedIsConnected == ASSUME WorldFirst PROVE Spec => []ReachesEveryone
<1>1. IInv => ReachesEveryone
  BY IInvImplies, Zenon
<1> QED
  BY <1>1, Inductive, PTL

\* An SP considers itself terminated only after its ranks and those of all SPs
\* with a lower ID left and their messages were received.
THEOREM TerminatesAfterItsClients == ASSUME WorldFirst PROVE Spec => []TerminatedLast
<1>1. IInv => TerminatedLast
  BY IInvImplies, Zenon
<1> QED
  BY <1>1, Inductive, PTL

==============================================================================
