------------------------------ MODULE Bootstrap ------------------------------
(***************************************************************************)
(* Connection and departure of the clients of one server: the ranks of a   *)
(* host that connect to their service process (SP).                        *)
(*                                                                         *)
(* The server has two threads.  connect_thread accepts a connection on the *)
(* out-of-band socket and assigns the client's ID, which is both its slot  *)
(* in the list of clients and part of the tag of its messages.  The main   *)
(* thread, in progress_server_econtext, receives the client's three        *)
(* bootstrap messages (address length, address, rank), sends the data of   *)
(* the SP (step 4) and finalizes the connection; and, in term_msg_cb,      *)
(* handles the client's departure.  Both threads change the counters, and  *)
(* nothing keeps them apart: ECONTEXT_LOCK is empty in the default build,  *)
(* and finalize_client_connection takes no lock in any.                    *)
(***************************************************************************)
EXTENDS Integers, Sequences, FiniteSets

CONSTANTS
  Client,      \* the processes that connect
  SizeMax      \* SIZE_MAX: size_t wraps around (bound: its width)

ASSUME BootstrapAssumption ==
  IsFiniteSet(Client) /\ SizeMax \in Nat

VARIABLES
  counters,   \* num_ongoing_connections, num_connected_clients, num_total_...
  slot,       \* connected_clients.clients
  thread,     \* where connect_thread is
  final,      \* where the main thread is in finalize_client_connection
  client,     \* the clients
  mail,       \* bootstrap messages of the clients on their way, by ID
  info,       \* messages of step 4 on their way, by ID
  cached,     \* the clients that were sent the cache of the world group
  term,       \* the clients whose termination message is on its way
  done,       \* server->done
  failed,     \* the assertions that did not hold
  overlapped  \* history: an acceptance and a finalization overlapped in time

vars == <<counters, slot, thread, final, client, mail, info, cached, term, done,
          failed, overlapped>>

\* IDs that can occur: both counters are at most the number of the clients
\* accepted before.  An ID may be skipped.
Slot == 0..(2 * Cardinality(Client) - 2)

Inc(n) == (n + 1) % (SizeMax + 1)
Dec(n) == (n + SizeMax) % (SizeMax + 1)

\* A client sends three messages; the server waits for them one at a time.
Steps == 3

-----------------------------------------------------------------------------
(* connect_thread *)

\* oob_server_accept returns with the connection of c.
OobAccepts(c) == client[c].phase = "init"

\* oob_server_listen, up to the ID of the client: generate_unique_client_id
\* reads two counters, in either order.  Here the first one; pc names the other.
Accept ==
  /\ thread.pc = "accept" /\ \E c \in Client : OobAccepts(c)
  /\ \/ thread' = [thread EXCEPT !.pc = "total", !.loaded = counters.ongoing]
     \/ thread' = [thread EXCEPT !.pc = "ongoing", !.loaded = counters.total]
  /\ overlapped' = (overlapped \/ final.pc # "idle")
  /\ UNCHANGED <<counters, slot, final, client, mail, info, cached, term, done, failed>>

\* generate_unique_client_id: the sum of the two counters.  (Wrong: ongoing
\* connections do not count.)
TotalOnly == IF thread.pc = "total" THEN counters.total ELSE thread.loaded
NextId == (thread.loaded + counters[thread.pc]) % (SizeMax + 1)

\* oob_connect: the client learns its ID.
OobConnect(s) == [s EXCEPT !.phase = "oob", !.id = NextId]

\* The ID is sent to the client that was accepted.
GenerateId(c) ==
  /\ thread.pc \in {"total", "ongoing"} /\ OobAccepts(c)
  /\ client' = [client EXCEPT ![c] = OobConnect(@)]
  /\ thread' = [pc |-> "load", loaded |-> 0, id |-> NextId]
  /\ UNCHANGED <<counters, slot, final, mail, info, cached, term, done, failed, overlapped>>

\* The slot of the client is initialized.  num_ongoing_connections++: a load
\* and a store.
LoadOngoing ==
  /\ thread.pc = "load"
  /\ slot' = [slot EXCEPT ![thread.id].phase = "oob"]
  /\ thread' = [thread EXCEPT !.pc = "store", !.loaded = counters.ongoing]
  /\ UNCHANGED <<counters, final, client, mail, info, cached, term, done, failed, overlapped>>

\* The thread returns to accept until the server is done.
StoreOngoing ==
  /\ thread.pc = "store"
  /\ counters' = [counters EXCEPT !.ongoing = Inc(thread.loaded)]
  /\ thread' = [pc |-> IF done THEN "exit" ELSE "accept", loaded |-> 0, id |-> 0]
  /\ UNCHANGED <<slot, final, client, mail, info, cached, term, done, failed, overlapped>>

-----------------------------------------------------------------------------
(* Main thread of the server *)

\* progress_server_econtext looks for as many clients in the process of
\* connecting as are counted, in the order of their slots.  (Wrong: it does not
\* stop at that number.)
Connecting(i) == slot[i].phase \in {"oob", "ucx"}
AnyConnecting(i) == Connecting(i) /\ final.pc = "idle"
Reached(i) ==
  /\ Connecting(i)
  /\ Cardinality({j \in Slot : j < i /\ Connecting(j)}) < counters.ongoing
  /\ final.pc = "idle"

\* oob_server_ucx_client_connection_step1, 2 and 3: the receive of the next
\* message is posted.
PostRecv(i) ==
  /\ Reached(i)
  /\ ~slot[i].posted /\ Len(slot[i].got) < Steps
  /\ slot' = [slot EXCEPT ![i].posted = TRUE]
  /\ UNCHANGED <<counters, thread, final, client, mail, info, cached, term, done, failed, overlapped>>

\* oob_recv_generic_handler (or the receive completed right away).
UcxRecv(i) ==
  /\ slot[i].posted /\ mail[i] # <<>> /\ final.pc = "idle"
  /\ slot' = [slot EXCEPT ![i].posted = FALSE, ![i].got = Append(@, Head(mail[i]))]
  /\ mail' = [mail EXCEPT ![i] = Tail(@)]
  /\ UNCHANGED <<counters, thread, final, client, info, cached, term, done, failed, overlapped>>

\* The rank was received: oob_server_ucx_client_connection_step4, once.
SendInfo(i) ==
  /\ Reached(i)
  /\ Len(slot[i].got) = Steps /\ ~slot[i].step4
  /\ slot' = [slot EXCEPT ![i].phase = "ucx", ![i].step4 = TRUE]
  /\ info' = [info EXCEPT ![i] = @ + 1]
  /\ UNCHANGED <<counters, thread, final, client, mail, cached, term, done, failed, overlapped>>

\* finalize_client_connection.  Step 4 counts as complete on the next pass at
\* the latest.  num_ongoing_connections--: a load and a store; then the other
\* counters.
Finalize(i) ==
  /\ Reached(i)
  /\ Len(slot[i].got) = Steps /\ slot[i].step4
  /\ slot' = [slot EXCEPT ![i].phase = "done"]
  /\ final' = [pc |-> "store", loaded |-> counters.ongoing]
  /\ overlapped' = (overlapped \/ thread.pc # "accept")
  /\ UNCHANGED <<counters, thread, client, mail, info, cached, term, done, failed>>

FinalizeOngoing ==
  /\ final.pc = "store"
  /\ counters' = [counters EXCEPT !.ongoing = Dec(final.loaded)]
  /\ final' = [pc |-> "count", loaded |-> 0]
  /\ UNCHANGED <<slot, thread, client, mail, info, cached, term, done, failed, overlapped>>

\* local_rank_connect_default_callback: the server has the entries of all the
\* ranks, which are all on this host.
CacheComplete(cnt) == cnt.total = Cardinality(Client)

\* send_gp_cache_to_host: to the addresses in the first n slots.
Receivers(n) ==
  {c \in Client : \E i \in Slot : i < n /\ Len(slot[i].got) >= 2 /\ slot[i].got[2] = <<c, 2>>}

FinalizeCounters ==
  /\ final.pc = "count"
  /\ LET cnt == [counters EXCEPT !.connected = Inc(@), !.total = Inc(@)]
     IN  /\ counters' = cnt
         /\ cached' = cached \cup (IF CacheComplete(cnt) THEN Receivers(cnt.connected) ELSE {})
  /\ final' = [pc |-> "idle", loaded |-> 0]
  /\ UNCHANGED <<slot, thread, client, mail, info, term, done, failed, overlapped>>

\* When the last client left and none is connecting, the server is done.
\* (Wrong: one may be left; the total has to be zero.)
OneLeft(cnt) == cnt.connected <= 1 /\ cnt.ongoing = 0
NoneEver(cnt) == cnt.connected = 0 /\ cnt.ongoing = 0 /\ cnt.total = 0
LastLeft(cnt) == cnt.connected = 0 /\ cnt.ongoing = 0

\* term_msg_cb, server side.
TermMsg(c) ==
  /\ c \in term /\ final.pc = "idle"
  /\ term' = term \ {c}
  /\ slot' = [slot EXCEPT ![client[c].id].phase = "gone"]
  /\ LET cnt == [counters EXCEPT !.connected = Dec(@)]
     IN  /\ counters' = cnt
         /\ done' = (done \/ LastLeft(cnt))
         /\ failed' = failed
              \cup (IF counters.connected = 0 THEN {"connected"} ELSE {})
              \cup (IF done /\ LastLeft(cnt) THEN {"done_again"} ELSE {})
  /\ UNCHANGED <<thread, final, client, mail, info, cached, overlapped>>

-----------------------------------------------------------------------------
(* Clients *)

\* client_ucx_bootstrap_step1, 2 and 3.
ClientSend(c) ==
  /\ client[c].phase = "oob" /\ client[c].sent < Steps
  /\ client' = [client EXCEPT ![c].sent = @ + 1]
  /\ mail' = [mail EXCEPT ![client[c].id] = Append(@, <<c, client[c].sent + 1>>)]
  /\ UNCHANGED <<counters, slot, thread, final, info, cached, term, done, failed, overlapped>>

\* progress_client_econtext: the three steps completed.
UcxConnectDone(c) == client[c].phase = "oob" /\ client[c].sent = Steps

\* client_ucx_boostrap_step4: the data of the SP arrived.
GotInfo(c) == info[client[c].id] > 0

\* progress_client_econtext: the client is done bootstrapping.
ClientReady(c) ==
  /\ UcxConnectDone(c)
  /\ GotInfo(c)
  /\ info' = [info EXCEPT ![client[c].id] = @ - 1]
  /\ client' = [client EXCEPT ![c].phase = "ready"]
  /\ UNCHANGED <<counters, slot, thread, final, mail, cached, term, done, failed, overlapped>>

\* client_fini.  The application terminates its client once it has the cache of
\* the world group.
ClientFini(c) ==
  /\ client[c].phase = "ready" /\ c \in cached
  /\ client' = [client EXCEPT ![c].phase = "left"]
  /\ term' = term \cup {c}
  /\ UNCHANGED <<counters, slot, thread, final, mail, info, cached, done, failed, overlapped>>

-----------------------------------------------------------------------------
(* Specification *)

Init ==
  /\ counters = [ongoing |-> 0, connected |-> 0, total |-> 0]
  /\ slot = [i \in Slot |-> [phase |-> "none", posted |-> FALSE, got |-> <<>>, step4 |-> FALSE]]
  /\ thread = [pc |-> "accept", loaded |-> 0, id |-> 0]
  /\ final = [pc |-> "idle", loaded |-> 0]
  /\ client = [c \in Client |-> [phase |-> "init", id |-> 0, sent |-> 0]]
  /\ mail = [i \in Slot |-> <<>>]
  /\ info = [i \in Slot |-> 0]
  /\ cached = {} /\ term = {}
  /\ done = FALSE
  /\ failed = {}
  /\ overlapped = FALSE

\* oob_server_listen, again and again.
Thread == Accept \/ (\E c \in Client : GenerateId(c)) \/ LoadOngoing \/ StoreOngoing

Main(i) == PostRecv(i) \/ UcxRecv(i) \/ SendInfo(i) \/ Finalize(i)
Finalizing == FinalizeOngoing \/ FinalizeCounters

ClientStep(c) == ClientSend(c) \/ ClientReady(c) \/ ClientFini(c)

\* A pass of the main thread that finds nothing to do.
Idle == UNCHANGED vars

Next ==
  \/ Thread
  \/ \E i \in Slot : Main(i)
  \/ Finalizing
  \/ \E c \in Client : ClientStep(c) \/ TermMsg(c)
  \/ Idle

Spec == Init /\ [][Next]_vars

\* Both threads keep running; the clients connect, keep progressing and leave.
Fairness ==
  /\ WF_vars(Thread)
  /\ \A i \in Slot : WF_vars(Main(i))
  /\ WF_vars(Finalizing)
  /\ WF_vars(\E c \in Client : TermMsg(c))
  /\ \A c \in Client : WF_vars(ClientStep(c))
FairSpec == Spec /\ Fairness

-----------------------------------------------------------------------------
(* Properties *)

\* generate_unique_client_id: no two clients get the same ID.
IdsUnique ==
  \A c, d \in Client :
    c # d /\ client[c].phase # "init" /\ client[d].phase # "init" => client[c].id # client[d].id

\* The IDs are unique as long as no acceptance overlapped a finalization: the
\* other steps of the main thread and of the clients do no harm.
IdsUniqueApart == ~overlapped => IdsUnique

\* A connection is finalized with the address and the rank of the client that
\* got the ID, and of no other.
OwnData ==
  \A c \in Client :
    client[c].phase # "init" /\ slot[client[c].id].phase \in {"ucx", "done"}
      => slot[client[c].id].got = [s \in 1..Steps |-> <<c, s>>]

\* The slots have the data of their own clients as long as no acceptance
\* overlapped a finalization.
OwnDataApart == ~overlapped => OwnData

\* However the updates of num_ongoing_connections by the two threads race, and
\* even when some are lost, it never exceeds the number of clients that were
\* told their ID; in particular the decrement never wraps it around.
OngoingBounded ==
  counters.ongoing <= Cardinality({c \in Client : client[c].phase # "init"})

\* The assertions of term_msg_cb on the counters hold, whatever overlapped.
AssertionsHold == failed = {}

\* Unless an acceptance and a finalization overlap, the server gets done: however
\* else the receives, the steps of the clients and the accepting thread
\* interleave, the main thread reaches the slot of every client, every client
\* connects and leaves, and the departure of the last one is noticed.
ServerDone == <>(done \/ overlapped)
=============================================================================
