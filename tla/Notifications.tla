---------------------------- MODULE Notifications ----------------------------
(***************************************************************************)
(* The receiving side of the notification system: what happens to the      *)
(* notifications a process emits to itself (execution context "self") and  *)
(* to those a connected peer emits to it (execution context "peer").       *)
(*                                                                         *)
(* A notification whose type has no handler yet is kept and handed to the  *)
(* handler when it is registered.  The peer's messages come over one UCX   *)
(* connection; a large one is announced first and received later           *)
(* (rendezvous), by when later ones may have been delivered.  After the    *)
(* execution context terminated, late messages still come in.              *)
(***************************************************************************)
EXTENDS Integers, Sequences, FiniteSets, SequencesExt

CONSTANTS
  Type,        \* the types of notifications
  Internal,    \* the ones the library emits: it registers their handlers
  MaxMsgs,     \* bound: notifications emitted
  MaxChanges   \* bound: handlers registered or deregistered

ASSUME TypeAssumption ==
  Internal \subseteq Type /\ MaxMsgs \in Nat /\ MaxChanges \in Nat

VARIABLES
  econtext,   \* the execution context for the peer: "none", "open" or "closed"
  defaults,   \* the engine's default handlers
  ev_sys,     \* the event system of each execution context
  wire,       \* messages of the peer, in order
  rdv,        \* rendezvous messages being received
  dropped,    \* messages that were dropped
  emitted,    \* the number of notifications emitted so far
  changes,    \* the number of changes of handlers so far
  failed      \* the assertions that did not hold

vars == <<econtext, defaults, ev_sys, wire, rdv, dropped, emitted, changes, failed>>

Context == {"self", "peer"}

\* The number of a message tells when it was emitted.
Msg == [id : 1..MaxMsgs, type : Type, rdv : BOOLEAN]

-----------------------------------------------------------------------------
(* Operations, as functions from one state of an event system to another.  *)

\* handle_notif_msg.  (Wrong: what has no handler goes to the front.)
ToTheFront(s, m) ==
  IF m.type \in s.handlers THEN [s EXCEPT !.delivered = Append(@, m)]
                           ELSE [s EXCEPT !.pending = <<m>> \o @]
HandleNotifMsg(s, m) ==
  IF m.type \in s.handlers THEN [s EXCEPT !.delivered = Append(@, m)]
                           ELSE [s EXCEPT !.pending = Append(@, m)]

\* event_channel_register.  The handler may be registered already.
EventChannelRegister(s, t) ==
  IF t \in s.handlers THEN s
  ELSE [s EXCEPT !.handlers = @ \cup {t},
                 !.pending = SelectSeq(@, LAMBDA m : m.type # t),
                 !.delivered = @ \o SelectSeq(s.pending, LAMBDA m : m.type = t)]

-----------------------------------------------------------------------------
(* Specification *)

Init ==
  /\ econtext = "none"
  /\ defaults = {}
  /\ ev_sys = [c \in Context |-> [handlers |-> {}, pending |-> <<>>, delivered |-> <<>>]]
  /\ wire = <<>> /\ rdv = {} /\ dropped = {}
  /\ emitted = 0 /\ changes = 0
  /\ failed = {}

\* engine_register_default_notification_handler: refused if there is one; the
\* self context gets the handler too, existing contexts for peers do not.
RegisterDefault(t) ==
  /\ changes < MaxChanges
  /\ t \notin defaults
  /\ ev_sys' = [ev_sys EXCEPT !["self"] = EventChannelRegister(@, t)]
  /\ defaults' = defaults \cup {t}
  /\ changes' = changes + 1
  /\ UNCHANGED <<econtext, wire, rdv, dropped, emitted, failed>>

\* The event system that event_channel_register checks for: the one of the peer
\* exists while its execution context does.
IsThere(c) == c = "peer" => econtext = "open"

\* The application registers and deregisters handlers of an execution context.
Register(c, t) ==
  /\ changes < MaxChanges /\ IsThere(c)
  /\ ev_sys' = [ev_sys EXCEPT ![c] = EventChannelRegister(@, t)]
  /\ changes' = changes + 1
  /\ UNCHANGED <<econtext, defaults, wire, rdv, dropped, emitted, failed>>

Deregister(c, t) ==
  /\ changes < MaxChanges /\ IsThere(c)
  /\ t \in ev_sys[c].handlers
  /\ ev_sys' = [ev_sys EXCEPT ![c].handlers = @ \ {t}]
  /\ changes' = changes + 1
  /\ UNCHANGED <<econtext, defaults, wire, rdv, dropped, emitted, failed>>

\* register_default_notifications, then ADD_DEFAULT_ENGINE_CALLBACKS.
LibraryHandlers == Internal
EngineHandlers == defaults

\* client_init, server_init.
Open ==
  /\ econtext = "none"
  /\ econtext' = "open"
  /\ ev_sys' = [ev_sys EXCEPT !["peer"].handlers = LibraryHandlers \cup EngineHandlers]
  /\ UNCHANGED <<defaults, wire, rdv, dropped, emitted, changes, failed>>

\* event_channel_emit to oneself: delivered at once, by handle_notif_msg.
EmitToSelf(t) ==
  /\ emitted < MaxMsgs
  /\ ev_sys' = [ev_sys EXCEPT !["self"] =
                  HandleNotifMsg(@, [id |-> emitted + 1, type |-> t, rdv |-> FALSE])]
  /\ emitted' = emitted + 1
  /\ UNCHANGED <<econtext, defaults, wire, rdv, dropped, changes, failed>>

\* Once this process terminated its execution context, its peer emits nothing
\* any more but messages of the library, which it emits on its own account.
PeerEmits(t, r) ==
  /\ emitted < MaxMsgs
  /\ econtext = "open" \/ (econtext = "closed" /\ t \in Internal)
  /\ wire' = Append(wire, [id |-> emitted + 1, type |-> t, rdv |-> r])
  /\ emitted' = emitted + 1
  /\ UNCHANGED <<econtext, defaults, ev_sys, rdv, dropped, changes, failed>>

\* am_notification_msg_cb, of an eager message.  Without execution context the
\* message is dropped, which is expected of the library's own ones only.
ReceiveEager ==
  /\ wire # <<>> /\ ~Head(wire).rdv
  /\ wire' = Tail(wire)
  /\ IF econtext = "open"
     THEN /\ ev_sys' = [ev_sys EXCEPT !["peer"] = HandleNotifMsg(@, Head(wire))]
          /\ UNCHANGED <<dropped, failed>>
     ELSE /\ dropped' = dropped \cup {Head(wire)}
          /\ failed' = IF Head(wire).type \in Internal THEN failed
                                                       ELSE failed \cup {"eager"}
          /\ UNCHANGED ev_sys
  /\ UNCHANGED <<econtext, defaults, rdv, emitted, changes>>

\* am_notification_recv_rdv_msg: the receive is posted, and may complete right
\* away.  The execution context is not checked: without one, the code follows a
\* null pointer (recorded in failed; the model goes on without the message).
PostRdv ==
  /\ wire # <<>> /\ Head(wire).rdv
  /\ wire' = Tail(wire)
  /\ \/ /\ econtext = "open"
        /\ rdv' = rdv \cup {Head(wire)}
        /\ UNCHANGED <<ev_sys, dropped, failed>>
     \/ /\ econtext = "open"
        /\ ev_sys' = [ev_sys EXCEPT !["peer"] = HandleNotifMsg(@, Head(wire))]
        /\ UNCHANGED <<rdv, dropped, failed>>
     \/ /\ econtext = "closed"
        /\ dropped' = dropped \cup {Head(wire)}
        /\ failed' = failed \cup {"rdv"}
        /\ UNCHANGED <<ev_sys, rdv>>
  /\ UNCHANGED <<econtext, defaults, emitted, changes>>

\* am_rdv_recv_cb: the receive completed.  The execution context is looked up
\* again.
\* (Wrong: the receive stays pending and completes again; no handler is invoked.)
NotDispatched(m) ==
  /\ m \in rdv
  /\ rdv' = rdv \ {m}
  /\ UNCHANGED <<econtext, defaults, ev_sys, wire, dropped, emitted, changes, failed>>
NotReleased(m) ==
  /\ m \in rdv /\ econtext = "open"
  /\ ev_sys' = [ev_sys EXCEPT !["peer"] = HandleNotifMsg(@, m)]
  /\ UNCHANGED <<econtext, defaults, wire, rdv, dropped, emitted, changes, failed>>
ReceiveRdv(m) ==
  /\ m \in rdv
  /\ rdv' = rdv \ {m}
  /\ \/ /\ econtext = "open"
        /\ ev_sys' = [ev_sys EXCEPT !["peer"] = HandleNotifMsg(@, m)]
        /\ UNCHANGED <<dropped, failed>>
     \/ /\ econtext = "closed"
        /\ dropped' = dropped \cup {m}
        /\ failed' = failed \cup {"rdv"}
        /\ UNCHANGED ev_sys
  /\ UNCHANGED <<econtext, defaults, wire, emitted, changes>>

\* event_channels_fini: the event system goes with what it kept.
EventChannelsFini(s) == [s EXCEPT !.handlers = {}, !.pending = <<>>]

\* client_fini, execution_context_fini.  The application received what its
\* peer's application emitted.
Arriving == rdv \cup ToSet(wire)
Close ==
  /\ econtext = "open"
  /\ \A m \in Arriving : m.type \in Internal
  /\ econtext' = "closed"
  /\ dropped' = dropped \cup ToSet(ev_sys["peer"].pending)
  /\ ev_sys' = [ev_sys EXCEPT !["peer"] = EventChannelsFini(@)]
  /\ UNCHANGED <<defaults, wire, rdv, emitted, changes, failed>>

\* Nothing is left to do.
Idle ==
  /\ econtext = "closed" /\ Arriving = {} /\ emitted = MaxMsgs
  /\ UNCHANGED vars

Receive == ReceiveEager \/ PostRdv
Next ==
  \/ \E t \in Type \ Internal : RegisterDefault(t)
  \/ \E c \in Context, t \in Type \ Internal : Register(c, t) \/ Deregister(c, t)
  \/ \E t \in Type : EmitToSelf(t) \/ \E r \in BOOLEAN : PeerEmits(t, r)
  \/ Open \/ Close
  \/ Receive
  \/ \E m \in rdv : ReceiveRdv(m)
  \/ Idle

Spec == Init /\ [][Next]_vars

\* The engine keeps progressing UCX, which completes the receives.
Fairness == WF_vars(Receive) /\ WF_vars(\E m \in rdv : ReceiveRdv(m))
FairSpec == Spec /\ Fairness

-----------------------------------------------------------------------------
(* Properties *)

\* Every notification that was emitted is in one place, once: it is neither
\* lost nor delivered twice, however registration, rendezvous receives and
\* termination interleave; it is dropped only when the context is closed.
Ids(q, i) == {j \in DOMAIN q : q[j].id = i}
Places(i) ==
  Cardinality(Ids(wire, i)) + Cardinality({m \in rdv \cup dropped : m.id = i})
    + Cardinality(Ids(ev_sys["self"].pending, i)) + Cardinality(Ids(ev_sys["self"].delivered, i))
    + Cardinality(Ids(ev_sys["peer"].pending, i)) + Cardinality(Ids(ev_sys["peer"].delivered, i))
InOnePlace ==
  /\ \A i \in 1..MaxMsgs : Places(i) = IF i <= emitted THEN 1 ELSE 0
  /\ dropped # {} => econtext = "closed"

\* Eager notifications of one type are delivered in the order they were
\* emitted, whether they had to wait for the handler or not.
DeliveredInOrder ==
  \A c \in Context :
    LET d == ev_sys[c].delivered
    IN  \A i, j \in DOMAIN d :
          i < j /\ d[i].type = d[j].type /\ ~d[i].rdv /\ ~d[j].rdv => d[i].id < d[j].id

\* Every message of the peer is delivered, unless its type is without handler
\* again and again or the execution context terminates.
Delivered(i) == \E c \in Context : Ids(ev_sys[c].delivered, i) # {}
MessagesDelivered ==
  \A i \in 1..MaxMsgs, t \in Type :
    (econtext = "open" /\ \E m \in Arriving : m.id = i /\ m.type = t)
      ~> (Delivered(i) \/ t \notin ev_sys["peer"].handlers \/ econtext = "closed")

\* am_notification_msg_cb: "We always try to receive the RDV message, even if
\* the associated econtext is not there any more".
RdvAlwaysReceived == "rdv" \notin failed
=============================================================================
