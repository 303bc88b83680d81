----------------------------- MODULE EventSystem -----------------------------
(***************************************************************************)
(* The sending side of the notification system of one execution context:   *)
(* events are taken from a pool, emitted, progressed and returned.         *)
(*                                                                         *)
(* A plain event is one send.  It is implicitly returned when it completes *)
(* (it is on the ongoing list meanwhile) or, on request, explicitly by the *)
(* application.  A meta-event is a local event that completes with all its *)
(* sub-events, each of which is one send; sub-events are on the list of    *)
(* their meta-event and never on the ongoing list.  A completion callback  *)
(* may itself post a meta-event, as the ones of the group cache do.        *)
(*                                                                         *)
(* UCX answers a send with "done" (completed right away), "inprogress"     *)
(* (notification_emit_cb is invoked later) or "error".  The library is     *)
(* single threaded: an operation is one step.  `failed` collects the       *)
(* assertions that would not have held.                                    *)
(***************************************************************************)
EXTENDS Integers, Sequences, FiniteSets, FiniteSetsExt, SequencesExt

CONSTANTS
  Pool,         \* the event objects; bound: the free list does not grow
  MaxEmits,     \* bound: how often the application emits
  MaxSubs,      \* bound: sub-events of a meta-event
  MaxErrors,    \* bound: sends that fail
  MaxPosted     \* MAX_POSTED_SENDS

ASSUME PoolAssumption ==
  /\ Pool \subseteq Nat /\ IsFiniteSet(Pool)
  /\ MaxEmits \in Nat /\ MaxSubs \in Nat \ {0} /\ MaxErrors \in Nat /\ MaxPosted \in Nat

VARIABLES
  sys,      \* the event system and the ongoing list of its execution context
  emits,    \* how often the application emitted
  errors    \* how many sends failed

vars == <<sys, emits, errors>>

\* What UCX answers to a send; what a completion callback does.
Answer == {"done", "inprogress", "error"}
Callback == {"none", "report", "post"}

\* RESET_EVENT.  calls counts, for the properties, the invocations of the
\* completion callback since the event was taken.
ResetEvent ==
  [used |-> FALSE, meta |-> FALSE, complete |-> FALSE, was_posted |-> FALSE,
   req |-> "none", is_subevent |-> FALSE, is_ongoing |-> FALSE, explicit |-> FALSE,
   cb |-> "none", subs |-> <<>>, calls |-> 0]

Free(s) == {e \in Pool : ~s.ev[e].used}

\* Assertions that do not hold are collected by name.
Check(s, cond, name) == IF cond THEN s ELSE [s EXCEPT !.failed = @ \cup {name}]

-----------------------------------------------------------------------------
(* Operations, as functions from one state of the event system to another. *)
(* answers is what UCX is going to answer to the sends of the step.        *)

\* event_get, of the event e = NextEvent(s).
NextEvent(s) == Min(Free(s))
EventGet(s, e, explicit, cb) ==
  [s EXCEPT !.ev[e] = [ResetEvent EXCEPT !.used = TRUE, !.explicit = explicit, !.cb = cb],
            !.num_used_evs = @ + 1]

\* An event in the pool: event_get resets it, and nobody looks at it before.
Returned(ev) == [ResetEvent EXCEPT !.req = ev.req, !.cb = ev.cb, !.calls = ev.calls]

\* do_event_return: refused while UCX has a request for the event.
DoEventReturn(s, e) ==
  IF s.ev[e].req # "none" THEN s
  ELSE [Check(s, s.ev[e].subs = <<>>, "return_with_subs") EXCEPT
          !.ev[e] = Returned(@), !.num_used_evs = @ - 1]

\* event_return: refused while the event is on the ongoing list.
EventReturn(s, e) == IF s.ev[e].is_ongoing THEN s ELSE DoEventReturn(s, e)

\* QUEUE_EVENT.
QueueEvent(s, e) ==
  IF s.ev[e].explicit \/ s.ev[e].is_subevent THEN s
  ELSE [Check(s, ~s.ev[e].is_ongoing, "queue_twice") EXCEPT
          !.ongoing = Append(@, e), !.ev[e].is_ongoing = TRUE]

\* do_am_send_event_msg, and what UCX answered to it.
NextAnswer(s) == IF s.answers = <<>> THEN "none" ELSE Head(s.answers)
DoAmSend(s, e) ==
  LET t == [s EXCEPT !.answers = IF @ = <<>> THEN @ ELSE Tail(@)]
  IN  CASE NextAnswer(s) = "error"      -> [t EXCEPT !.ev[e].req = "error"]
        [] NextAnswer(s) = "done"       -> [t EXCEPT !.ev[e].complete = TRUE]
        [] NextAnswer(s) = "inprogress" -> [t EXCEPT !.ev[e].req = "pending",
                                                     !.ev[e].was_posted = TRUE,
                                                     !.posted_sends = @ + 1]
        [] NextAnswer(s) = "none"       -> [t EXCEPT !.unanswered = TRUE]

\* A sub-event is taken, sent (event_channel_emit on a sub-event: nothing is
\* progressed, nothing queued) and, unless it completed right away and was
\* returned, put on the list of its meta-event (QUEUE_SUBEVENT).  Nothing more
\* happens once a send failed: the caller returned an error.
EmitSubevent(s, m) ==
  LET e == NextEvent(s)
      t == DoAmSend([EventGet(s, e, FALSE, "none") EXCEPT !.ev[e].is_subevent = TRUE], e)
  IN  IF s.aborted THEN s
      ELSE CASE t.ev[e].req = "error"   -> [t EXCEPT !.aborted = TRUE]
             [] t.ev[e].req = "pending" -> [t EXCEPT !.ev[m].subs = Append(@, e)]
             [] OTHER                   -> EventReturn(t, e)

\* A meta-event with n sub-events is posted, up to the check for completion.
PostMeta(s, n, cb) ==
  LET m == NextEvent(s)
      t == [EventGet(s, m, FALSE, cb) EXCEPT !.ev[m].meta = TRUE]
  IN  FoldLeft(LAMBDA x, i : EmitSubevent(x, m), t, [i \in 1..n |-> i])

\* The sub-events of m that completed are taken off its list and returned.
\* (A wrong ReapSubevents: the sub-events stay on the list.)
KeepsSubevents(s, m) ==
  FoldLeft(DoEventReturn, s, SelectSeq(s.ev[m].subs, LAMBDA e : s.ev[e].complete))
ReapSubevents(s, m) ==
  LET done == SelectSeq(s.ev[m].subs, LAMBDA e : s.ev[e].complete)
      t    == Check([s EXCEPT !.ev[m].subs = SelectSeq(@, LAMBDA e : ~s.ev[e].complete)],
                    \A i \in DOMAIN done : s.ev[done[i]].req = "none", "sub_pending")
  IN  FoldLeft(LAMBDA x, e : DoEventReturn([x EXCEPT !.ev[e].is_subevent = FALSE], e), t, done)

\* A meta-event without completion callback, posted by a completion callback.
PostFromCallback(s) ==
  LET m == NextEvent(s)
      t == ReapSubevents(PostMeta(s, 1, "none"), m)
  IN  CASE t.aborted             -> [t EXCEPT !.aborted = FALSE]
        [] t.ev[m].subs = <<>>   -> EventReturn([t EXCEPT !.ev[m].complete = TRUE], m)
        [] OTHER                 -> QueueEvent(t, m)

\* (A wrong CompleteEvent: the callback is not forgotten.)
CallsAgain(s, e) ==
  LET t == [s EXCEPT !.ev[e].complete = TRUE]
  IN  IF s.ev[e].cb = "none" THEN t ELSE [t EXCEPT !.ev[e].calls = @ + 1]

\* COMPLETE_EVENT: the callback is forgotten before it is invoked.
CompleteEvent(s, e) ==
  LET t == [s EXCEPT !.ev[e].complete = TRUE]
      u == [t EXCEPT !.ev[e].cb = "none", !.ev[e].calls = @ + 1]
  IN  CASE s.ev[e].cb = "none"   -> t
        [] s.ev[e].cb = "report" -> u
        [] s.ev[e].cb = "post"   -> PostFromCallback(u)

\* event_completed: its answer, and what it does besides.
\* (A wrong IsCompleted: one completed sub-event is enough.)
AnySubevent(s, e) ==
  IF s.ev[e].meta
  THEN \/ s.ev[e].subs = <<>>
       \/ \E i \in DOMAIN s.ev[e].subs : s.ev[s.ev[e].subs[i]].complete
  ELSE s.ev[e].complete
IsCompleted(s, e) ==
  IF s.ev[e].meta THEN \A i \in DOMAIN s.ev[e].subs : s.ev[s.ev[e].subs[i]].complete
                  ELSE s.ev[e].complete
\* (A wrong EventCompleted: the callback is not invoked.)
OnlyChecks(s, e) == IF s.ev[e].meta THEN ReapSubevents(s, e) ELSE s
EventCompleted(s, e) ==
  LET t == IF s.ev[e].meta THEN ReapSubevents(s, e) ELSE s
  IN  IF IsCompleted(s, e) THEN CompleteEvent(t, e) ELSE t

\* The number of posted sends goes down with an event of the ongoing list.
Unpost(s, e) ==
  IF s.ev[e].was_posted
  THEN [Check(s, s.posted_sends > 0, "posted_sends") EXCEPT
          !.posted_sends = @ - 1, !.ev[e].was_posted = FALSE]
  ELSE s

CanPost(s) == MaxPosted <= 0 \/ s.posted_sends < MaxPosted
EventPosted(s, e) == ~s.ev[e].complete /\ (s.ev[e].was_posted \/ s.ev[e].req # "none")

\* (A wrong Unlink: the event keeps its flag.)
Forgets(s, e) == [s EXCEPT !.ongoing = SelectSeq(@, LAMBDA x : x # e)]
Unlink(s, e) ==
  [s EXCEPT !.ongoing = SelectSeq(@, LAMBDA x : x # e), !.ev[e].is_ongoing = FALSE]

\* One pass of the loop of progress_econtext_sends (PROGRESS_EVENT_SEND for a
\* plain event).
ProgressOne(s, e) ==
  LET c == Check(s, s.ev[e].used /\ s.ev[e].is_ongoing, "not_ongoing")
      t == EventCompleted(c, e)
  IN  IF IsCompleted(s, e) THEN EventReturn(Unpost(Unlink(t, e), e), e)
      ELSE IF ~s.ev[e].meta /\ CanPost(t) /\ ~EventPosted(t, e) THEN DoAmSend(t, e)
      ELSE t

\* progress_econtext_sends.  What callbacks add at the end of the list cannot
\* be complete yet, so that it makes no difference whether the loop gets there.
ProgressSends(s) == FoldLeft(LAMBDA x, e : ProgressOne(x, e), s, s.ongoing)

\* event_channel_emit and event_channel_emit_with_payload of a plain event:
\* progress, then am_send_event_msg, then QUEUE_EVENT.
Emit(s, e) ==
  LET p == ProgressSends(s)
      t == DoAmSend([p EXCEPT !.ev[e].complete = FALSE], e)
  IN  CASE t.ev[e].req = "error"   -> t
        [] t.ev[e].req = "pending" -> QueueEvent(t, e)
        [] OTHER                   -> IF t.ev[e].explicit THEN CompleteEvent(t, e)
                                                          ELSE EventReturn(t, e)

\* A meta-event with n sub-events as send_gp_cache_to_host, broadcast_group_cache
\* and send_revoke_group_to_ranks post it.
EmitMeta(s, n, cb) ==
  LET m == NextEvent(s)
      t == PostMeta(s, n, cb)
      u == EventCompleted(t, m)
  IN  CASE t.aborted         -> [t EXCEPT !.aborted = FALSE]
        [] IsCompleted(t, m) -> EventReturn(u, m)
        [] OTHER             -> QueueEvent(u, m)

-----------------------------------------------------------------------------
(* Specification *)

Init ==
  /\ sys = [ev |-> [e \in Pool |-> ResetEvent], ongoing |-> <<>>, posted_sends |-> 0,
            num_used_evs |-> 0, aborted |-> FALSE, failed |-> {},
            answers |-> <<>>, unanswered |-> FALSE]
  /\ emits = 0
  /\ errors = 0

\* A step in which UCX gets n sends from the operation itself, and one from
\* every callback that posts a meta-event, at most: Oracle(n) is the state with
\* the answers, and Become takes it up if they are the ones the step needed.
\* No more than MaxErrors sends fail.
Posting(s) == {e \in Pool : s.ev[e].used /\ s.ev[e].cb = "post"}
Oracle(n) == {[sys EXCEPT !.answers = a] :
                a \in UNION {[1..k -> Answer] : k \in 0..(n + Cardinality(Posting(sys)))}}
Failures(s) == Cardinality({e \in Pool : s.ev[e].req = "error"})
Become(s) ==
  /\ s.answers = <<>> /\ ~s.unanswered
  /\ sys' = s
  /\ errors' = errors + Failures(s) - Failures(sys)
  /\ errors' <= MaxErrors

\* Bound of the pool: there are events for what callbacks are going to post.
Extra(cb) == IF cb = "post" THEN 1 ELSE 0
Available(n, cb) ==
  Cardinality(Free(sys)) >= n + 2 * (Cardinality(Posting(sys)) + Extra(cb))

\* The application emits a plain event, to be returned explicitly or not.
EmitEvent(explicit, cb) ==
  /\ emits < MaxEmits /\ Available(1, cb)
  /\ \E s \in Oracle(1 + Extra(cb)) :
       LET e == NextEvent(s) IN Become(Emit(EventGet(s, e, explicit, cb), e))
  /\ emits' = emits + 1

\* The library posts a meta-event with n sub-events.
EmitMetaEvent(n, cb) ==
  /\ emits < MaxEmits /\ Available(n + 1, cb)
  /\ \E s \in Oracle(n + Extra(cb)) : Become(EmitMeta(s, n, cb))
  /\ emits' = emits + 1

\* notification_emit_cb: UCX completed the send of e.
SendCompletes(e) ==
  /\ sys.ev[e].req = "pending"
  /\ \E s \in Oracle(0) : Become([CompleteEvent(s, e) EXCEPT !.ev[e].req = "none"])
  /\ UNCHANGED emits

\* progress_econtext_sends, called when the execution context is progressed.
Progress ==
  /\ \E s \in Oracle(0) : Become(ProgressSends(s))
  /\ UNCHANGED emits

\* The application checks its explicitly managed event e with event_completed
\* and returns it once completed.
PollAndReturn(e) ==
  /\ sys.ev[e].used /\ sys.ev[e].explicit
  /\ IsCompleted(sys, e)
  /\ \E s \in Oracle(0) : Become(EventReturn(EventCompleted(s, e), e))
  /\ UNCHANGED emits

Next ==
  \/ \E explicit \in BOOLEAN, cb \in Callback : EmitEvent(explicit, cb)
  \/ \E n \in 1..MaxSubs, cb \in Callback : EmitMetaEvent(n, cb)
  \/ \E e \in Pool : SendCompletes(e) \/ PollAndReturn(e)
  \/ Progress

Spec == Init /\ [][Next]_vars

\* UCX completes every send, the engine keeps progressing the execution
\* context, and the application returns what it said it would return.  This is
\* weak fairness of SendCompletes(e), PollAndReturn(e) and Progress, spelled
\* out: each is enabled, and changes something, exactly when the formula below
\* is false, and makes it true.
CanProgress ==
  \E i \in DOMAIN sys.ongoing :
    LET e == sys.ongoing[i]
    IN  IF sys.ev[e].meta THEN \E j \in DOMAIN sys.ev[e].subs : sys.ev[sys.ev[e].subs[j]].complete
                          ELSE sys.ev[e].complete
Fairness ==
  /\ \A e \in Pool : []<>(sys.ev[e].req # "pending")
  /\ \A e \in Pool : []<>~(sys.ev[e].used /\ sys.ev[e].explicit /\ sys.ev[e].complete)
  /\ []<>~CanProgress
FairSpec == Spec /\ Fairness

-----------------------------------------------------------------------------
(* Properties *)

\* Every event that is in use is counted and is where its flags say: on the
\* ongoing list, on the list of one meta-event, or with the application; never
\* on two lists, never on one, or with a request of UCX, after it was returned.
\* Only a failed send leaves events that are nowhere.
On(l, e) == {i \in DOMAIN l : l[i] = e}
ListedAt(e) ==
  {<<0, i>> : i \in On(sys.ongoing, e)}
    \cup UNION {{<<m, i>> : i \in On(sys.ev[m].subs, e)} : m \in {m \in Pool : sys.ev[m].used}}
PoolConsistent ==
  /\ sys.num_used_evs = Cardinality(Pool \ Free(sys))
  /\ \A e \in Free(sys) : ListedAt(e) = {} /\ sys.ev[e].req = "none"
  /\ \A e \in Pool \ Free(sys) :
       /\ Cardinality(ListedAt(e)) <= 1
       /\ sys.ev[e].is_ongoing <=> On(sys.ongoing, e) # {}
       /\ errors = 0 => sys.ev[e].explicit \/ ListedAt(e) # {}

\* No assertion on lists, flags and counters in emit, progress and return is
\* ever violated, and no return of a completed sub-event is refused.
AssertionsHold == sys.failed = {}

\* COMPLETE_EVENT: "enforce a callback to be called only once".  Several places
\* complete an event (the send's callback, every check for completion).
CallbackOnce == \A e \in Pool : sys.ev[e].calls <= 1

\* "A meta-event completes only when all the sub-events are completed": until
\* then its callback is not invoked and it is not returned.
MetaAfterSubs ==
  [][\A m \in Pool :
       sys.ev[m].used /\ sys.ev[m].meta
         /\ (sys'.ev[m].calls > sys.ev[m].calls \/ ~sys'.ev[m].used)
       => \A i \in DOMAIN sys.ev[m].subs : sys.ev[sys.ev[m].subs[i]].complete]_vars

\* Unless a send fails, every event returns to the pool.
EventsReturned ==
  \A e \in Pool : (sys.ev[e].used /\ errors = 0) ~> (~sys.ev[e].used \/ errors > 0)

\* Unless a send fails, the callback of an event that did not complete right
\* away is invoked.
CallbackInvoked ==
  \A e \in Pool : (sys.ev[e].used /\ sys.ev[e].cb # "none" /\ errors = 0)
                   ~> (sys.ev[e].cb = "none" \/ errors > 0)
=============================================================================
