--------------------------- MODULE BootstrapProofs ---------------------------
(***************************************************************************)
(* What the bootstrap of the clients of a server guarantees for every      *)
(* number of clients that a size_t can count.  The two threads of the      *)
(* server race for the counters: some facts hold whatever happens, others  *)
(* as long as no acceptance overlapped a finalization.                     *)
(***************************************************************************)
EXTENDS Bootstrap, FiniteSetTheorems, TLAPS

-----------------------------------------------------------------------------
(* The inductive invariant *)

\* What is assumed: a size_t can count the clients.
Countable == Cardinality(Client) <= SizeMax

Counters == [ongoing : Nat, connected : Nat, total : Nat]
NoSlot == [phase |-> "none", posted |-> FALSE, got |-> <<>>, step4 |-> FALSE]
Slots == [phase : {"none", "oob", "ucx", "done", "gone"}, posted : BOOLEAN,
          got : Seq(Client \X Nat), step4 : BOOLEAN]
Threads == [pc : {"accept", "total", "ongoing", "load", "store", "exit"}, loaded : Nat, id : Nat]
Finals == [pc : {"idle", "store", "count"}, loaded : Nat]
Clients ==
  {k \in [phase : {"init", "oob", "ready", "left"}, id : Nat, sent : 0..Steps] :
    k.phase = "init" => k.sent = 0}

TypeInv ==
  /\ counters \in Counters
  /\ slot \in [Slot -> Slots]
  /\ thread \in Threads
  /\ final \in Finals
  /\ client \in [Client -> Clients]
  /\ mail \in [Slot -> Seq(Client \X Nat)]
  /\ cached \in SUBSET Client
  /\ term \in SUBSET Client
  /\ done \in BOOLEAN

\* The clients that were told an ID, those that left, and those of them whose
\* departure the server noticed; and the slots that are connecting.
Accepted == {c \in Client : client[c].phase # "init"}
Left == {c \in Client : client[c].phase = "left"}
Departed == Left \ term
ConnSlots == {i \in Slot : Connecting(i)}

One(b) == IF b THEN 1 ELSE 0

\* num_ongoing_connections, and the copies of it that the threads work with,
\* may be out of date but count no client twice.
OngoingInv ==
  /\ counters.ongoing <= Cardinality(Accepted)
  /\ thread.pc \in {"load", "store"} => counters.ongoing < Cardinality(Accepted)
  /\ thread.pc = "store" => thread.loaded < Cardinality(Accepted)
  /\ final.pc = "store" => final.loaded # 0 /\ final.loaded <= Cardinality(Accepted)

\* No more connections are finalized than were accepted; those that were are
\* connected or departed.
TotalInv ==
  /\ counters.total + Cardinality(ConnSlots) + One(final.pc # "idle") + One(thread.pc = "load")
       <= Cardinality(Accepted)
  /\ counters.connected + Cardinality(Departed) = counters.total

\* Clients leave when all connections are finalized; the server is done when
\* all departed.
LeaveInv ==
  /\ cached # {} => counters.total = Cardinality(Client)
  /\ \A c \in Left : c \in cached
  /\ \A c \in term : c \in Left
  /\ done => Departed = Client
  /\ failed = {}

\* What holds whatever overlapped.
RaceInv == TypeInv /\ OngoingInv /\ TotalInv /\ LeaveInv

\* No overlap: neither thread works with a value that is out of date.
ApartInv ==
  /\ thread.pc = "accept" \/ final.pc = "idle"
  /\ thread.pc # "exit"
  /\ thread.pc \in {"total", "store"} => thread.loaded = counters.ongoing
  /\ thread.pc = "ongoing" => thread.loaded = counters.total
  /\ final.pc = "store" => final.loaded = counters.ongoing

\* The sum of the counters counts the clients that were told an ID, up to the
\* updates that a thread has yet to make.
CountInv ==
  counters.total + counters.ongoing + One(thread.pc \in {"load", "store"}) + One(final.pc = "count")
    = Cardinality(Accepted)

\* An ID is used by one client, and IDs that are not used yet have an empty slot.
IdInv ==
  /\ \A c \in Accepted : client[c].id \in 0..(Cardinality(Accepted) - 1)
  /\ \A c, d \in Accepted : client[c].id = client[d].id => c = d
  /\ \A i \in Slot : (slot[i] = NoSlot /\ mail[i] = <<>>) \/ \E c \in Accepted : client[c].id = i
  /\ thread.pc = "load" => \E c \in Accepted : client[c].id = thread.id

\* The messages that client c sends after the first a of them, up to the b-th.
Msgs(c, a, b) == [n \in 1..(b - a) |-> <<c, a + n>>]

\* What was received in the slot of c, and what is on its way to it, are the
\* messages that c sent.
Data(c, s, m, sent) ==
  /\ s.phase \in {"ucx", "done"} => Len(s.got) = Steps
  /\ \E g \in 0..sent : s.got = Msgs(c, 0, g) /\ m = Msgs(c, g, sent)
DataInv ==
  \A c \in Accepted : Data(c, slot[client[c].id], mail[client[c].id], client[c].sent)

OrderInv == ApartInv /\ CountInv /\ IdInv /\ DataInv

IInv == RaceInv /\ (~overlapped => OrderInv)

-----------------------------------------------------------------------------
(* Sets of clients and sequences of messages *)

\* Sets of clients are finite; the counters can count them.
LEMMA CountClients ==
  ASSUME Countable, NEW S \in SUBSET Client
  PROVE  /\ IsFiniteSet(S) /\ Cardinality(S) \in Nat
         /\ Cardinality(S) <= Cardinality(Client) /\ Cardinality(Client) \in Nat
         /\ Cardinality(S) <= SizeMax /\ Cardinality(Client) <= SizeMax /\ SizeMax \in Nat
         /\ Cardinality(S) = Cardinality(Client) => S = Client
<1>1. IsFiniteSet(Client) /\ SizeMax \in Nat /\ Cardinality(Client) <= SizeMax
  BY BootstrapAssumption, Zenon DEF BootstrapAssumption, Countable
<1>2. IsFiniteSet(S) /\ Cardinality(S) <= Cardinality(Client)
  BY <1>1, FS_Subset, Zenon
<1>3. Cardinality(S) \in Nat /\ Cardinality(Client) \in Nat
  BY <1>1, <1>2, FS_CardinalityType, Zenon
<1>4. Cardinality(S) = Cardinality(Client) => S = Client
  BY <1>1, FS_Subset, Zenon
<1>5. Cardinality(S) <= SizeMax
  BY <1>1, <1>2, <1>3
<1> QED
  BY <1>1, <1>2, <1>3, <1>4, <1>5, Zenon

\* One more client.
LEMMA CountAdd ==
  ASSUME Countable, NEW S \in SUBSET Client, NEW c \in Client, c \notin S
  PROVE  Cardinality(S \cup {c}) = Cardinality(S) + 1
BY CountClients, FS_AddElement, Zenon

\* Sets of slots are finite; what a change of one slot does to their number.
LEMMA CountSlots ==
  ASSUME NEW S \in SUBSET Slot, NEW i
  PROVE  /\ Cardinality(S) \in Nat
         /\ \A T \in SUBSET S : Cardinality(T) \in Nat /\ Cardinality(T) <= Cardinality(S)
         /\ \A T \in SUBSET (S \cup {i}) : Cardinality(T) \in Nat /\ Cardinality(T) <= Cardinality(S) + 1
         /\ i \in S => Cardinality(S \ {i}) = Cardinality(S) - 1 /\ Cardinality(S \ {i}) \in Nat
<1>1. Cardinality(Client) \in Nat
  BY BootstrapAssumption, FS_CardinalityType, Zenon DEF BootstrapAssumption
<1>2. 0 \in Int /\ 2 * Cardinality(Client) - 2 \in Int
  BY <1>1
<1>3. IsFiniteSet(Slot)
  BY <1>2, FS_Interval, Zenon DEF Slot
<1>4. IsFiniteSet(S) /\ Cardinality(S) \in Nat
  BY <1>3, FS_Subset, FS_CardinalityType, Zenon
<1>5. ASSUME NEW T \in SUBSET S
      PROVE  Cardinality(T) \in Nat /\ Cardinality(T) <= Cardinality(S)
  BY <1>4, FS_Subset, FS_CardinalityType, Zenon
<1>6. ASSUME NEW T \in SUBSET (S \cup {i})
      PROVE  Cardinality(T) \in Nat /\ Cardinality(T) <= Cardinality(S) + 1
  <2>1. IsFiniteSet(S \cup {i}) /\ Cardinality(S \cup {i}) \in {Cardinality(S), Cardinality(S) + 1}
    BY <1>4, FS_AddElement, Zenon
  <2>2. Cardinality(T) \in Nat /\ Cardinality(T) <= Cardinality(S \cup {i})
    BY <2>1, FS_Subset, FS_CardinalityType, Zenon
  <2> QED
    BY <1>4, <2>1, <2>2
<1>7. i \in S => Cardinality(S \ {i}) = Cardinality(S) - 1 /\ Cardinality(S \ {i}) \in Nat
  BY <1>4, <1>5, FS_RemoveElement, Zenon
<1> QED
  BY <1>4, <1>5, <1>6, <1>7, Zenon

\* The counters do not wrap around below SIZE_MAX.
LEMMA IncDec ==
  ASSUME NEW n \in Nat
  PROVE  /\ n + 1 <= SizeMax => Inc(n) = n + 1
         /\ n <= SizeMax /\ n # 0 => Dec(n) = n - 1 /\ Dec(n) \in Nat
         /\ n <= SizeMax => n % (SizeMax + 1) = n
         /\ n % (SizeMax + 1) \in Nat
<1>1. SizeMax \in Nat
  BY BootstrapAssumption, Zenon DEF BootstrapAssumption
<1>2. n + 1 <= SizeMax => (n + 1) % (SizeMax + 1) = n + 1
  BY <1>1
<1>3. n <= SizeMax /\ n # 0 => (n + SizeMax) % (SizeMax + 1) = n - 1 /\ n - 1 \in Nat
  BY <1>1
<1>4. n <= SizeMax => n % (SizeMax + 1) = n
  BY <1>1
<1>5. n % (SizeMax + 1) \in Nat
  BY <1>1
<1> QED
  BY <1>2, <1>3, <1>4, <1>5, Zenon DEF Inc, Dec

\* Sequences with the same elements are equal.
LEMMA SameElements ==
  ASSUME NEW S, NEW s \in Seq(S), NEW t \in Seq(S), Len(s) = Len(t),
         \A n \in 1..Len(t) : s[n] = t[n]
  PROVE  s = t
<1>1. s = [n \in 1..Len(s) |-> s[n]] /\ t = [n \in 1..Len(t) |-> t[n]]
  OBVIOUS
<1>2. [n \in 1..Len(s) |-> s[n]] = [n \in 1..Len(t) |-> t[n]]
  BY Zenon
<1> QED
  BY <1>1, <1>2, Zenon

\* The messages of a client form a sequence.
LEMMA MsgsSeq ==
  ASSUME NEW c \in Client, NEW a \in Nat, NEW b \in Nat, a <= b
  PROVE  /\ Msgs(c, a, b) \in Seq(Client \X Nat) /\ Len(Msgs(c, a, b)) = b - a
         /\ DOMAIN Msgs(c, a, b) = 1..(b - a)
         /\ \A n \in 1..(b - a) : Msgs(c, a, b)[n] = <<c, a + n>>
BY DEF Msgs

\* Sending the next message,
LEMMA MsgsAppend ==
  ASSUME NEW c \in Client, NEW a \in Nat, NEW b \in Nat, a <= b
  PROVE  Append(Msgs(c, a, b), <<c, b + 1>>) = Msgs(c, a, b + 1)
BY DEF Msgs

\* and receiving the first one.
LEMMA MsgsHead ==
  ASSUME NEW c \in Client, NEW a \in Nat, NEW b \in Nat, a <= b, Msgs(c, a, b) # <<>>
  PROVE  /\ a + 1 <= b /\ Head(Msgs(c, a, b)) = <<c, a + 1>>
         /\ Tail(Msgs(c, a, b)) = Msgs(c, a + 1, b)
<1>1. \A s \in Seq(Client \X Nat) : Len(s) = 0 => s = <<>>
  OBVIOUS
<1>2. a # b
  BY <1>1, MsgsSeq
<1> DEFINE q == Msgs(c, a, b)
           t == Msgs(c, a + 1, b)
<1>3. a + 1 \in Nat /\ a + 1 <= b
  BY <1>2
<1>4. /\ q \in Seq(Client \X Nat) /\ Len(q) = b - a
      /\ \A n \in 1..(b - a) : q[n] = <<c, a + n>>
  BY MsgsSeq, Zenon
<1>5. /\ t \in Seq(Client \X Nat) /\ Len(t) = b - (a + 1)
      /\ \A n \in 1..(b - (a + 1)) : t[n] = <<c, (a + 1) + n>>
  BY <1>3, MsgsSeq, Zenon
<1> HIDE DEF q, t
<1>6. Head(q) = <<c, a + 1>>
  <2>1. q # <<>> /\ 1 \in 1..(b - a)
    BY <1>3, <1>4
  <2>2. Head(q) = q[1]
    BY <1>4, <2>1
  <2> QED
    BY <1>4, <2>1, <2>2, Zenon
<1>7. Tail(q) \in Seq(Client \X Nat) /\ Len(Tail(q)) = Len(t)
      /\ \A n \in 1..Len(t) : Tail(q)[n] = q[n + 1] /\ n + 1 \in 1..(b - a)
                              /\ a + (n + 1) = (a + 1) + n /\ n \in 1..(b - (a + 1))
  BY <1>3, <1>4, <1>5
<1>8. ASSUME NEW n \in 1..Len(t)
      PROVE  Tail(q)[n] = t[n]
  <2>1. Tail(q)[n] = q[n + 1] /\ n + 1 \in 1..(b - a) /\ a + (n + 1) = (a + 1) + n
        /\ n \in 1..(b - (a + 1))
    BY <1>7, Zenon
  <2>2. q[n + 1] = <<c, a + (n + 1)>>
    BY <1>4, <2>1, Zenon
  <2>3. t[n] = <<c, (a + 1) + n>>
    BY <1>5, <2>1, Zenon
  <2> QED
    BY <2>1, <2>2, <2>3, Zenon
<1>9. Tail(q) = t
  BY <1>5, <1>7, <1>8, SameElements, Zenon
<1> QED
  BY <1>3, <1>6, <1>9, Zenon DEF q, t

-----------------------------------------------------------------------------
(* Whatever overlaps *)

\* The numbers of a state in which the two threads race.
LEMMA Numbers ==
  ASSUME Countable, RaceInv
  PROVE  /\ counters.ongoing \in Nat /\ counters.connected \in Nat /\ counters.total \in Nat
         /\ thread.loaded \in Nat /\ final.loaded \in Nat
         /\ Accepted \in SUBSET Client /\ Departed \in SUBSET Client /\ ConnSlots \in SUBSET Slot
         /\ Cardinality(Accepted) \in Nat /\ Cardinality(Client) \in Nat /\ SizeMax \in Nat
         /\ Cardinality(Departed) \in Nat /\ Cardinality(ConnSlots) \in Nat
         /\ Cardinality(Accepted) <= Cardinality(Client) /\ Cardinality(Client) <= SizeMax
<1>1. counters.ongoing \in Nat /\ counters.connected \in Nat /\ counters.total \in Nat
  BY Zenon DEF RaceInv, TypeInv, Counters
<1>2. thread.loaded \in Nat /\ final.loaded \in Nat
  BY Zenon DEF RaceInv, TypeInv, Threads, Finals
<1>3. Accepted \in SUBSET Client /\ Departed \in SUBSET Client /\ ConnSlots \in SUBSET Slot
  BY Zenon DEF Accepted, Departed, Left, ConnSlots
<1> QED
  BY <1>1, <1>2, <1>3, CountClients, CountSlots, Zenon

\* A change of the slot j to s, if there is such a slot.
LEMMA SlotAt ==
  ASSUME TypeInv, NEW j, NEW s, slot' = [slot EXCEPT ![j] = s], j \in Slot => s \in Slots
  PROVE  /\ slot' \in [Slot -> Slots]
         /\ \A i \in Slot : slot'[i] = IF i = j THEN s ELSE slot[i]
         /\ ConnSlots' \in SUBSET (ConnSlots \cup {j})
         /\ s.phase \notin {"oob", "ucx"} => ConnSlots' = ConnSlots \ {j}
<1>1. slot \in [Slot -> Slots]
  BY Zenon DEF TypeInv
<1>2. \A i \in Slot : slot'[i] = IF i = j THEN s ELSE slot[i]
  BY <1>1, Zenon
<1>3. slot' \in [Slot -> Slots]
  BY <1>1, Zenon
<1>4. ConnSlots' = {i \in Slot : slot'[i].phase \in {"oob", "ucx"}}
      /\ ConnSlots = {i \in Slot : slot[i].phase \in {"oob", "ucx"}}
  BY Zenon DEF ConnSlots, Connecting
<1>5. ConnSlots' \in SUBSET (ConnSlots \cup {j})
  BY <1>2, <1>4, Zenon
<1>6. s.phase \notin {"oob", "ucx"} => ConnSlots' = ConnSlots \ {j}
  BY <1>2, <1>4, Zenon
<1> QED
  BY <1>2, <1>3, <1>5, <1>6, Zenon

\* Steps that change no counter and let no client in or out.
LEMMA Quiet ==
  ASSUME Countable, RaceInv, TypeInv', UNCHANGED <<counters, thread, final, cached, term, done, failed>>,
         Accepted' = Accepted, Left' = Left, ConnSlots' \in SUBSET ConnSlots
  PROVE  RaceInv'
<1>1. Departed' = Departed
  BY Zenon DEF Departed
<1>2. Cardinality(ConnSlots') \in Nat /\ Cardinality(ConnSlots') <= Cardinality(ConnSlots)
  BY Numbers, CountSlots, Zenon
<1>3. OngoingInv' /\ LeaveInv'
  BY <1>1, Zenon DEF RaceInv, OngoingInv, LeaveInv
<1>4. TotalInv'
  <2> DEFINE f == One(final.pc # "idle")
             l == One(thread.pc = "load")
             t == counters.total
             n == Cardinality(ConnSlots)
             m == Cardinality(ConnSlots')
             a == Cardinality(Accepted)
  <2>1. t + n + f + l <= a
    BY Zenon DEF RaceInv, TotalInv
  <2>2. f \in Nat /\ l \in Nat
    BY DEF One
  <2>3. t \in Nat /\ n \in Nat /\ m \in Nat /\ m <= n /\ a \in Nat
    BY <1>2, Numbers, Zenon
  <2> HIDE DEF f, l, t, n, m, a
  <2>4. t + m + f + l <= a
    BY <2>1, <2>2, <2>3
  <2> QED
    BY <1>1, <2>4, Zenon DEF RaceInv, TotalInv, f, l, t, n, m, a
<1> QED
  BY <1>3, <1>4, Zenon DEF RaceInv

\* A step that changes the slot i and no client.
LEMMA QuietSlot ==
  ASSUME Countable, RaceInv, NEW i \in Slot, NEW s \in Slots,
         slot' = [slot EXCEPT ![i] = s], mail' \in [Slot -> Seq(Client \X Nat)],
         s.phase \in {"oob", "ucx"} => i \in ConnSlots,
         UNCHANGED <<counters, thread, final, client, cached, term, done, failed>>
  PROVE  RaceInv'
<1>1. TypeInv
  BY Zenon DEF RaceInv
<1>2. slot' \in [Slot -> Slots] /\ ConnSlots' \in SUBSET (ConnSlots \cup {i})
      /\ (s.phase \notin {"oob", "ucx"} => ConnSlots' = ConnSlots \ {i})
  BY <1>1, SlotAt, Zenon
<1>3. ConnSlots' \in SUBSET ConnSlots
  BY <1>2, Zenon
<1>4. TypeInv'
  BY <1>1, <1>2, Zenon DEF TypeInv
<1>5. Accepted' = Accepted /\ Left' = Left
  BY Zenon DEF Accepted, Left
<1> QED
  BY <1>3, <1>4, <1>5, Quiet, Zenon

\* oob_server_ucx_client_connection_step1, 2 and 3,
LEMMA PostRecvRace ==
  ASSUME Countable, RaceInv, NEW i \in Slot, PostRecv(i)
  PROVE  RaceInv'
<1> DEFINE s == [slot[i] EXCEPT !.posted = TRUE]
<1>1. slot \in [Slot -> Slots] /\ slot[i] \in Slots /\ mail \in [Slot -> Seq(Client \X Nat)]
  BY Zenon DEF RaceInv, TypeInv
<1>2. s \in Slots /\ slot' = [slot EXCEPT ![i] = s]
  BY <1>1, Zenon DEF Slots, PostRecv
<1>3. i \in ConnSlots
  BY Zenon DEF PostRecv, Reached, ConnSlots
<1>4. UNCHANGED <<counters, thread, final, client, mail, cached, term, done, failed>>
  BY Zenon DEF PostRecv
<1> HIDE DEF s
<1> QED
  BY <1>1, <1>2, <1>3, <1>4, QuietSlot, Zenon

\* oob_recv_generic_handler,
LEMMA UcxRecvRace ==
  ASSUME Countable, RaceInv, NEW i \in Slot, UcxRecv(i)
  PROVE  RaceInv'
<1> DEFINE m == mail[i]
           a == Append(slot[i].got, Head(m))
           s == [slot[i] EXCEPT !.posted = FALSE, !.got = a]
<1>1. slot \in [Slot -> Slots] /\ slot[i] \in Slots /\ mail \in [Slot -> Seq(Client \X Nat)]
      /\ m \in Seq(Client \X Nat) /\ slot[i].got \in Seq(Client \X Nat)
  BY Zenon DEF RaceInv, TypeInv, Slots
<1>2. m # <<>> /\ mail' = [mail EXCEPT ![i] = Tail(m)]
      /\ UNCHANGED <<counters, thread, final, client, cached, term, done, failed>>
  BY Zenon DEF UcxRecv
<1>3. \A S : \A p, q \in Seq(S) : q # <<>> => Append(p, Head(q)) \in Seq(S) /\ Tail(q) \in Seq(S)
  OBVIOUS
<1>4. a \in Seq(Client \X Nat) /\ Tail(m) \in Seq(Client \X Nat)
  BY <1>1, <1>2, <1>3, Zenon
<1>5. slot' = [slot EXCEPT ![i] = s]
  BY <1>1, Zenon DEF UcxRecv, Slots
<1> HIDE DEF a
<1>6. s \in Slots /\ s.phase = slot[i].phase
  BY <1>1, <1>4, Zenon DEF Slots
<1> HIDE DEF s, m
<1>7. mail' \in [Slot -> Seq(Client \X Nat)]
  BY <1>1, <1>2, <1>4, Zenon
<1>8. s.phase \in {"oob", "ucx"} => i \in ConnSlots
  BY <1>6, Zenon DEF ConnSlots, Connecting
<1> QED
  BY <1>2, <1>5, <1>6, <1>7, <1>8, QuietSlot, Zenon

\* and oob_server_ucx_client_connection_step4.
LEMMA SendInfoRace ==
  ASSUME Countable, RaceInv, NEW i \in Slot, SendInfo(i)
  PROVE  RaceInv'
<1> DEFINE s == [slot[i] EXCEPT !.phase = "ucx", !.step4 = TRUE]
<1>1. slot \in [Slot -> Slots] /\ slot[i] \in Slots /\ mail \in [Slot -> Seq(Client \X Nat)]
  BY Zenon DEF RaceInv, TypeInv
<1>2. s \in Slots /\ slot' = [slot EXCEPT ![i] = s]
  BY <1>1, Zenon DEF Slots, SendInfo
<1>3. i \in ConnSlots
  BY Zenon DEF SendInfo, Reached, ConnSlots
<1>4. UNCHANGED <<counters, thread, final, client, mail, cached, term, done, failed>>
  BY Zenon DEF SendInfo
<1> HIDE DEF s
<1> QED
  BY <1>1, <1>2, <1>3, <1>4, QuietSlot, Zenon

\* A change of the client c to k.
LEMMA ClientAt ==
  ASSUME TypeInv, NEW c \in Client, NEW k \in Clients, client' = [client EXCEPT ![c] = k]
  PROVE  /\ client' \in [Client -> Clients]
         /\ \A d \in Client : client'[d] = IF d = c THEN k ELSE client[d]
         /\ Accepted' = IF k.phase # "init" THEN Accepted \cup {c} ELSE Accepted \ {c}
         /\ Left' = IF k.phase = "left" THEN Left \cup {c} ELSE Left \ {c}
<1>1. client \in [Client -> Clients]
  BY Zenon DEF TypeInv
<1>2. client' \in [Client -> Clients] /\ \A d \in Client : client'[d] = IF d = c THEN k ELSE client[d]
  BY <1>1, Zenon
<1>3. Accepted' = IF k.phase # "init" THEN Accepted \cup {c} ELSE Accepted \ {c}
  BY <1>2, Zenon DEF Accepted
<1>4. Left' = IF k.phase = "left" THEN Left \cup {c} ELSE Left \ {c}
  BY <1>2, Zenon DEF Left
<1> QED
  BY <1>2, <1>3, <1>4, Zenon

\* client_ucx_bootstrap_step1, 2 and 3.
LEMMA ClientSendRace ==
  ASSUME Countable, RaceInv, NEW c \in Client, ClientSend(c)
  PROVE  RaceInv'
<1> DEFINE n == client[c].sent + 1
           k == [client[c] EXCEPT !.sent = n]
           i == client[c].id
           a == Append(mail[i], <<c, n>>)
<1>1. /\ client[c].phase = "oob" /\ client[c].sent < Steps /\ mail' = [mail EXCEPT ![i] = a]
      /\ client' = [client EXCEPT ![c].sent = @ + 1]
      /\ UNCHANGED <<counters, slot, thread, final, cached, term, done, failed>>
  BY Zenon DEF ClientSend
<1>2. TypeInv /\ client \in [Client -> Clients] /\ client[c] \in Clients /\ client[c].sent \in 0..Steps
      /\ mail \in [Slot -> Seq(Client \X Nat)]
  BY Zenon DEF RaceInv, TypeInv, Clients
<1>3. n \in 0..Steps /\ n \in Nat
  BY <1>1, <1>2 DEF Steps
<1>4. client' = [client EXCEPT ![c] = k]
  BY <1>1, <1>2, Zenon DEF Clients
<1> HIDE DEF n
<1>5. k \in Clients /\ k.phase = "oob"
  BY <1>1, <1>2, <1>3, Zenon DEF Clients
<1>6. i \in Slot => a \in Seq(Client \X Nat)
  <2>1. <<c, n>> \in Client \X Nat
    BY <1>3, Zenon
  <2>2. \A S : \A p \in Seq(S), e \in S : Append(p, e) \in Seq(S)
    OBVIOUS
  <2>3. i \in Slot => mail[i] \in Seq(Client \X Nat)
    BY <1>2, Zenon
  <2> QED
    BY <2>1, <2>2, <2>3, Zenon
<1> HIDE DEF a, k
<1>7. mail' \in [Slot -> Seq(Client \X Nat)]
  BY <1>1, <1>2, <1>6, Zenon
<1>8. /\ client' \in [Client -> Clients] /\ Accepted' = Accepted \cup {c} /\ Left' = Left \ {c}
  BY <1>2, <1>4, <1>5, ClientAt, Zenon
<1>9. c \in Accepted /\ c \notin Left
  BY <1>1, Zenon DEF Accepted, Left
<1>10. ConnSlots' = ConnSlots
  BY <1>1, Zenon DEF ConnSlots, Connecting
<1>11. TypeInv'
  BY <1>1, <1>2, <1>7, <1>8, Zenon DEF TypeInv
<1> QED
  BY <1>1, <1>8, <1>9, <1>10, <1>11, Quiet, Zenon

\* progress_client_econtext.
LEMMA ClientReadyRace ==
  ASSUME Countable, RaceInv, NEW c \in Client, ClientReady(c)
  PROVE  RaceInv'
<1> DEFINE k == [client[c] EXCEPT !.phase = "ready"]
<1>1. /\ client[c].phase = "oob" /\ client' = [client EXCEPT ![c].phase = "ready"]
      /\ UNCHANGED <<counters, slot, thread, final, mail, cached, term, done, failed>>
  BY Zenon DEF ClientReady, UcxConnectDone
<1>2. TypeInv /\ client \in [Client -> Clients] /\ client[c] \in Clients
  BY Zenon DEF RaceInv, TypeInv
<1>3. client' = [client EXCEPT ![c] = k] /\ k \in Clients /\ k.phase = "ready"
  BY <1>1, <1>2, Zenon DEF Clients
<1> HIDE DEF k
<1>4. client' \in [Client -> Clients] /\ Accepted' = Accepted \cup {c} /\ Left' = Left \ {c}
  BY <1>2, <1>3, ClientAt, Zenon
<1>5. c \in Accepted /\ c \notin Left /\ ConnSlots' = ConnSlots
  BY <1>1, Zenon DEF Accepted, Left, ConnSlots, Connecting
<1>6. TypeInv'
  BY <1>1, <1>2, <1>4, Zenon DEF TypeInv
<1> QED
  BY <1>1, <1>4, <1>5, <1>6, Quiet, Zenon

\* client_fini: the client has the cache, so all connections are finalized.
LEMMA ClientFiniRace ==
  ASSUME Countable, RaceInv, NEW c \in Client, ClientFini(c)
  PROVE  RaceInv'
<1> DEFINE k == [client[c] EXCEPT !.phase = "left"]
<1>1. /\ client[c].phase = "ready" /\ c \in cached /\ client' = [client EXCEPT ![c].phase = "left"]
      /\ term' = term \cup {c}
      /\ UNCHANGED <<counters, slot, thread, final, mail, cached, done, failed>>
  BY Zenon DEF ClientFini
<1>2. TypeInv /\ client \in [Client -> Clients] /\ client[c] \in Clients
  BY Zenon DEF RaceInv, TypeInv
<1>3. client' = [client EXCEPT ![c] = k] /\ k \in Clients /\ k.phase = "left"
  BY <1>1, <1>2, Zenon DEF Clients
<1> HIDE DEF k
<1>4. client' \in [Client -> Clients] /\ Accepted' = Accepted \cup {c} /\ Left' = Left \cup {c}
  BY <1>2, <1>3, ClientAt, Zenon
<1>5. c \in Accepted /\ c \notin Left /\ ConnSlots' = ConnSlots
  BY <1>1, Zenon DEF Accepted, Left, ConnSlots, Connecting
<1>6. Accepted' = Accepted
  BY <1>4, <1>5, Zenon
<1>7. Departed' = Departed
  BY <1>1, <1>4, <1>5, Zenon DEF Departed
<1>8. TypeInv'
  BY <1>1, <1>2, <1>4, Zenon DEF TypeInv
<1>9. OngoingInv' /\ TotalInv'
  BY <1>1, <1>5, <1>6, <1>7, Zenon DEF RaceInv, OngoingInv, TotalInv
<1>10. LeaveInv'
  BY <1>1, <1>4, <1>7, Zenon DEF RaceInv, LeaveInv
<1> QED
  BY <1>8, <1>9, <1>10, Zenon DEF RaceInv

\* oob_server_listen: the first counter is read,
LEMMA AcceptRace ==
  ASSUME Countable, RaceInv, Accept
  PROVE  RaceInv'
<1>1. /\ thread.pc = "accept"
      /\ \/ thread' = [thread EXCEPT !.pc = "total", !.loaded = counters.ongoing]
         \/ thread' = [thread EXCEPT !.pc = "ongoing", !.loaded = counters.total]
      /\ UNCHANGED <<counters, slot, final, client, mail, cached, term, done, failed>>
  BY Zenon DEF Accept
<1>2. thread \in Threads /\ counters.ongoing \in Nat /\ counters.total \in Nat
  BY Numbers, Zenon DEF RaceInv, TypeInv
<1>3. thread' \in Threads /\ thread'.pc \in {"total", "ongoing"}
  <2>1. CASE thread' = [thread EXCEPT !.pc = "total", !.loaded = counters.ongoing]
    BY <1>2, <2>1, Zenon DEF Threads
  <2>2. CASE thread' = [thread EXCEPT !.pc = "ongoing", !.loaded = counters.total]
    BY <1>2, <2>2, Zenon DEF Threads
  <2> QED
    BY <1>1, <2>1, <2>2, Zenon
<1>4. /\ Accepted' = Accepted /\ Left' = Left /\ Departed' = Departed /\ ConnSlots' = ConnSlots
  BY <1>1, Zenon DEF Accepted, Left, Departed, ConnSlots, Connecting
<1>5. TypeInv'
  BY <1>1, <1>3, Zenon DEF RaceInv, TypeInv
<1>6. OngoingInv'
  BY <1>1, <1>3, <1>4, Zenon DEF RaceInv, OngoingInv
<1>7. TotalInv'
  <2>1. One(thread.pc = "load") = 0 /\ One(thread'.pc = "load") = 0
    BY <1>1, <1>3, Zenon DEF One
  <2> QED
    BY <1>1, <1>4, <2>1, Zenon DEF RaceInv, TotalInv
<1>8. LeaveInv'
  BY <1>1, <1>4, Zenon DEF RaceInv, LeaveInv
<1> QED
  BY <1>5, <1>6, <1>7, <1>8, Zenon DEF RaceInv

\* the client is told its ID,
LEMMA GenerateIdRace ==
  ASSUME Countable, RaceInv, NEW c \in Client, GenerateId(c)
  PROVE  /\ RaceInv' /\ NextId \in Nat
         /\ Accepted' = Accepted \cup {c} /\ c \notin Accepted
         /\ Cardinality(Accepted') = Cardinality(Accepted) + 1
<1> DEFINE k == [client[c] EXCEPT !.phase = "oob", !.id = NextId]
<1>1. /\ thread.pc \in {"total", "ongoing"} /\ client[c].phase = "init"
      /\ client' = [client EXCEPT ![c] = OobConnect(@)]
      /\ thread' = [pc |-> "load", loaded |-> 0, id |-> NextId]
      /\ UNCHANGED <<counters, slot, final, mail, cached, term, done, failed>>
  BY Zenon DEF GenerateId, OobAccepts
<1>2. TypeInv /\ client \in [Client -> Clients] /\ client[c] \in Clients
  BY Zenon DEF RaceInv, TypeInv
<1>3. NextId \in Nat
  <2>1. counters[thread.pc] \in Nat /\ thread.loaded \in Nat
    BY <1>1, Numbers, Zenon
  <2>2. thread.loaded + counters[thread.pc] \in Nat
    BY <2>1
  <2> QED
    BY <2>2, IncDec, Zenon DEF NextId
<1>4. client' = [client EXCEPT ![c] = k] /\ k \in Clients /\ k.phase = "oob"
  BY <1>1, <1>2, <1>3, Zenon DEF Clients, OobConnect
<1> HIDE DEF k
<1>5. client' \in [Client -> Clients] /\ Accepted' = Accepted \cup {c} /\ Left' = Left \ {c}
  BY <1>2, <1>4, ClientAt, Zenon
<1>6. c \notin Accepted /\ c \notin Left /\ ConnSlots' = ConnSlots
  BY <1>1, Zenon DEF Accepted, Left, ConnSlots, Connecting
<1>7. Left' = Left /\ Departed' = Departed
  BY <1>1, <1>5, <1>6, Zenon DEF Departed
<1>8. Cardinality(Accepted') = Cardinality(Accepted) + 1
  BY <1>5, <1>6, Numbers, CountAdd, Zenon
<1>9. thread' \in Threads /\ thread'.pc = "load" /\ final' = final
  BY <1>1, <1>3, Zenon DEF Threads
<1>10. TypeInv'
  BY <1>1, <1>2, <1>5, <1>9, Zenon DEF TypeInv
<1>11. OngoingInv'
  <2> DEFINE a == Cardinality(Accepted)
             o == counters.ongoing
  <2>1. o <= a /\ (final.pc = "store" => final.loaded # 0 /\ final.loaded <= a)
    BY Zenon DEF RaceInv, OngoingInv
  <2>2. a \in Nat /\ o \in Nat /\ final.loaded \in Nat
    BY Numbers, Zenon
  <2> HIDE DEF a, o
  <2>3. o <= a + 1 /\ o < a + 1 /\ (final.loaded <= a => final.loaded <= a + 1)
    BY <2>1, <2>2
  <2>4. thread'.pc # "store" /\ counters'.ongoing = o
    BY <1>1, <1>9, Zenon DEF o
  <2> QED
    BY <1>8, <1>9, <2>1, <2>3, <2>4, Zenon DEF OngoingInv, a
<1>12. TotalInv'
  <2> DEFINE a == Cardinality(Accepted)
             f == One(final.pc # "idle")
             t == counters.total
             n == Cardinality(ConnSlots)
  <2>1. One(thread.pc = "load") = 0 /\ One(thread'.pc = "load") = 1
    BY <1>1, <1>9, Zenon DEF One
  <2>2. t + n + f + 0 <= a
    BY <2>1, Zenon DEF RaceInv, TotalInv
  <2>3. a \in Nat /\ f \in Nat /\ t \in Nat /\ n \in Nat
    <3>1. f \in Nat
      BY DEF One
    <3> QED
      BY <3>1, Numbers, Zenon
  <2> HIDE DEF a, f, t, n
  <2>4. t + n + f + 1 <= a + 1
    BY <2>2, <2>3
  <2> QED
    BY <1>1, <1>6, <1>7, <1>8, <2>1, <2>4, Zenon DEF RaceInv, TotalInv, a, f, t, n
<1>13. LeaveInv'
  BY <1>1, <1>7, Zenon DEF RaceInv, LeaveInv
<1> QED
  BY <1>3, <1>5, <1>6, <1>8, <1>10, <1>11, <1>12, <1>13, Zenon DEF RaceInv

\* its slot is initialized and num_ongoing_connections loaded,
LEMMA LoadOngoingRace ==
  ASSUME Countable, RaceInv, LoadOngoing
  PROVE  RaceInv'
<1> DEFINE s == [slot[thread.id] EXCEPT !.phase = "oob"]
<1>1. /\ thread.pc = "load" /\ slot' = [slot EXCEPT ![thread.id].phase = "oob"]
      /\ thread' = [thread EXCEPT !.pc = "store", !.loaded = counters.ongoing]
      /\ UNCHANGED <<counters, final, client, mail, cached, term, done, failed>>
  BY Zenon DEF LoadOngoing
<1>2. TypeInv /\ thread \in Threads /\ slot \in [Slot -> Slots]
  BY Zenon DEF RaceInv, TypeInv
<1>3. thread.id \in Slot => s \in Slots
  BY <1>2, Zenon DEF Slots
<1>4. slot' = [slot EXCEPT ![thread.id] = s]
  BY <1>1, Zenon
<1> HIDE DEF s
<1>5. slot' \in [Slot -> Slots] /\ ConnSlots' \in SUBSET (ConnSlots \cup {thread.id})
  BY <1>2, <1>3, <1>4, SlotAt, Zenon
<1>6. Cardinality(ConnSlots') \in Nat /\ Cardinality(ConnSlots') <= Cardinality(ConnSlots) + 1
  BY <1>5, Numbers, CountSlots, Zenon
<1>7. Accepted' = Accepted /\ Left' = Left /\ Departed' = Departed
  BY <1>1, Zenon DEF Accepted, Left, Departed
<1>8. thread' \in Threads /\ thread'.pc = "store" /\ thread'.loaded = counters.ongoing
  BY <1>1, <1>2, Numbers, Zenon DEF Threads
<1>9. TypeInv'
  BY <1>1, <1>2, <1>5, <1>8, Zenon DEF TypeInv
<1>10. OngoingInv'
  BY <1>1, <1>7, <1>8, Zenon DEF RaceInv, OngoingInv
<1>11. TotalInv'
  <2> DEFINE a == Cardinality(Accepted)
             f == One(final.pc # "idle")
             t == counters.total
             n == Cardinality(ConnSlots)
             m == Cardinality(ConnSlots')
  <2>1. One(thread.pc = "load") = 1 /\ One(thread'.pc = "load") = 0
    BY <1>1, <1>8, Zenon DEF One
  <2>2. t + n + f + 1 <= a
    BY <2>1, Zenon DEF RaceInv, TotalInv
  <2>3. a \in Nat /\ f \in Nat /\ t \in Nat /\ n \in Nat /\ m \in Nat /\ m <= n + 1
    <3>1. f \in Nat
      BY DEF One
    <3> QED
      BY <1>6, <3>1, Numbers, Zenon
  <2> HIDE DEF a, f, t, n, m
  <2>4. t + m + f + 0 <= a
    BY <2>2, <2>3
  <2> QED
    BY <1>1, <1>7, <2>1, <2>4, Zenon DEF RaceInv, TotalInv, a, f, t, n, m
<1>12. LeaveInv'
  BY <1>1, <1>7, Zenon DEF RaceInv, LeaveInv
<1> QED
  BY <1>9, <1>10, <1>11, <1>12, Zenon DEF RaceInv

\* Steps that change the counters and where the threads are.
LEMMA SameClients ==
  ASSUME UNCHANGED <<slot, client, term>>
  PROVE  Accepted' = Accepted /\ Left' = Left /\ Departed' = Departed /\ ConnSlots' = ConnSlots
BY Zenon DEF Accepted, Left, Departed, ConnSlots, Connecting

\* and the counter is stored, one higher than the value that was loaded.
LEMMA StoreOngoingRace ==
  ASSUME Countable, RaceInv, StoreOngoing
  PROVE  RaceInv' /\ Inc(thread.loaded) = thread.loaded + 1
<1> DEFINE v == thread.loaded + 1
<1>1. /\ thread.pc = "store" /\ UNCHANGED <<slot, final, client, mail, cached, term, done, failed>>
      /\ counters' = [counters EXCEPT !.ongoing = Inc(thread.loaded)]
      /\ thread' = [pc |-> IF done THEN "exit" ELSE "accept", loaded |-> 0, id |-> 0]
  BY Zenon DEF StoreOngoing
<1>2. thread.loaded < Cardinality(Accepted)
  BY <1>1, Zenon DEF RaceInv, OngoingInv
<1>3. v \in Nat /\ v <= Cardinality(Accepted) /\ v <= SizeMax /\ 0 \in Nat
  BY <1>2, Numbers
<1>4. Inc(thread.loaded) = v
  BY <1>3, Numbers, IncDec, Zenon
<1> HIDE DEF v
<1>5. /\ counters' \in Counters /\ counters'.ongoing = v /\ counters'.total = counters.total
      /\ counters'.connected = counters.connected
  BY <1>1, <1>3, <1>4, Zenon DEF RaceInv, TypeInv, Counters
<1>6. thread' \in Threads /\ thread'.pc \in {"exit", "accept"}
  BY <1>1, <1>3, Zenon DEF Threads
<1>7. TypeInv'
  BY <1>1, <1>5, <1>6, Zenon DEF RaceInv, TypeInv
<1>8. Accepted' = Accepted /\ Left' = Left /\ Departed' = Departed /\ ConnSlots' = ConnSlots
  BY <1>1, SameClients, Zenon
<1>9. OngoingInv'
  BY <1>1, <1>3, <1>5, <1>6, <1>8, Zenon DEF RaceInv, OngoingInv
<1>10. TotalInv'
  <2>1. One(thread.pc = "load") = 0 /\ One(thread'.pc = "load") = 0
    BY <1>1, <1>6, Zenon DEF One
  <2> QED
    BY <1>1, <1>5, <1>8, <2>1, Zenon DEF RaceInv, TotalInv
<1>11. LeaveInv'
  BY <1>1, <1>5, <1>8, Zenon DEF RaceInv, LeaveInv
<1> QED
  BY <1>4, <1>7, <1>9, <1>10, <1>11, Zenon DEF RaceInv, v

\* finalize_client_connection, up to the load of num_ongoing_connections, which
\* is not zero,
LEMMA FinalizeRace ==
  ASSUME Countable, RaceInv, NEW i \in Slot, Finalize(i)
  PROVE  RaceInv'
<1> DEFINE s == [slot[i] EXCEPT !.phase = "done"]
<1>1. /\ final.pc = "idle" /\ i \in ConnSlots
      /\ slot' = [slot EXCEPT ![i].phase = "done"]
      /\ final' = [pc |-> "store", loaded |-> counters.ongoing]
      /\ UNCHANGED <<counters, thread, client, mail, cached, term, done, failed>>
  BY Zenon DEF Finalize, Reached, ConnSlots
<1>2. counters.ongoing # 0
  <2> DEFINE S == {j \in Slot : j < i /\ Connecting(j)}
  <2>1. Cardinality(S) < counters.ongoing
    BY Zenon DEF Finalize, Reached
  <2>2. S \in SUBSET Slot
    BY Zenon
  <2> HIDE DEF S
  <2>3. Cardinality(S) \in Nat /\ counters.ongoing \in Nat
    BY <2>2, CountSlots, Numbers, Zenon
  <2> QED
    BY <2>1, <2>3
<1>3. TypeInv /\ slot \in [Slot -> Slots] /\ slot[i] \in Slots
  BY Zenon DEF RaceInv, TypeInv
<1>4. s \in Slots /\ s.phase = "done" /\ slot' = [slot EXCEPT ![i] = s]
  BY <1>1, <1>3, Zenon DEF Slots
<1> HIDE DEF s
<1>5. slot' \in [Slot -> Slots] /\ ConnSlots' = ConnSlots \ {i}
  BY <1>3, <1>4, SlotAt, Zenon
<1>6. Cardinality(ConnSlots') = Cardinality(ConnSlots) - 1 /\ Cardinality(ConnSlots') \in Nat
  BY <1>1, <1>5, Numbers, CountSlots, Zenon
<1>7. Accepted' = Accepted /\ Left' = Left /\ Departed' = Departed
  BY <1>1, Zenon DEF Accepted, Left, Departed
<1>8. final' \in Finals /\ final'.pc = "store" /\ final'.loaded = counters.ongoing
  BY <1>1, Numbers, Zenon DEF Finals
<1>9. TypeInv'
  BY <1>1, <1>3, <1>5, <1>8, Zenon DEF TypeInv
<1>10. OngoingInv'
  BY <1>1, <1>2, <1>7, <1>8, Zenon DEF RaceInv, OngoingInv
<1>11. TotalInv'
  <2> DEFINE a == Cardinality(Accepted)
             l == One(thread.pc = "load")
             t == counters.total
             n == Cardinality(ConnSlots)
             m == Cardinality(ConnSlots')
  <2>1. One(final.pc # "idle") = 0 /\ One(final'.pc # "idle") = 1
    BY <1>1, <1>8, Zenon DEF One
  <2>2. t + n + 0 + l <= a
    BY <2>1, Zenon DEF RaceInv, TotalInv
  <2>3. a \in Nat /\ l \in Nat /\ t \in Nat /\ n \in Nat /\ m \in Nat /\ m = n - 1
    <3>1. l \in Nat
      BY DEF One
    <3> QED
      BY <1>6, <3>1, Numbers, Zenon
  <2> HIDE DEF a, l, t, n, m
  <2>4. t + m + 1 + l <= a
    BY <2>2, <2>3
  <2> QED
    BY <1>1, <1>7, <2>1, <2>4, Zenon DEF RaceInv, TotalInv, a, l, t, n, m
<1>12. LeaveInv'
  BY <1>1, <1>7, Zenon DEF RaceInv, LeaveInv
<1> QED
  BY <1>9, <1>10, <1>11, <1>12, Zenon DEF RaceInv

\* its store, one lower,
LEMMA FinalizeOngoingRace ==
  ASSUME Countable, RaceInv, FinalizeOngoing
  PROVE  RaceInv' /\ Dec(final.loaded) = final.loaded - 1 /\ final.loaded # 0
<1> DEFINE v == final.loaded - 1
<1>1. /\ final.pc = "store" /\ UNCHANGED <<slot, thread, client, mail, cached, term, done, failed>>
      /\ counters' = [counters EXCEPT !.ongoing = Dec(final.loaded)]
      /\ final' = [pc |-> "count", loaded |-> 0]
  BY Zenon DEF FinalizeOngoing
<1>2. final.loaded # 0 /\ final.loaded <= Cardinality(Accepted)
  BY <1>1, Zenon DEF RaceInv, OngoingInv
<1>3. v \in Nat /\ v < Cardinality(Accepted) /\ v <= Cardinality(Accepted)
      /\ final.loaded <= SizeMax /\ 0 \in Nat
  BY <1>2, Numbers
<1>4. Dec(final.loaded) = v
  BY <1>2, <1>3, Numbers, IncDec, Zenon
<1> HIDE DEF v
<1>5. /\ counters' \in Counters /\ counters'.ongoing = v /\ counters'.total = counters.total
      /\ counters'.connected = counters.connected
  BY <1>1, <1>3, <1>4, Zenon DEF RaceInv, TypeInv, Counters
<1>6. final' \in Finals /\ final'.pc = "count"
  BY <1>1, <1>3, Zenon DEF Finals
<1>7. TypeInv'
  BY <1>1, <1>5, <1>6, Zenon DEF RaceInv, TypeInv
<1>8. Accepted' = Accepted /\ Left' = Left /\ Departed' = Departed /\ ConnSlots' = ConnSlots
  BY <1>1, SameClients, Zenon
<1>9. OngoingInv'
  BY <1>1, <1>3, <1>5, <1>6, <1>8, Zenon DEF RaceInv, OngoingInv
<1>10. TotalInv'
  <2>1. One(final.pc # "idle") = 1 /\ One(final'.pc # "idle") = 1
    BY <1>1, <1>6, Zenon DEF One
  <2> QED
    BY <1>1, <1>5, <1>8, <2>1, Zenon DEF RaceInv, TotalInv
<1>11. LeaveInv'
  BY <1>1, <1>5, <1>8, Zenon DEF RaceInv, LeaveInv
<1> QED
  BY <1>2, <1>4, <1>7, <1>9, <1>10, <1>11, Zenon DEF RaceInv, v

\* and the two other counters.  The cache is sent when it is the last connection.
LEMMA FinalizeCountersRace ==
  ASSUME Countable, RaceInv, FinalizeCounters
  PROVE  /\ RaceInv' /\ counters'.total = counters.total + 1
         /\ counters'.ongoing = counters.ongoing
<1> DEFINE cnt == [counters EXCEPT !.connected = Inc(counters.connected), !.total = Inc(counters.total)]
           a == Cardinality(Accepted)
           l == One(thread.pc = "load")
           t == counters.total
           n == Cardinality(ConnSlots)
           o == counters.connected
           d == Cardinality(Departed)
<1>1. /\ final.pc = "count" /\ UNCHANGED <<slot, thread, client, mail, term, done, failed>>
      /\ counters' = cnt
      /\ cached' = cached \cup (IF CacheComplete(cnt) THEN Receivers(cnt.connected) ELSE {})
      /\ final' = [pc |-> "idle", loaded |-> 0]
  BY Zenon DEF FinalizeCounters
<1>2. a \in Nat /\ l \in Nat /\ t \in Nat /\ n \in Nat /\ o \in Nat /\ d \in Nat
      /\ Cardinality(Client) \in Nat /\ a <= Cardinality(Client)
      /\ Cardinality(Client) <= SizeMax /\ SizeMax \in Nat
  <2>1. l \in Nat
    BY DEF One
  <2> QED
    BY <2>1, Numbers, Zenon
<1>3. t + n + 1 + l <= a /\ o + d = t
  BY <1>1, Zenon DEF RaceInv, TotalInv, One
<1> HIDE DEF cnt, a, l, t, n, o, d
<1>4. /\ t + 1 <= Cardinality(Client) /\ t + 1 <= SizeMax /\ o + 1 <= SizeMax
      /\ t + 1 \in Nat /\ o + 1 \in Nat /\ (t + 1) + n + 0 + l <= a /\ (o + 1) + d = t + 1
      /\ t # Cardinality(Client) /\ 0 \in Nat
  BY <1>2, <1>3
<1>5. Inc(counters.total) = t + 1 /\ Inc(counters.connected) = o + 1
  BY <1>2, <1>4, IncDec, Zenon DEF t, o
<1>6. /\ cnt \in Counters /\ cnt.total = t + 1 /\ cnt.connected = o + 1
      /\ cnt.ongoing = counters.ongoing
  BY <1>4, <1>5, Zenon DEF RaceInv, TypeInv, Counters, cnt
<1>7. final' \in Finals /\ final'.pc = "idle"
  BY <1>1, <1>4, Zenon DEF Finals
<1>8. cached = {}
  BY <1>4, Zenon DEF RaceInv, LeaveInv, t
<1>9. cached' \in SUBSET Client /\ (cached' # {} => cnt.total = Cardinality(Client))
  <2>1. Receivers(cnt.connected) \in SUBSET Client
    BY Zenon DEF Receivers
  <2> QED
    BY <1>1, <1>8, <2>1, Zenon DEF CacheComplete
<1>10. TypeInv'
  BY <1>1, <1>6, <1>7, <1>9, Zenon DEF RaceInv, TypeInv
<1>11. Accepted' = Accepted /\ Left' = Left /\ Departed' = Departed /\ ConnSlots' = ConnSlots
  BY <1>1, SameClients, Zenon
<1>12. OngoingInv'
  BY <1>1, <1>6, <1>7, <1>11, Zenon DEF RaceInv, OngoingInv
<1>13. TotalInv'
  <2>1. One(final'.pc # "idle") = 0
    BY <1>7, Zenon DEF One
  <2> QED
    BY <1>1, <1>4, <1>6, <1>11, <2>1, Zenon DEF TotalInv, a, l, n, d
<1>14. LeaveInv'
  BY <1>1, <1>8, <1>9, <1>11, Zenon DEF RaceInv, LeaveInv
<1> QED
  BY <1>1, <1>6, <1>10, <1>12, <1>13, <1>14, Zenon DEF RaceInv, t

\* term_msg_cb: a client that leaves is counted, and the last one leaves once.
LEMMA TermMsgRace ==
  ASSUME Countable, RaceInv, NEW c \in Client, TermMsg(c)
  PROVE  /\ RaceInv' /\ counters'.total = counters.total
         /\ counters'.ongoing = counters.ongoing
<1> DEFINE cnt == [counters EXCEPT !.connected = Dec(counters.connected)]
           j == client[c].id
           s == [slot[j] EXCEPT !.phase = "gone"]
           t == counters.total
           o == counters.connected
           d == Cardinality(Departed)
<1>1. /\ c \in term /\ term' = term \ {c} /\ slot' = [slot EXCEPT ![j].phase = "gone"]
      /\ counters' = cnt /\ done' = (done \/ LastLeft(cnt))
      /\ failed' = failed \cup (IF counters.connected = 0 THEN {"connected"} ELSE {})
                          \cup (IF done /\ LastLeft(cnt) THEN {"done_again"} ELSE {})
      /\ UNCHANGED <<thread, final, client, mail, cached>>
  BY Zenon DEF TermMsg
<1>2. c \in Left /\ c \in cached /\ c \notin Departed
  BY <1>1, Zenon DEF RaceInv, LeaveInv, Departed
<1>3. Left' = Left /\ Accepted' = Accepted /\ Departed' = Departed \cup {c}
  BY <1>1, <1>2, Zenon DEF Left, Accepted, Departed
<1>4. Cardinality(Departed') = d + 1 /\ Departed' \in SUBSET Client
  BY <1>2, <1>3, Numbers, CountAdd, Zenon
<1>5. t = Cardinality(Client) /\ o + d = t /\ ~done
  BY <1>2, Zenon DEF RaceInv, LeaveInv, TotalInv
<1>6. d + 1 <= Cardinality(Client) /\ d \in Nat /\ t \in Nat /\ o \in Nat /\ t <= SizeMax
  <2>1. Cardinality(Departed') <= Cardinality(Client)
    BY <1>4, CountClients, Zenon
  <2> QED
    BY <1>4, <1>5, <2>1, Numbers, Zenon
<1> HIDE DEF cnt, s, t, o, d
<1>7. o # 0 /\ o <= SizeMax /\ o - 1 \in Nat /\ (o - 1) + (d + 1) = t
  BY <1>5, <1>6, Numbers
<1>8. Dec(counters.connected) = o - 1
  BY <1>6, <1>7, IncDec, Zenon DEF o
<1>9. /\ cnt \in Counters /\ cnt.connected = o - 1 /\ cnt.total = t
      /\ cnt.ongoing = counters.ongoing
  BY <1>7, <1>8, Zenon DEF RaceInv, TypeInv, Counters, cnt, t
<1>10. TypeInv /\ slot \in [Slot -> Slots]
  BY Zenon DEF RaceInv, TypeInv
<1>11. j \in Slot => s \in Slots /\ s.phase = "gone"
  BY <1>10, ZenonT(30) DEF Slots, s
<1>12. slot' = [slot EXCEPT ![j] = s]
  BY <1>1, Zenon DEF s
<1>13. slot' \in [Slot -> Slots] /\ ConnSlots' \in SUBSET ConnSlots
  <2>1. slot' \in [Slot -> Slots] /\ \A i \in Slot : slot'[i] = IF i = j THEN s ELSE slot[i]
    BY <1>10, <1>11, <1>12, SlotAt, Zenon
  <2>2. \A i \in Slot : slot'[i].phase \in {"oob", "ucx"} => slot[i].phase \in {"oob", "ucx"}
    BY <1>11, <2>1, Zenon
  <2> QED
    BY <2>1, <2>2, Zenon DEF ConnSlots, Connecting
<1>14. done' \in BOOLEAN /\ (done' => cnt.connected = 0) /\ failed' = {}
  <2>1. done' <=> LastLeft(cnt)
    BY <1>1, <1>5, Zenon
  <2>2. done' \in BOOLEAN
    BY <1>1, Zenon DEF LastLeft
  <2>3. failed' = {}
    BY <1>1, <1>5, <1>7, Zenon DEF RaceInv, LeaveInv, o
  <2> QED
    BY <2>1, <2>2, <2>3, Zenon DEF LastLeft
<1>15. TypeInv'
  BY <1>1, <1>9, <1>10, <1>13, <1>14, Zenon DEF TypeInv
<1>16. OngoingInv'
  BY <1>1, <1>3, <1>9, Zenon DEF RaceInv, OngoingInv
<1>17. TotalInv'
  <2> DEFINE a == Cardinality(Accepted)
             f == One(final.pc # "idle")
             l == One(thread.pc = "load")
             n == Cardinality(ConnSlots)
             m == Cardinality(ConnSlots')
  <2>1. t + n + f + l <= a
    BY Zenon DEF RaceInv, TotalInv, t
  <2>2. f \in Nat /\ l \in Nat
    BY DEF One
  <2>3. n \in Nat /\ m \in Nat /\ m <= n /\ a \in Nat
    BY <1>13, Numbers, CountSlots, Zenon
  <2> HIDE DEF f, l, n, m, a
  <2>4. t + m + f + l <= a
    BY <1>6, <2>1, <2>2, <2>3
  <2> QED
    BY <1>1, <1>3, <1>4, <1>7, <1>9, <2>4, Zenon DEF TotalInv, f, l, m, a
<1>18. LeaveInv'
  <2>1. done' => Departed' = Client
    <3>1. done' => d + 1 = Cardinality(Client)
      <4>1. done' => o - 1 = 0
        BY <1>9, <1>14, Zenon
      <4> QED
        BY <1>5, <1>6, <1>7, <4>1
    <3> QED
      BY <1>4, <3>1, CountClients, Zenon
  <2>2. \A e \in term' : e \in Left'
    BY <1>1, <1>3, Zenon DEF RaceInv, LeaveInv
  <2>3. \A e \in Left' : e \in cached'
    BY <1>1, <1>3, Zenon DEF RaceInv, LeaveInv
  <2>4. counters'.total = Cardinality(Client)
    BY <1>1, <1>5, <1>9, Zenon
  <2> QED
    BY <1>14, <2>1, <2>2, <2>3, <2>4, Zenon DEF LeaveInv
<1> QED
  BY <1>1, <1>9, <1>15, <1>16, <1>17, <1>18, Zenon DEF RaceInv, t

-----------------------------------------------------------------------------
(* As long as no acceptance overlapped a finalization *)

\* The IDs in use are slots.
LEMMA IdsAreSlots ==
  ASSUME Countable, RaceInv, IdInv, NEW c \in Accepted
  PROVE  c \in Client /\ client[c].id \in Slot
<1>1. client[c].id \in 0..(Cardinality(Accepted) - 1)
  BY Zenon DEF IdInv
<1>2. c \in Client /\ Accepted \in SUBSET Client
  BY Zenon DEF Accepted
<1>3. Cardinality(Accepted) \in Nat /\ Cardinality(Client) \in Nat
      /\ Cardinality(Accepted) <= Cardinality(Client)
  BY <1>2, CountClients, Zenon
<1> QED
  BY <1>1, <1>2, <1>3 DEF Slot

\* A slot that is not empty is that of a client.
LEMMA Owner ==
  ASSUME IdInv, NEW i \in Slot, slot[i].phase # "none" \/ mail[i] # <<>>
  PROVE  \E c \in Accepted : client[c].id = i
<1>1. NoSlot.phase = "none"
  BY Zenon DEF NoSlot
<1> QED
  BY <1>1, Zenon DEF IdInv

\* The server changes the slot of c to s, and the messages on their way to it at
\* most.  That concerns no other client.
LEMMA OrderSlot ==
  ASSUME Countable, RaceInv, OrderInv, NEW c \in Accepted, NEW s,
         slot' = [slot EXCEPT ![client[c].id] = s], UNCHANGED client,
         \A i \in Slot : i # client[c].id => mail'[i] = mail[i],
         thread'.pc # "load" \/ thread' = thread,
         Data(c, s, mail'[client[c].id], client[c].sent)
  PROVE  Accepted' = Accepted /\ IdInv' /\ DataInv'
<1> DEFINE i == client[c].id
<1>1. Accepted' = Accepted /\ IdInv /\ DataInv
  BY Zenon DEF Accepted, OrderInv
<1>2. slot \in [Slot -> Slots] /\ i \in Slot /\ \A d \in Accepted : client[d].id \in Slot
  BY <1>1, IdsAreSlots, Zenon DEF RaceInv, TypeInv
<1>3. \A j \in Slot : slot'[j] = IF j = i THEN s ELSE slot[j]
  BY <1>2, Zenon
<1>4. \A d \in Accepted : client[d].id = i => d = c
  BY <1>1, Zenon DEF IdInv
<1>5. IdInv'
  <2>1. \A j \in Slot : \/ slot'[j] = NoSlot /\ mail'[j] = <<>>
                        \/ \E d \in Accepted : client[d].id = j
    BY <1>1, <1>3, Zenon DEF IdInv
  <2>2. thread'.pc = "load" => \E d \in Accepted : client[d].id = thread'.id
    BY <1>1, Zenon DEF IdInv
  <2> QED
    BY <1>1, <2>1, <2>2, Zenon DEF IdInv
<1>6. DataInv'
  <2>1. ASSUME NEW d \in Accepted
        PROVE  Data(d, slot'[client[d].id], mail'[client[d].id], client[d].sent)
    <3>1. CASE d = c
      BY <1>2, <1>3, <3>1, Zenon
    <3>2. CASE d # c
      <4>1. client[d].id # i /\ client[d].id \in Slot
        BY <1>2, <1>4, <3>2, Zenon
      <4>2. mail'[client[d].id] = mail[client[d].id] /\ slot'[client[d].id] = slot[client[d].id]
        BY <1>3, <4>1, Zenon
      <4> QED
        BY <1>1, <4>2, Zenon DEF DataInv
    <3> QED
      BY <3>1, <3>2, Zenon
  <2> QED
    BY <1>1, <2>1, Zenon DEF DataInv
<1> QED
  BY <1>1, <1>5, <1>6, Zenon

\* A step that changes no counter leaves the counts as they are.
LEMMA OrderCounts ==
  ASSUME OrderInv, UNCHANGED <<counters, thread, final>>, Accepted' = Accepted
  PROVE  ApartInv' /\ CountInv'
<1>1. counters' = counters /\ thread' = thread /\ final' = final
  OBVIOUS
<1> QED
  BY <1>1, Zenon DEF OrderInv, ApartInv, CountInv

\* A step that changes the slot of c, not what was received in it.
LEMMA OrderPhase ==
  ASSUME Countable, RaceInv, OrderInv, NEW c \in Accepted, NEW s,
         slot' = [slot EXCEPT ![client[c].id] = s], UNCHANGED <<client, mail>>,
         thread'.pc # "load" \/ thread' = thread,
         s.got = slot[client[c].id].got,
         s.phase \in {"ucx", "done"} =>
           slot[client[c].id].phase \in {"ucx", "done"} \/ Len(s.got) = Steps
  PROVE  Accepted' = Accepted /\ IdInv' /\ DataInv'
<1>1. Data(c, slot[client[c].id], mail[client[c].id], client[c].sent)
  BY Zenon DEF OrderInv, DataInv
<1>2. Data(c, s, mail'[client[c].id], client[c].sent)
  BY <1>1, Zenon DEF Data
<1> QED
  BY <1>2, OrderSlot, Zenon

\* oob_server_ucx_client_connection_step1, 2 and 3,
LEMMA PostRecvOrder ==
  ASSUME Countable, RaceInv, OrderInv, NEW i \in Slot, PostRecv(i)
  PROVE  OrderInv'
<1> DEFINE s == [slot[i] EXCEPT !.posted = TRUE]
<1>1. /\ slot[i].phase \in {"oob", "ucx"} /\ slot' = [slot EXCEPT ![i].posted = TRUE]
      /\ UNCHANGED <<counters, thread, final, client, mail>>
  BY Zenon DEF PostRecv, Reached, Connecting
<1>2. PICK c \in Accepted : client[c].id = i
  BY <1>1, Owner, Zenon DEF OrderInv
<1>3. slot[i] \in Slots
  BY Zenon DEF RaceInv, TypeInv
<1>4. s.got = slot[i].got /\ s.phase = slot[i].phase /\ slot' = [slot EXCEPT ![i] = s]
  BY <1>1, <1>3, Zenon DEF Slots
<1> HIDE DEF s
<1>5. Accepted' = Accepted /\ IdInv' /\ DataInv'
  BY <1>1, <1>2, <1>4, OrderPhase, Zenon
<1> QED
  BY <1>1, <1>5, OrderCounts, Zenon DEF OrderInv

\* oob_server_ucx_client_connection_step4, after the third message,
LEMMA SendInfoOrder ==
  ASSUME Countable, RaceInv, OrderInv, NEW i \in Slot, SendInfo(i)
  PROVE  OrderInv'
<1> DEFINE s == [slot[i] EXCEPT !.phase = "ucx", !.step4 = TRUE]
<1>1. /\ slot[i].phase \in {"oob", "ucx"} /\ Len(slot[i].got) = Steps
      /\ slot' = [slot EXCEPT ![i].phase = "ucx", ![i].step4 = TRUE]
      /\ UNCHANGED <<counters, thread, final, client, mail>>
  BY Zenon DEF SendInfo, Reached, Connecting
<1>2. PICK c \in Accepted : client[c].id = i
  BY <1>1, Owner, Zenon DEF OrderInv
<1>3. slot[i] \in Slots /\ slot \in [Slot -> Slots]
  BY Zenon DEF RaceInv, TypeInv
<1>4. s.got = slot[i].got /\ slot' = [slot EXCEPT ![i] = s]
  BY <1>1, <1>3, Zenon DEF Slots
<1> HIDE DEF s
<1>5. Len(s.got) = Steps
  BY <1>1, <1>4, Zenon
<1>6. Accepted' = Accepted /\ IdInv' /\ DataInv'
  BY <1>1, <1>2, <1>4, <1>5, OrderPhase, Zenon
<1> QED
  BY <1>1, <1>6, OrderCounts, Zenon DEF OrderInv

\* and oob_recv_generic_handler: it is the owner's next message that is received.
LEMMA UcxRecvOrder ==
  ASSUME Countable, RaceInv, OrderInv, NEW i \in Slot, UcxRecv(i)
  PROVE  OrderInv'
<1> DEFINE m == mail[i]
           a == Append(slot[i].got, Head(m))
           s == [slot[i] EXCEPT !.posted = FALSE, !.got = a]
<1>1. m # <<>> /\ mail' = [mail EXCEPT ![i] = Tail(m)]
      /\ UNCHANGED <<counters, thread, final, client>>
  BY Zenon DEF UcxRecv
<1>2. PICK c \in Accepted : client[c].id = i
  BY <1>1, Owner, Zenon DEF OrderInv
<1>3. slot \in [Slot -> Slots] /\ slot[i] \in Slots /\ c \in Client
      /\ client[c].sent \in 0..Steps /\ mail \in [Slot -> Seq(Client \X Nat)]
  BY Zenon DEF RaceInv, TypeInv, Accepted, Clients
<1>4. Data(c, slot[i], m, client[c].sent)
  BY <1>2, Zenon DEF OrderInv, DataInv
<1>5. PICK g \in 0..client[c].sent : slot[i].got = Msgs(c, 0, g) /\ m = Msgs(c, g, client[c].sent)
  BY <1>4, Zenon DEF Data
<1>6. g \in Nat /\ client[c].sent \in Nat /\ g <= client[c].sent /\ client[c].sent <= 3 /\ 0 <= g
      /\ 0 \in Nat
  BY <1>3, <1>5 DEF Steps
<1>7. /\ g + 1 <= client[c].sent /\ Head(m) = <<c, g + 1>>
      /\ Tail(m) = Msgs(c, g + 1, client[c].sent)
  BY <1>1, <1>3, <1>5, <1>6, MsgsHead, ZenonT(30)
<1>8. a = Msgs(c, 0, g + 1)
  BY <1>3, <1>5, <1>6, <1>7, MsgsAppend, Zenon
<1>9. g + 1 \in 0..client[c].sent
  BY <1>6, <1>7
<1>10. slot' = [slot EXCEPT ![i] = s]
  BY <1>3, Zenon DEF UcxRecv, Slots
<1> HIDE DEF a
<1>11. s.phase = slot[i].phase /\ s.got = a
  BY <1>3, Zenon DEF Slots
<1> HIDE DEF s
<1>12. slot[i].phase \notin {"ucx", "done"}
  <2>1. Len(slot[i].got) = g - 0
    BY <1>3, <1>5, <1>6, MsgsSeq, Zenon
  <2>2. Len(slot[i].got) # Steps
    BY <2>1, <1>6, <1>7 DEF Steps
  <2> QED
    BY <2>2, <1>4, Zenon DEF Data
<1>13. Data(c, s, mail'[i], client[c].sent)
  <2>1. mail'[i] = Tail(m)
    BY <1>1, <1>3, Zenon
  <2> QED
    BY <2>1, <1>7, <1>8, <1>9, <1>11, <1>12, Zenon DEF Data
<1>14. \A j \in Slot : j # i => mail'[j] = mail[j]
  BY <1>1, <1>3, Zenon
<1>15. Accepted' = Accepted /\ IdInv' /\ DataInv'
  BY <1>1, <1>2, <1>10, <1>13, <1>14, OrderSlot, Zenon
<1> QED
  BY <1>1, <1>15, OrderCounts, Zenon DEF OrderInv

\* A client that was told its ID changes to k, and what is on its way from it at
\* most.  That changes nothing at the server.
LEMMA OrderClient ==
  ASSUME Countable, RaceInv, OrderInv, NEW c \in Accepted, NEW k \in Clients,
         client' = [client EXCEPT ![c] = k], k.phase # "init", k.id = client[c].id,
         \A i \in Slot : i # client[c].id => mail'[i] = mail[i],
         UNCHANGED <<counters, slot, thread, final>>,
         Data(c, slot[client[c].id], mail'[client[c].id], k.sent)
  PROVE  OrderInv'
<1>1. TypeInv /\ c \in Client /\ Accepted \subseteq Client /\ IdInv /\ DataInv
  BY Zenon DEF RaceInv, Accepted, OrderInv
<1>2. /\ \A d \in Client : client'[d] = IF d = c THEN k ELSE client[d]
      /\ Accepted' = Accepted \cup {c}
  BY <1>1, ClientAt, Zenon
<1>3. Accepted' = Accepted /\ slot' = slot /\ thread' = thread
  BY <1>2, Zenon
<1>4. \A d \in Accepted : client'[d].id = client[d].id
  BY <1>1, <1>2, Zenon
<1>5. IdInv'
  <2>1. \A i \in Slot : \/ slot'[i] = NoSlot /\ mail'[i] = <<>>
                        \/ \E d \in Accepted' : client'[d].id = i
    <3> SUFFICES ASSUME NEW i \in Slot
                 PROVE  \/ slot'[i] = NoSlot /\ mail'[i] = <<>>
                        \/ \E d \in Accepted' : client'[d].id = i
      OBVIOUS
    <3>1. CASE i = client[c].id
      BY <1>3, <1>4, <3>1, Zenon
    <3>2. CASE i # client[c].id
      <4>1. (slot[i] = NoSlot /\ mail[i] = <<>>) \/ \E d \in Accepted : client[d].id = i
        BY <1>1, Zenon DEF IdInv
      <4> QED
        BY <1>3, <1>4, <3>2, <4>1, Zenon
    <3> QED
      BY <3>1, <3>2, Zenon
  <2>2. \A d \in Accepted' : client'[d].id \in 0..(Cardinality(Accepted') - 1)
    BY <1>1, <1>3, <1>4, Zenon DEF IdInv
  <2>3. \A d, e \in Accepted' : client'[d].id = client'[e].id => d = e
    <3>1. \A d, e \in Accepted : client[d].id = client[e].id => d = e
      BY <1>1, Zenon DEF IdInv
    <3> SUFFICES ASSUME NEW d \in Accepted, NEW e \in Accepted, client'[d].id = client'[e].id
                 PROVE  d = e
      BY <1>3, Zenon
    <3>2. client[d].id = client[e].id
      BY <1>4, Zenon
    <3> QED
      BY <3>1, <3>2, Zenon
  <2>4. thread'.pc = "load" => \E d \in Accepted' : client'[d].id = thread'.id
    BY <1>1, <1>3, <1>4, Zenon DEF IdInv
  <2> QED
    BY <2>1, <2>2, <2>3, <2>4, Zenon DEF IdInv
<1>6. DataInv'
  <2>1. ASSUME NEW d \in Accepted
        PROVE  Data(d, slot[client[d].id], mail'[client[d].id], client'[d].sent)
    <3>1. CASE d = c
      BY <1>1, <1>2, <3>1, Zenon
    <3>2. CASE d # c
      <4>1. client[d].id # client[c].id
        BY <1>1, <3>2, Zenon DEF IdInv
      <4>2. mail'[client[d].id] = mail[client[d].id]
        BY <1>1, <4>1, IdsAreSlots, Zenon
      <4>3. client'[d] = client[d]
        BY <1>1, <1>2, <3>2, Zenon
      <4> QED
        BY <1>1, <4>2, <4>3, Zenon DEF DataInv
    <3> QED
      BY <3>1, <3>2, Zenon
  <2> QED
    BY <1>3, <1>4, <2>1, Zenon DEF DataInv
<1> QED
  BY <1>3, <1>5, <1>6, OrderCounts, Zenon DEF OrderInv

\* client_ucx_bootstrap_step1, 2 and 3,
LEMMA ClientSendOrder ==
  ASSUME Countable, RaceInv, OrderInv, NEW c \in Client, ClientSend(c)
  PROVE  OrderInv'
<1> DEFINE i == client[c].id
           b == client[c].sent
           n == b + 1
           k == [client[c] EXCEPT !.sent = n]
           m == mail[i]
           a == Append(m, <<c, b + 1>>)
<1>1. /\ client[c].phase = "oob" /\ b < Steps
      /\ client' = [client EXCEPT ![c].sent = @ + 1]
      /\ mail' = [mail EXCEPT ![i] = a]
      /\ UNCHANGED <<counters, slot, thread, final>>
  BY Zenon DEF ClientSend
<1>2. /\ client \in [Client -> Clients] /\ client[c] \in Clients /\ c \in Accepted
      /\ mail \in [Slot -> Seq(Client \X Nat)] /\ IdInv
  BY <1>1, Zenon DEF RaceInv, TypeInv, Accepted, OrderInv
<1>3. i \in Slot
  BY <1>2, IdsAreSlots, Zenon
<1>4. b \in 0..Steps
  BY <1>2, Zenon DEF Clients
<1>5. b \in Nat /\ n \in 0..Steps
  BY <1>1, <1>4 DEF Steps
<1>6. client' = [client EXCEPT ![c] = k]
  BY <1>1, <1>2, Zenon DEF Clients
<1>7. Data(c, slot[i], m, b)
  BY <1>2, Zenon DEF OrderInv, DataInv
<1>8. PICK g \in 0..b : slot[i].got = Msgs(c, 0, g) /\ m = Msgs(c, g, b)
  BY <1>7, Zenon DEF Data
<1>9. g \in Nat /\ g <= b /\ n \in Nat /\ g <= n /\ g \in 0..n
  BY <1>5, <1>8
<1>10. a = Msgs(c, g, n)
  BY <1>5, <1>8, <1>9, MsgsAppend, Zenon
<1> HIDE DEF n, a
<1>11. k \in Clients /\ k.phase = "oob" /\ k.id = i /\ k.sent = n
  BY <1>1, <1>2, <1>5, Zenon DEF Clients
<1> HIDE DEF k
<1>12. mail'[i] = a /\ \A j \in Slot : j # i => mail'[j] = mail[j]
  BY <1>1, <1>2, <1>3, Zenon
<1>13. Data(c, slot[i], mail'[i], k.sent)
  BY <1>7, <1>8, <1>9, <1>10, <1>11, <1>12, Zenon DEF Data
<1> QED
  BY <1>1, <1>2, <1>6, <1>11, <1>12, <1>13, OrderClient, Zenon

\* and the two ends of a client: it is connected, or it leaves.
LEMMA ClientPhaseOrder ==
  ASSUME Countable, RaceInv, OrderInv, NEW c \in Client, ClientReady(c) \/ ClientFini(c)
  PROVE  OrderInv'
<1>1. PICK p \in {"ready", "left"} : client' = [client EXCEPT ![c].phase = p]
  BY Zenon DEF ClientReady, ClientFini
<1> DEFINE k == [client[c] EXCEPT !.phase = p]
<1>2. client[c].phase # "init" /\ UNCHANGED <<counters, slot, thread, final, mail>>
  BY Zenon DEF ClientReady, ClientFini, UcxConnectDone
<1>3. client \in [Client -> Clients] /\ client[c] \in Clients /\ c \in Accepted
  BY <1>2, Zenon DEF RaceInv, TypeInv, Accepted
<1>4. /\ client' = [client EXCEPT ![c] = k] /\ k \in Clients /\ k.phase = p
      /\ k.id = client[c].id /\ k.sent = client[c].sent
  BY <1>1, <1>3, Zenon DEF Clients
<1> HIDE DEF k
<1>5. Data(c, slot[client[c].id], mail[client[c].id], client[c].sent)
  BY <1>3, Zenon DEF OrderInv, DataInv
<1> QED
  BY <1>2, <1>3, <1>4, <1>5, OrderClient, Zenon

\* A step of the threads among themselves.
LEMMA OrderThreads ==
  ASSUME OrderInv, UNCHANGED <<slot, client, mail>>, thread'.pc # "load"
  PROVE  Accepted' = Accepted /\ IdInv' /\ DataInv'
<1>1. Accepted' = Accepted /\ slot' = slot /\ client' = client /\ mail' = mail
  BY Zenon DEF Accepted
<1>2. IdInv'
  <2>1. \A i \in Slot : \/ slot'[i] = NoSlot /\ mail'[i] = <<>>
                        \/ \E c \in Accepted' : client'[c].id = i
    BY <1>1, Zenon DEF OrderInv, IdInv
  <2>2. \A c \in Accepted' : client'[c].id \in 0..(Cardinality(Accepted') - 1)
    BY <1>1, Zenon DEF OrderInv, IdInv
  <2>3. \A c, d \in Accepted' : client'[c].id = client'[d].id => c = d
    <3>1. \A c, d \in Accepted : client[c].id = client[d].id => c = d
      BY Zenon DEF OrderInv, IdInv
    <3> SUFFICES ASSUME NEW c \in Accepted, NEW d \in Accepted, client'[c].id = client'[d].id
                 PROVE  c = d
      BY <1>1, Zenon
    <3>2. client[c].id = client[d].id
      BY <1>1, Zenon
    <3> QED
      BY <3>1, <3>2, Zenon
  <2> QED
    BY <2>1, <2>2, <2>3, Zenon DEF IdInv
<1>3. DataInv'
  BY <1>1, Zenon DEF OrderInv, DataInv
<1> QED
  BY <1>1, <1>2, <1>3, Zenon

\* oob_server_listen: the first counter is read while nothing is finalized,
LEMMA AcceptOrder ==
  ASSUME Countable, RaceInv, OrderInv, Accept, ~overlapped'
  PROVE  OrderInv'
<1>1. /\ thread.pc = "accept" /\ final.pc = "idle"
      /\ \/ thread' = [thread EXCEPT !.pc = "total", !.loaded = counters.ongoing]
         \/ thread' = [thread EXCEPT !.pc = "ongoing", !.loaded = counters.total]
      /\ UNCHANGED <<counters, slot, final, client, mail>>
  BY Zenon DEF Accept
<1>2. thread \in Threads
  BY Zenon DEF RaceInv, TypeInv
<1>3. \/ thread'.pc = "total" /\ thread'.loaded = counters.ongoing
      \/ thread'.pc = "ongoing" /\ thread'.loaded = counters.total
  BY <1>1, <1>2, Zenon DEF Threads
<1>4. Accepted' = Accepted /\ IdInv' /\ DataInv'
  BY <1>1, <1>3, OrderThreads, Zenon
<1>5. ApartInv'
  BY <1>1, <1>3, Zenon DEF ApartInv
<1>6. CountInv'
  <2>1. One(thread.pc \in {"load", "store"}) = 0 /\ One(thread'.pc \in {"load", "store"}) = 0
    BY <1>1, <1>3, Zenon DEF One
  <2> QED
    BY <1>1, <1>4, <2>1, Zenon DEF OrderInv, CountInv
<1> QED
  BY <1>4, <1>5, <1>6, Zenon DEF OrderInv

\* and the sum of the two is the number of the clients accepted before, an ID
\* that no other client has.
LEMMA GenerateIdOrder ==
  ASSUME Countable, RaceInv, OrderInv, NEW c \in Client, GenerateId(c)
  PROVE  OrderInv'
<1> DEFINE n == Cardinality(Accepted)
           k == [client[c] EXCEPT !.phase = "oob", !.id = n]
<1>1. /\ thread.pc \in {"total", "ongoing"} /\ client[c].phase = "init"
      /\ client' = [client EXCEPT ![c] = OobConnect(@)]
      /\ thread' = [pc |-> "load", loaded |-> 0, id |-> NextId]
      /\ UNCHANGED <<counters, slot, final, mail>>
  BY Zenon DEF GenerateId, OobAccepts
<1>2. /\ TypeInv /\ IdInv /\ DataInv /\ final.pc = "idle"
      /\ client \in [Client -> Clients] /\ client[c] \in Clients /\ client[c].sent = 0
  BY <1>1, Zenon DEF RaceInv, TypeInv, OrderInv, ApartInv, Clients
<1>3. /\ Accepted' = Accepted \cup {c} /\ c \notin Accepted /\ Cardinality(Accepted') = n + 1
      /\ RaceInv'
  BY GenerateIdRace, Zenon
<1>4. /\ n \in Nat /\ Cardinality(Client) \in Nat /\ n <= SizeMax /\ SizeMax \in Nat
      /\ counters.total \in Nat /\ counters.ongoing \in Nat /\ Accepted \in SUBSET Client
  BY Numbers, CountClients, Zenon DEF Accepted
<1>5. n + 1 <= Cardinality(Client)
  <2>1. Accepted \cup {c} \in SUBSET Client
    BY <1>4, Zenon
  <2> QED
    BY <1>3, <2>1, CountClients, Zenon
<1>6. counters.total + counters.ongoing + 0 + 0 = n
  BY <1>1, <1>2, Zenon DEF OrderInv, CountInv, One
<1> HIDE DEF n
<1>7. NextId = n
  <2>1. counters.total + counters.ongoing = n /\ counters.ongoing + counters.total = n
    BY <1>4, <1>6
  <2>2. thread.loaded + counters[thread.pc] = n
    BY <1>1, <2>1, Zenon DEF OrderInv, ApartInv
  <2> QED
    BY <1>4, <2>2, IncDec, Zenon DEF NextId
<1>8. n \in Slot /\ n \in 0..((n + 1) - 1) /\ n \notin 0..(n - 1)
      /\ 0..(n - 1) \subseteq 0..((n + 1) - 1)
  BY <1>4, <1>5 DEF Slot
<1>9. k \in Clients /\ k.phase = "oob" /\ k.id = n /\ k.sent = 0
      /\ client' = [client EXCEPT ![c] = k]
  BY <1>1, <1>2, <1>4, <1>7, Zenon DEF Clients, OobConnect
<1> HIDE DEF k
<1>10. client'[c] = k /\ \A d \in Client : d # c => client'[d] = client[d]
  BY <1>2, <1>9, ClientAt, Zenon
<1>11. \A d \in Accepted : /\ d \in Client /\ d # c /\ client'[d] = client[d]
                           /\ client[d].id \in 0..(n - 1) /\ client[d].id # n
  BY <1>2, <1>3, <1>4, <1>8, <1>10, Zenon DEF IdInv, n
<1>12. slot[n] = NoSlot /\ mail[n] = <<>>
  BY <1>2, <1>8, <1>11, Zenon DEF IdInv
<1>13. thread'.pc = "load" /\ thread'.id = n
  BY <1>1, <1>7, Zenon
<1>14. ApartInv'
  BY <1>1, <1>2, <1>13, Zenon DEF ApartInv
<1>15. CountInv'
  <2>1. counters.total + counters.ongoing + 1 + 0 = n + 1
    BY <1>4, <1>6
  <2> QED
    BY <1>1, <1>2, <1>3, <1>13, <2>1, Zenon DEF CountInv, One
<1>16. IdInv'
  <2>1. \A d \in Accepted' : client'[d].id \in 0..(Cardinality(Accepted') - 1)
    <3>1. \A d \in Accepted \cup {c} : client'[d].id \in 0..((n + 1) - 1)
      BY <1>8, <1>9, <1>10, <1>11, Zenon
    <3> QED
      BY <1>3, <3>1, Zenon
  <2>2. \A d, e \in Accepted' : client'[d].id = client'[e].id => d = e
    <3>1. \A d, e \in Accepted : client'[d].id = client'[e].id => d = e
      <4> SUFFICES ASSUME NEW d \in Accepted, NEW e \in Accepted, client'[d].id = client'[e].id
                   PROVE  d = e
        OBVIOUS
      <4>1. client[d].id = client[e].id
        BY <1>11, Zenon
      <4> QED
        BY <1>2, <4>1, Zenon DEF IdInv
    <3>2. \A d \in Accepted : client'[d].id # client'[c].id
      BY <1>9, <1>10, <1>11, Zenon
    <3> QED
      BY <1>3, <3>1, <3>2, Zenon
  <2>3. \A i \in Slot : \/ slot'[i] = NoSlot /\ mail'[i] = <<>>
                        \/ \E d \in Accepted' : client'[d].id = i
    <3> SUFFICES ASSUME NEW i \in Slot
                 PROVE  \/ slot'[i] = NoSlot /\ mail'[i] = <<>>
                        \/ \E d \in Accepted' : client'[d].id = i
      OBVIOUS
    <3>1. (slot[i] = NoSlot /\ mail[i] = <<>>) \/ \E d \in Accepted : client[d].id = i
      BY <1>2, Zenon DEF IdInv
    <3> QED
      BY <1>1, <1>3, <1>11, <3>1, Zenon
  <2>4. \E d \in Accepted' : client'[d].id = thread'.id
    BY <1>3, <1>9, <1>10, <1>13, Zenon
  <2> QED
    BY <2>1, <2>2, <2>3, <2>4, Zenon DEF IdInv
<1>17. DataInv'
  <2>1. ASSUME NEW d \in Accepted
        PROVE  Data(d, slot'[client'[d].id], mail'[client'[d].id], client'[d].sent)
    <3>1. Data(d, slot[client[d].id], mail[client[d].id], client[d].sent)
      BY <1>2, Zenon DEF DataInv
    <3> QED
      BY <1>1, <1>11, <3>1, Zenon
  <2>2. Data(c, NoSlot, <<>>, 0)
    <3>1. Msgs(c, 0, 0) = <<>> /\ 0 \in 0..0
      BY DEF Msgs
    <3>2. NoSlot.phase = "none" /\ NoSlot.got = <<>>
      BY Zenon DEF NoSlot
    <3> QED
      BY <3>1, <3>2, Zenon DEF Data
  <2>3. Data(c, slot'[client'[c].id], mail'[client'[c].id], client'[c].sent)
    BY <1>1, <1>9, <1>10, <1>12, <2>2, Zenon
  <2> QED
    BY <1>3, <2>1, <2>3, Zenon DEF DataInv
<1> QED
  BY <1>14, <1>15, <1>16, <1>17, Zenon DEF OrderInv

\* The slot of the client is initialized: what it held of the client is kept.
LEMMA LoadOngoingOrder ==
  ASSUME Countable, RaceInv, OrderInv, LoadOngoing
  PROVE  OrderInv'
<1> DEFINE s == [slot[thread.id] EXCEPT !.phase = "oob"]
<1>1. /\ thread.pc = "load" /\ slot' = [slot EXCEPT ![thread.id].phase = "oob"]
      /\ thread' = [thread EXCEPT !.pc = "store", !.loaded = counters.ongoing]
      /\ UNCHANGED <<counters, final, client, mail>>
  BY Zenon DEF LoadOngoing
<1>2. PICK c \in Accepted : client[c].id = thread.id
  BY <1>1, Zenon DEF OrderInv, IdInv
<1>3. thread.id \in Slot /\ thread \in Threads /\ slot[thread.id] \in Slots /\ slot \in [Slot -> Slots]
  BY <1>2, IdsAreSlots, Zenon DEF OrderInv, RaceInv, TypeInv
<1>4. s.phase = "oob" /\ s.got = slot[thread.id].got /\ slot' = [slot EXCEPT ![thread.id] = s]
  BY <1>1, <1>3, Zenon DEF Slots
<1>5. thread'.pc = "store" /\ thread'.loaded = counters.ongoing
  BY <1>1, <1>3, Zenon DEF Threads
<1> HIDE DEF s
<1>6. Accepted' = Accepted /\ IdInv' /\ DataInv'
  <2>1. /\ slot' = [slot EXCEPT ![client[c].id] = s] /\ s.got = slot[client[c].id].got
        /\ s.phase \notin {"ucx", "done"} /\ thread'.pc # "load"
    BY <1>2, <1>4, <1>5, Zenon
  <2> QED
    BY <1>1, <2>1, OrderPhase, Zenon
<1>7. ApartInv'
  BY <1>1, <1>5, Zenon DEF OrderInv, ApartInv
<1>8. CountInv'
  BY <1>1, <1>5, <1>6, Zenon DEF OrderInv, CountInv, One
<1> QED
  BY <1>6, <1>7, <1>8, Zenon DEF OrderInv

\* The thread counts the connection.  The server cannot be done yet.
LEMMA StoreOngoingOrder ==
  ASSUME Countable, RaceInv, OrderInv, StoreOngoing
  PROVE  OrderInv'
<1> DEFINE a == Cardinality(Accepted)
           t == counters.total
           o == counters.ongoing
<1>1. /\ thread.pc = "store" /\ UNCHANGED <<slot, final, client, mail>>
      /\ counters' = [counters EXCEPT !.ongoing = Inc(thread.loaded)]
      /\ thread' = [pc |-> IF done THEN "exit" ELSE "accept", loaded |-> 0, id |-> 0]
  BY Zenon DEF StoreOngoing
<1>2. /\ final.pc = "idle" /\ thread.loaded = o /\ t + o + 1 + 0 = a
      /\ counters \in Counters
  BY <1>1, Zenon DEF OrderInv, ApartInv, CountInv, One, RaceInv, TypeInv
<1>3. a \in Nat /\ t \in Nat /\ o \in Nat /\ a <= Cardinality(Client)
      /\ counters.connected \in Nat /\ Cardinality(Client) \in Nat
  BY Numbers, Zenon
<1>4. Inc(thread.loaded) = o + 1
  BY <1>2, StoreOngoingRace, Zenon
<1>5. ~done
  <2>1. done => counters.connected + Cardinality(Client) = t
    BY Zenon DEF RaceInv, LeaveInv, TotalInv
  <2> HIDE DEF a, t, o
  <2> QED
    BY <1>2, <1>3, <2>1
<1>6. counters'.total = t /\ counters'.ongoing = o + 1 /\ thread'.pc = "accept"
  BY <1>1, <1>2, <1>4, <1>5, Zenon DEF Counters
<1>7. Accepted' = Accepted /\ IdInv' /\ DataInv'
  BY <1>1, <1>6, OrderThreads, Zenon
<1>8. ApartInv'
  BY <1>1, <1>2, <1>6, Zenon DEF ApartInv
<1>9. CountInv'
  <2> HIDE DEF a, t, o
  <2>1. t + (o + 1) + 0 + 0 = a
    BY <1>2, <1>3
  <2> QED
    BY <1>1, <1>2, <1>6, <1>7, <2>1, Zenon DEF CountInv, One, a
<1> QED
  BY <1>7, <1>8, <1>9, Zenon DEF OrderInv

\* finalize_client_connection, while no client is accepted: the slot,
LEMMA FinalizeOrder ==
  ASSUME Countable, RaceInv, OrderInv, NEW i \in Slot, Finalize(i), ~overlapped'
  PROVE  OrderInv'
<1> DEFINE s == [slot[i] EXCEPT !.phase = "done"]
<1>1. /\ slot[i].phase \in {"oob", "ucx"} /\ Len(slot[i].got) = Steps /\ final.pc = "idle"
      /\ slot' = [slot EXCEPT ![i].phase = "done"] /\ thread.pc = "accept"
      /\ final' = [pc |-> "store", loaded |-> counters.ongoing]
      /\ UNCHANGED <<counters, thread, client, mail>>
  BY Zenon DEF Finalize, Reached, Connecting
<1>2. PICK c \in Accepted : client[c].id = i
  BY <1>1, Owner, Zenon DEF OrderInv
<1>3. slot[i] \in Slots /\ slot \in [Slot -> Slots]
  BY Zenon DEF RaceInv, TypeInv
<1>4. s.got = slot[i].got /\ slot' = [slot EXCEPT ![i] = s]
  BY <1>1, <1>3, Zenon DEF Slots
<1> HIDE DEF s
<1>5. Len(s.got) = Steps
  BY <1>1, <1>4, Zenon
<1>6. Accepted' = Accepted /\ IdInv' /\ DataInv'
  BY <1>1, <1>2, <1>4, <1>5, OrderPhase, Zenon
<1>7. final'.pc = "store" /\ final'.loaded = counters.ongoing
  BY <1>1, Zenon
<1>8. ApartInv'
  BY <1>1, <1>7, Zenon DEF ApartInv
<1>9. CountInv'
  <2>1. One(final.pc = "count") = 0 /\ One(final'.pc = "count") = 0
    BY <1>1, <1>7, Zenon DEF One
  <2> QED
    BY <1>1, <1>6, <2>1, Zenon DEF OrderInv, CountInv
<1> QED
  BY <1>6, <1>8, <1>9, Zenon DEF OrderInv

\* num_ongoing_connections,
LEMMA FinalizeOngoingOrder ==
  ASSUME Countable, RaceInv, OrderInv, FinalizeOngoing
  PROVE  OrderInv'
<1> DEFINE a == Cardinality(Accepted)
           t == counters.total
           o == counters.ongoing
<1>1. /\ final.pc = "store" /\ UNCHANGED <<slot, thread, client, mail>>
      /\ counters' = [counters EXCEPT !.ongoing = Dec(final.loaded)]
      /\ final' = [pc |-> "count", loaded |-> 0]
  BY Zenon DEF FinalizeOngoing
<1>2. /\ thread.pc = "accept" /\ final.loaded = o /\ t + o + 0 + 0 = a
      /\ counters \in Counters
  BY <1>1, Zenon DEF OrderInv, ApartInv, CountInv, One, RaceInv, TypeInv
<1>3. Dec(final.loaded) = o - 1
  BY <1>2, FinalizeOngoingRace, Zenon
<1>4. counters'.total = t /\ counters'.ongoing = o - 1 /\ final'.pc = "count"
  BY <1>1, <1>2, <1>3, Zenon DEF Counters
<1>5. Accepted' = Accepted /\ IdInv' /\ DataInv'
  BY <1>1, <1>2, OrderThreads, Zenon
<1>6. ApartInv'
  BY <1>1, <1>2, <1>4, Zenon DEF ApartInv
<1>7. CountInv'
  <2>1. a \in Nat /\ t \in Nat /\ o \in Nat
    BY Numbers, Zenon
  <2> HIDE DEF a, t, o
  <2>2. t + (o - 1) + 0 + 1 = a
    BY <1>2, <2>1
  <2> QED
    BY <1>1, <1>2, <1>4, <1>5, <2>2, Zenon DEF CountInv, One, a
<1> QED
  BY <1>5, <1>6, <1>7, Zenon DEF OrderInv

\* and the two other counters.
LEMMA FinalizeCountersOrder ==
  ASSUME Countable, RaceInv, OrderInv, FinalizeCounters
  PROVE  OrderInv'
<1> DEFINE a == Cardinality(Accepted)
           t == counters.total
           o == counters.ongoing
<1>1. /\ final.pc = "count" /\ UNCHANGED <<slot, thread, client, mail>>
      /\ final' = [pc |-> "idle", loaded |-> 0]
  BY Zenon DEF FinalizeCounters
<1>2. thread.pc = "accept" /\ t + o + 0 + 1 = a /\ final'.pc = "idle"
  BY <1>1, Zenon DEF OrderInv, ApartInv, CountInv, One
<1>3. counters'.total = t + 1 /\ counters'.ongoing = o
  BY FinalizeCountersRace, Zenon
<1>4. Accepted' = Accepted /\ IdInv' /\ DataInv'
  BY <1>1, <1>2, OrderThreads, Zenon
<1>5. ApartInv'
  BY <1>1, <1>2, Zenon DEF ApartInv
<1>6. CountInv'
  <2>1. a \in Nat /\ t \in Nat /\ o \in Nat
    BY Numbers, Zenon
  <2> HIDE DEF a, t, o
  <2>2. (t + 1) + o + 0 + 0 = a
    BY <1>2, <2>1
  <2> QED
    BY <1>1, <1>2, <1>3, <1>4, <2>2, Zenon DEF CountInv, One, a
<1> QED
  BY <1>4, <1>5, <1>6, Zenon DEF OrderInv

\* term_msg_cb leaves the sum of the counters, and the IDs, as they are.
LEMMA TermMsgOrder ==
  ASSUME Countable, RaceInv, OrderInv, NEW c \in Client, TermMsg(c)
  PROVE  OrderInv'
<1> DEFINE j == client[c].id
           s == [slot[j] EXCEPT !.phase = "gone"]
<1>1. /\ c \in term /\ slot' = [slot EXCEPT ![j].phase = "gone"]
      /\ UNCHANGED <<thread, final, client, mail>>
  BY Zenon DEF TermMsg
<1>2. c \in Accepted
  BY <1>1, Zenon DEF RaceInv, LeaveInv, Left, Accepted
<1>3. slot[j] \in Slots /\ slot \in [Slot -> Slots]
  BY <1>2, IdsAreSlots, Zenon DEF OrderInv, RaceInv, TypeInv
<1>4. s.phase = "gone" /\ s.got = slot[j].got /\ slot' = [slot EXCEPT ![j] = s]
  BY <1>1, <1>3, Zenon DEF Slots
<1> HIDE DEF s
<1>5. Accepted' = Accepted /\ IdInv' /\ DataInv'
  BY <1>1, <1>2, <1>4, OrderPhase, Zenon
<1>6. counters'.total = counters.total /\ counters'.ongoing = counters.ongoing
  BY TermMsgRace, Zenon
<1>7. ApartInv' /\ CountInv'
  BY <1>1, <1>5, <1>6, Zenon DEF OrderInv, ApartInv, CountInv
<1> QED
  BY <1>5, <1>7, Zenon DEF OrderInv

-----------------------------------------------------------------------------
(* What always holds *)

\* Before the first client is accepted,
LEMMA InitOK ==
  ASSUME Countable, Init
  PROVE  IInv
<1>1. Cardinality(Client) \in Nat /\ Cardinality({}) = 0
  BY BootstrapAssumption, FS_CardinalityType, FS_EmptySet, Zenon DEF BootstrapAssumption
<1>2. 0 \in 0..Steps /\ 0 \in Nat
  BY DEF Steps
<1>3. \A S : <<>> \in Seq(S)
  OBVIOUS
<1>4. NoSlot \in Slots /\ NoSlot.phase = "none"
  BY <1>3, Zenon DEF NoSlot, Slots
<1>5. slot = [i \in Slot |-> NoSlot]
  BY Zenon DEF Init, NoSlot
<1>6. TypeInv
  <2>1. client \in [Client -> Clients]
    BY <1>2, Zenon DEF Init, Clients
  <2>2. slot \in [Slot -> Slots]
    BY <1>4, <1>5, Zenon
  <2>3. mail \in [Slot -> Seq(Client \X Nat)]
    BY <1>3, Zenon DEF Init
  <2>4. /\ counters \in Counters /\ done \in BOOLEAN
        /\ cached \in SUBSET Client /\ term \in SUBSET Client
    BY <1>2, Zenon DEF Init, Counters
  <2>5. thread \in Threads /\ final \in Finals
    BY <1>2, Zenon DEF Init, Threads, Finals
  <2> QED
    BY <2>1, <2>2, <2>3, <2>4, <2>5, Zenon DEF TypeInv
<1>7. Accepted = {} /\ Left = {}
  BY Zenon DEF Init, Accepted, Left
<1>8. Departed = {} /\ ConnSlots = {}
  BY <1>4, <1>5, <1>7, Zenon DEF Departed, ConnSlots, Connecting
<1>9. /\ thread.pc = "accept" /\ final.pc = "idle" /\ counters.ongoing = 0
      /\ counters.connected = 0 /\ counters.total = 0
  BY Zenon DEF Init
<1>10. 0 <= 0 /\ 0 + 0 + 0 + 0 <= 0 /\ 0 + 0 = 0 /\ 0 + 0 + 0 + 0 = 0
  OBVIOUS
<1>11. OngoingInv /\ TotalInv
  BY <1>1, <1>7, <1>8, <1>9, <1>10, Zenon DEF OngoingInv, TotalInv, One
<1>12. LeaveInv
  BY <1>7, Zenon DEF Init, LeaveInv
<1>13. ApartInv /\ CountInv
  BY <1>1, <1>7, <1>9, <1>10, Zenon DEF ApartInv, CountInv, One
<1>14. IdInv
  BY <1>5, <1>7, <1>9, Zenon DEF IdInv, Init
<1>15. DataInv
  BY <1>7, Zenon DEF DataInv
<1> QED
  BY <1>6, <1>11, <1>12, <1>13, <1>14, <1>15, Zenon DEF IInv, RaceInv, OrderInv

\* whatever a thread of the server or a client does,
LEMMA RaceNext ==
  ASSUME Countable, RaceInv, [Next]_vars
  PROVE  RaceInv'
<1>1. CASE UNCHANGED vars
  <2>1. UNCHANGED <<counters, slot, thread, final, client, mail, cached, term, done, failed>>
    BY <1>1, Zenon DEF vars
  <2>2. Accepted' = Accepted /\ Left' = Left /\ Departed' = Departed /\ ConnSlots' = ConnSlots
    BY <2>1, SameClients, Zenon
  <2>3. TypeInv'
    BY <2>1, Zenon DEF RaceInv, TypeInv
  <2> QED
    BY <2>1, <2>2, <2>3, Zenon DEF RaceInv, OngoingInv, TotalInv, LeaveInv
<1>2. ASSUME NEW c \in Client, ClientStep(c) \/ TermMsg(c) \/ GenerateId(c)
      PROVE  RaceInv'
  BY <1>2, GenerateIdRace, ClientSendRace, ClientReadyRace, ClientFiniRace, TermMsgRace, Zenon
     DEF ClientStep
<1>3. ASSUME NEW i \in Slot, Main(i)
      PROVE  RaceInv'
  BY <1>3, PostRecvRace, UcxRecvRace, SendInfoRace, FinalizeRace, Zenon DEF Main
<1> QED
  BY <1>1, <1>2, <1>3, AcceptRace, LoadOngoingRace, StoreOngoingRace, FinalizeOngoingRace,
     FinalizeCountersRace, Zenon DEF Next, Thread, Finalizing, Idle

\* and, as long as no acceptance overlapped a finalization, also what concerns
\* the order of their steps.
LEMMA OrderNext ==
  ASSUME Countable, RaceInv, OrderInv, [Next]_vars, ~overlapped'
  PROVE  OrderInv'
<1>1. CASE UNCHANGED vars
  <2>1. /\ UNCHANGED <<counters, thread, final>> /\ counters' = counters /\ slot' = slot
        /\ thread' = thread /\ client' = client /\ mail' = mail
    BY <1>1, Zenon DEF vars
  <2>2. Accepted' = Accepted
    BY <2>1, Zenon DEF Accepted
  <2>3. ApartInv' /\ CountInv'
    BY <2>1, <2>2, OrderCounts, Zenon
  <2>4. IdInv' /\ DataInv'
    BY <2>1, <2>2, Zenon DEF OrderInv, IdInv, DataInv
  <2> QED
    BY <2>3, <2>4, Zenon DEF OrderInv
<1>2. ASSUME NEW c \in Client, ClientStep(c) \/ TermMsg(c) \/ GenerateId(c)
      PROVE  OrderInv'
  BY <1>2, GenerateIdOrder, ClientSendOrder, ClientPhaseOrder, TermMsgOrder, Zenon DEF ClientStep
<1>3. ASSUME NEW i \in Slot, Main(i)
      PROVE  OrderInv'
  BY <1>3, PostRecvOrder, UcxRecvOrder, SendInfoOrder, FinalizeOrder, Zenon DEF Main
<1> QED
  BY <1>1, <1>2, <1>3, AcceptOrder, LoadOngoingOrder, StoreOngoingOrder, FinalizeOngoingOrder,
     FinalizeCountersOrder, Zenon DEF Next, Thread, Finalizing, Idle

\* An overlap is not forgotten.
LEMMA OverlappedStays ==
  ASSUME [Next]_vars, overlapped
  PROVE  overlapped'
<1>1. CASE UNCHANGED vars
  BY <1>1, Zenon DEF vars
<1>2. ASSUME NEW c \in Client, ClientStep(c) \/ TermMsg(c) \/ GenerateId(c)
      PROVE  overlapped'
  BY <1>2, Zenon DEF ClientStep, ClientSend, ClientReady, ClientFini, TermMsg, GenerateId
<1>3. ASSUME NEW i \in Slot, Main(i)
      PROVE  overlapped'
  BY <1>3, Zenon DEF Main, PostRecv, UcxRecv, SendInfo, Finalize
<1>4. CASE Accept \/ LoadOngoing \/ StoreOngoing \/ Finalizing
  BY <1>4, Zenon DEF Accept, LoadOngoing, StoreOngoing, Finalizing, FinalizeOngoing, FinalizeCounters
<1> QED
  BY <1>1, <1>2, <1>3, <1>4, Zenon DEF Next, Thread, Idle

\* The inductive invariant always holds.
LEMMA Inductive ==
  ASSUME Countable
  PROVE  Spec => []IInv
<1>1. Init => IInv
  BY InitOK, Zenon
<1>2. IInv /\ [Next]_vars => IInv'
  BY RaceNext, OrderNext, OverlappedStays, Zenon DEF IInv
<1> QED
  BY <1>1, <1>2, PTL DEF Spec

\* What the order of the steps says of the received data.
LEMMA OrderData ==
  ASSUME Countable, RaceInv, OrderInv
  PROVE  OwnData
<1> SUFFICES ASSUME NEW c \in Client, client[c].phase # "init",
                    slot[client[c].id].phase \in {"ucx", "done"}
             PROVE  slot[client[c].id].got = [s \in 1..Steps |-> <<c, s>>]
  BY Zenon DEF OwnData
<1> DEFINE got == slot[client[c].id].got
           b == client[c].sent
<1>1. c \in Accepted
  BY Zenon DEF Accepted
<1>2. Data(c, slot[client[c].id], mail[client[c].id], b)
  BY <1>1, Zenon DEF OrderInv, DataInv
<1>3. PICK g \in 0..b : got = Msgs(c, 0, g)
  BY <1>2, Zenon DEF Data
<1>4. Len(got) = Steps
  BY <1>2, Zenon DEF Data
<1>5. b \in 0..Steps
  BY Zenon DEF RaceInv, TypeInv, Clients
<1> HIDE DEF got, b
<1>6. g \in Nat /\ 0 <= g /\ 0 \in Nat
  BY <1>3, <1>5 DEF Steps
<1>7. Len(got) = g - 0
  BY <1>3, <1>6, MsgsSeq, Zenon
<1>8. g = Steps
  <2>1. g - 0 = Steps
    BY <1>4, <1>7, Zenon
  <2> QED
    BY <1>6, <2>1
<1>9. Msgs(c, 0, Steps) = [s \in 1..Steps |-> <<c, s>>]
  BY DEF Msgs, Steps
<1> QED
  BY <1>3, <1>8, <1>9, Zenon DEF got

\* generate_unique_client_id gives no ID to two clients as long as no acceptance
\* overlapped a finalization, however many connections are open at a time.
THEOREM UniqueIds ==
  ASSUME Countable
  PROVE  Spec => []IdsUniqueApart
<1>1. IInv => IdsUniqueApart
  BY Zenon DEF IInv, OrderInv, IdInv, IdsUniqueApart, IdsUnique, Accepted
<1> QED
  BY <1>1, Inductive, PTL

\* As long as they did not overlap, finalize_client_connection records the
\* address and the rank of the client that got the ID of the slot, as it sent them.
THEOREM OwnDataOnly ==
  ASSUME Countable
  PROVE  Spec => []OwnDataApart
<1>1. IInv => OwnDataApart
  BY OrderData, Zenon DEF IInv, OwnDataApart
<1> QED
  BY <1>1, Inductive, PTL

\* Whatever overlaps and whichever updates are lost, num_ongoing_connections
\* counts no more clients than were told their ID, and so never wraps around.
THEOREM OngoingNeverTooHigh ==
  ASSUME Countable
  PROVE  Spec => []OngoingBounded
<1>1. IInv => OngoingBounded
  BY Zenon DEF IInv, RaceInv, OngoingInv, OngoingBounded, Accepted
<1> QED
  BY <1>1, Inductive, PTL

\* Whatever overlaps, the assertions of term_msg_cb hold when the clients leave
\* after they were sent the cache: a client that leaves is counted as connected,
\* and the server becomes done once.
THEOREM TermAssertionsHold ==
  ASSUME Countable
  PROVE  Spec => []AssertionsHold
<1>1. IInv => AssertionsHold
  BY Zenon DEF IInv, RaceInv, LeaveInv, AssertionsHold
<1> QED
  BY <1>1, Inductive, PTL
=============================================================================
