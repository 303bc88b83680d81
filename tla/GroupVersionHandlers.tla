------------------------ MODULE GroupVersionHandlers -------------------------
(***************************************************************************)
(* What the handlers of an SP do to the version of its cache: each of      *)
(* them, given the message that the SP waits for, or one of the next       *)
(* version that it puts off, is a step of the SP in the sense of SpStep.   *)
(* It keeps SpVer, and moves the positions of the SP in its streams        *)
(* together with the messages it sends.                                    *)
(***************************************************************************)
EXTENDS GroupCacheHandlers

-----------------------------------------------------------------------------
(* Streams *)

\* A sequence with no index is empty.
LEMMA EmptyDomain ==
  ASSUME NEW S, NEW q \in Seq(S)
  PROVE  q = <<>> <=> DOMAIN q = {}
<1>1. Len(q) \in Nat /\ DOMAIN q = 1 .. Len(q) /\ DOMAIN <<>> = {}
  OBVIOUS
<1>2. q # <<>> => Len(q) # 0
  BY EmptySeq
<1>3. Len(q) # 0 => 1 \in DOMAIN q
  BY <1>1
<1> QED
  BY <1>1, <1>2, <1>3, Zenon

-----------------------------------------------------------------------------
(* The handlers of an SP: adding entries *)

\* What is not touched when an SP adds entries: in particular which ranks revoked
\* the group and what waits for revokes.
Kept == {"local", "global", "failed", "revoke_posted", "revoked",
         "pending_revokes_from_sps", "pending_revokes_from_ranks", "pending_adds"}

\* An SP's handler turns the cache c into d by adding entries of version n.
Adds(c, d, n) ==
  /\ DOMAIN d = SpFields /\ d.num = n /\ Uniform(d.entries, n)
  /\ Held(c.entries) \subseteq Held(d.entries) /\ Held(d.entries) # {}
  /\ \A x \in Kept : d[x] = c[x]

\* It sends nothing to the clients, or the cache when it becomes full.
SendsFull(c, d) ==
  \/ d.toHosts = c.toHosts
  \/ /\ Held(c.entries) # Group /\ Held(d.entries) = Group
     /\ d.toHosts = Append(c.toHosts, EntriesMsg(d.entries))

\* The handler adds the entries of the ranks R of other SPs; q is what stays pending.
AddsPeers(c, R, q, d) ==
  /\ d.pending_entries = q
  /\ Adds(c, d, Cur(c)) /\ SendsFull(c, d) /\ Held(d.entries) = Held(c.entries) \cup R
  /\ \A x \in {"sp_ranks", "toPeers", "n_local_ranks", "n_local_ranks_populated"} : d[x] = c[x]

\* The entries of an SP's cache, when they are of one version.
LEMMA SpCacheOK ==
  ASSUME NEW p, NEW c, SpOK(p, c), Uniform(c.entries, c.num)
  PROVE  CacheOK(c)
<1>1. CommonFields \subseteq DOMAIN c
  BY SpDomain, Zenon DEF SpFields
<1>2. c.entries \in [Group -> Nat] /\ c.num_local_entries = Cardinality(Held(c.entries))
  BY Zenon DEF SpOK, SpCaches, SpCacheInv
<1> QED
  BY <1>1, <1>2, Zenon DEF CacheOK

\* A cache is full when it has group_size entries.
LEMMA CountIsFull ==
  ASSUME GroupSets, NEW p, NEW c, SpOK(p, c), Held(c.entries) # {}
  PROVE  c.num_local_entries = c.group_size <=> Held(c.entries) = Group
<1>1. Held(c.entries) \in SUBSET Group
  BY Zenon DEF Held
<1>2. /\ Cardinality(Held(c.entries)) = 0 <=> Held(c.entries) = {}
      /\ Cardinality(Held(c.entries)) = GroupSize <=> Held(c.entries) = Group
  BY <1>1, GroupFinite
<1>3. /\ c.num_local_entries = Cardinality(Held(c.entries))
      /\ c.num_local_entries # 0 => c.group_size = GroupSize
  BY Zenon DEF SpOK, SpCacheInv
<1> QED
  BY <1>2, <1>3

\* send_gp_cache_to_host.
LEMMA SendCacheVersion ==
  ASSUME GroupSets, NEW p, NEW c, SpOK(p, c), c.global = 0, Held(c.entries) = Group,
         NEW d, d = SendCacheToHost(c)
  PROVE  /\ DOMAIN d = SpFields
         /\ \A x \in SpFields \ {"toHosts", "ongoing"} : d[x] = c[x]
         /\ d.toHosts = c.toHosts \/ d.toHosts = Append(c.toHosts, EntriesMsg(c.entries))
<1>1. DOMAIN c = SpFields
  BY SpDomain, Zenon
<1>2. Populated(c)
  BY CountIsFull, GroupFinite, TopologyAssumption, Zenon DEF Populated, TopologyAssumption
<1> DEFINE F == c.failed \cup Unless(Populated(c), "cache_populated")
           h == Append(c.toHosts, EntriesMsg(c.entries))
           o == Append(c.ongoing, "cache")
<1>3. F = c.failed
  BY <1>2, Zenon DEF Unless
<1>4. CASE c.sent_to_host < c.num
  <2>1. d = [c EXCEPT !.toHosts = h, !.ongoing = o, !.failed = F]
    BY <1>1, <1>4, Zenon DEF SendCacheToHost, SpFields
  <2> HIDE DEF F, h, o
  <2>2. /\ DOMAIN d = SpFields /\ d.toHosts = h /\ d.failed = F
        /\ \A x \in SpFields \ {"toHosts", "ongoing", "failed"} : d[x] = c[x]
    BY <2>1, <1>1, Zenon DEF SpFields, CommonFields
  <2> QED
    BY <2>2, <1>3, Zenon DEF h
<1>5. CASE ~(c.sent_to_host < c.num)
  BY <1>1, <1>5, Zenon DEF SendCacheToHost
<1> QED
  BY <1>4, <1>5, Zenon

\* handle_peer_cache_entries_recv.
LEMMA PeerEntriesVersion ==
  ASSUME GroupSets, NEW p \in SP, NEW c, SpOK(p, c), c.global = 0, Uniform(c.entries, c.num),
         NEW f \in EntriesOf(Group \ SpRanks(p)), Uniform(f, Cur(c)),
         NEW d, d = HandlePeerEntries(p, c, f)
  PROVE  AddsPeers(c, Held(f), c.pending_entries, d)
<1> DEFINE a == AddEntries(c, f)
<1>0. f \in EntriesOf(Group) /\ DOMAIN c = SpFields
  BY SpDomain, Zenon DEF EntriesOf
<1>1. /\ SpOK(p, a) /\ a.global = 0
  BY AddEntriesOK, Zenon
<1>2. /\ a.num = Cur(c) /\ Uniform(a.entries, Cur(c))
      /\ Held(a.entries) = Held(c.entries) \cup Held(f) /\ Held(a.entries) # {}
      /\ DOMAIN a = SpFields
      /\ \A x \in SpFields \ {"group_size", "num", "entries", "num_local_entries"} :
           a[x] = c[x]
  <2>1. CacheOK(c)
    BY SpCacheOK, Zenon
  <2>2. a = AddEntries(c, f)
    BY Zenon
  <2> HIDE DEF a
  <2>3. Stored(c, f, Cur(c), a)
    BY <1>0, <2>1, <2>2, AddVersion, Zenon
  <2> QED
    BY <1>0, <2>3, Zenon DEF Stored
<1>3. d = IF /\ Missing(c, f) # {} /\ a.num_local_entries = a.group_size
             /\ ~AllRanksAreLocal(p, a)
          THEN SendCacheToHost(a) ELSE a
  BY Zenon DEF HandlePeerEntries
<1> HIDE DEF a
<1>4. \/ d = a
      \/ /\ Held(c.entries) # Group /\ Held(a.entries) = Group
         /\ DOMAIN d = SpFields
         /\ \A x \in SpFields \ {"toHosts", "ongoing"} : d[x] = a[x]
         /\ d.toHosts = a.toHosts \/ d.toHosts = Append(a.toHosts, EntriesMsg(a.entries))
  <2>1. ASSUME Missing(c, f) # {} PROVE Held(c.entries) # Group
    BY <2>1, Zenon DEF Missing, Held
  <2>2. ASSUME a.num_local_entries = a.group_size PROVE Held(a.entries) = Group
    BY <2>2, <1>1, <1>2, CountIsFull, Zenon
  <2> QED
    BY <2>1, <2>2, <1>1, <1>3, SendCacheVersion, Zenon
<1>5. /\ DOMAIN d = SpFields /\ d.entries = a.entries /\ d.num = a.num
      /\ \A x \in Kept \cup {"sp_ranks", "toPeers", "pending_entries", "n_local_ranks",
                             "n_local_ranks_populated"} : d[x] = a[x] /\ a[x] = c[x]
  <2>1. Kept \cup {"sp_ranks", "toPeers", "pending_entries", "n_local_ranks", "n_local_ranks_populated"}
          \subseteq SpFields \ {"group_size", "num", "entries", "num_local_entries", "toHosts", "ongoing"}
    BY DEF Kept, SpFields, CommonFields
  <2>2. \A x \in SpFields \ {"toHosts", "ongoing"} : d[x] = a[x]
    BY <1>4, Zenon
  <2>3. {"entries", "num"} \subseteq SpFields \ {"toHosts", "ongoing"}
    BY DEF SpFields, CommonFields
  <2> QED
    BY <1>2, <1>4, <2>1, <2>2, <2>3, Zenon
<1>6. a.toHosts = c.toHosts
  BY <1>2, Zenon DEF SpFields
<1>7. SendsFull(c, d)
  BY <1>4, <1>5, <1>6, Zenon DEF SendsFull
<1>8. Adds(c, d, Cur(c))
  BY <1>2, <1>5, Zenon DEF Adds
<1>9. \A x \in {"sp_ranks", "toPeers", "pending_entries", "n_local_ranks",
                "n_local_ranks_populated"} : d[x] = c[x]
  BY <1>5, Zenon
<1> QED
  BY <1>2, <1>5, <1>7, <1>8, <1>9, Zenon DEF AddsPeers

\* Where a list of entries taken together comes from.
LEMMA MergeHolds ==
  ASSUME GroupSets, NEW q \in Seq(EntriesOf(Group)), NEW r \in Group
  PROVE  /\ Merge(q)[r] # 0 <=> \E i \in DOMAIN q : q[i][r] # 0
         /\ Merge(q)[r] # 0 => \E i \in DOMAIN q : q[i][r] # 0 /\ Merge(q)[r] = q[i][r]
<1> DEFINE I == {i \in DOMAIN q : q[i][r] # 0}
<1>1. \A i \in DOMAIN q : i \in Nat
  OBVIOUS
<1>2. I # {} => Min(I) \in I
  BY <1>1, MinIsLeast, Zenon
<1>3. Merge(q)[r] = IF I = {} THEN 0 ELSE q[Min(I)][r]
  BY Zenon DEF Merge
<1>4. CASE I = {}
  BY <1>3, <1>4
<1>5. CASE I # {}
  <2>1. Min(I) \in DOMAIN q /\ q[Min(I)][r] # 0 /\ Merge(q)[r] = q[Min(I)][r]
    BY <1>2, <1>3, <1>5, Zenon
  <2> QED
    BY <2>1, Zenon
<1> QED
  BY <1>4, <1>5, Zenon

\* The ranks in the pending entries, which are of version n.
LEMMA PendingHolds ==
  ASSUME GroupSets, NEW p \in SP, NEW c, SpOK(p, c), NEW n,
         \A i \in DOMAIN c.pending_entries : Uniform(c.pending_entries[i].entries, n)
  PROVE  /\ Held(PendingEntries(c)) = Pending(c) /\ Uniform(PendingEntries(c), n)
         /\ Pending(c) \subseteq Others(p)
<1> DEFINE q == c.pending_entries
           g == [i \in DOMAIN q |-> q[i].entries]
<1>1. q \in Seq(EntriesMsgs(Others(p)))
  BY Zenon DEF SpOK, SpCaches, Others
<1>2. \A i \in DOMAIN q : q[i].entries \in EntriesOf(Others(p))
  <2> HIDE DEF q
  <2>0. \A i \in DOMAIN q : q[i] \in EntriesMsgs(Others(p))
    BY <1>1
  <2> QED
    BY <2>0, Zenon DEF EntriesMsgs
<1>3. \A i \in DOMAIN q : q[i].entries \in EntriesOf(Group)
  <2>1. \A f \in EntriesOf(Others(p)) : f \in EntriesOf(Group)
    BY Zenon DEF EntriesOf, Others
  <2> QED
    BY <1>2, <2>1, Zenon
<1>4. DOMAIN g = DOMAIN q /\ \A i \in DOMAIN q : g[i] = q[i].entries
  BY Zenon
<1>5. g \in Seq(EntriesOf(Group))
  <2>1. DOMAIN q = 1 .. Len(q) /\ Len(q) \in Nat
    BY <1>1
  <2> HIDE DEF q
  <2> QED
    BY <2>1, <1>3
<1>6. PendingEntries(c) = Merge(g)
  BY Zenon DEF PendingEntries
<1> HIDE DEF g, q
<1>7. \A r \in Group :
        /\ Merge(g)[r] # 0 <=> \E i \in DOMAIN q : q[i].entries[r] # 0
        /\ Merge(g)[r] # 0 => \E i \in DOMAIN q : q[i].entries[r] # 0 /\ Merge(g)[r] = q[i].entries[r]
  <2> SUFFICES ASSUME NEW r \in Group
               PROVE  /\ Merge(g)[r] # 0 <=> \E i \in DOMAIN q : q[i].entries[r] # 0
                      /\ Merge(g)[r] # 0 => \E i \in DOMAIN q : q[i].entries[r] # 0 /\ Merge(g)[r] = q[i].entries[r]
    BY Zenon
  <2>1. /\ Merge(g)[r] # 0 <=> \E i \in DOMAIN g : g[i][r] # 0
        /\ Merge(g)[r] # 0 => \E i \in DOMAIN g : g[i][r] # 0 /\ Merge(g)[r] = g[i][r]
    BY <1>5, MergeHolds, Zenon
  <2> QED
    BY <2>1, <1>4
<1>8. Held(Merge(g)) = Pending(c)
  <2>1. ASSUME NEW r \in Held(Merge(g)) PROVE r \in Pending(c)
    <3>1. r \in Group /\ Merge(g)[r] # 0
      BY <2>1, Zenon DEF Held
    <3>2. PICK i \in DOMAIN q : q[i].entries[r] # 0
      BY <3>1, <1>7, Zenon
    <3>3. r \in Held(q[i].entries)
      BY <3>1, <3>2, Zenon DEF Held
    <3> QED
      BY <3>3, Zenon DEF Pending, q
  <2>2. \A r : r \in Pending(c) => r \in Held(Merge(g))
    BY <1>7, Zenon DEF Held, Pending, q
  <2> QED
    BY <2>1, <2>2, Zenon
<1>9. Uniform(Merge(g), n)
  BY <1>7, Zenon DEF Held, Uniform, q
<1>10. Pending(c) \subseteq Others(p)
  BY <1>2, Zenon DEF Pending, EntriesOf, q
<1> QED
  BY <1>6, <1>8, <1>9, <1>10, Zenon

\* HANDLE_PENDING_CACHE_ENTRIES.
LEMMA PendingEntriesVersion ==
  ASSUME GroupSets, NEW p \in SP, NEW c, SpOK(p, c), c.global = 0, Uniform(c.entries, c.num),
         \A i \in DOMAIN c.pending_entries : Uniform(c.pending_entries[i].entries, Cur(c)),
         c.pending_entries # <<>>, NEW d, d = HandlePendingEntries(p, c)
  PROVE  AddsPeers(c, Pending(c), <<>>, d)
<1> DEFINE e == [c EXCEPT !.pending_entries = <<>>]
           f == PendingEntries(c)
           F == {"sp_ranks", "toPeers", "n_local_ranks", "n_local_ranks_populated"}
<1>1. /\ f \in EntriesOf(Group \ SpRanks(p)) /\ SpOK(p, e) /\ e.global = 0
  BY PendingOK, Zenon
<1>2. Held(f) = Pending(c) /\ Uniform(f, Cur(c))
  BY PendingHolds, Zenon
<1>3. d = HandlePeerEntries(p, e, f) /\ DOMAIN c = SpFields
  BY SpDomain, Zenon DEF HandlePendingEntries
<1>4. /\ DOMAIN e = SpFields /\ e.pending_entries = <<>>
      /\ \A x \in SpFields \ {"pending_entries"} : e[x] = c[x]
  BY <1>3, Zenon DEF SpFields, CommonFields
<1> HIDE DEF e, f
<1>5. /\ e.entries = c.entries /\ e.num = c.num /\ e.toHosts = c.toHosts
      /\ \A x \in Kept \cup F : e[x] = c[x]
  <2>1. Kept \cup F \cup {"entries", "num", "toHosts"} \subseteq SpFields \ {"pending_entries"}
    BY DEF Kept, SpFields, CommonFields
  <2> QED
    BY <1>4, <2>1, Zenon
<1>6. Uniform(e.entries, e.num) /\ Cur(e) = Cur(c)
  BY <1>5, Zenon DEF Cur
<1>7. AddsPeers(e, Held(f), e.pending_entries, d)
  <2>1. Uniform(f, Cur(e))
    BY <1>2, <1>6, Zenon
  <2> QED
    BY <1>1, <1>3, <1>6, <2>1, PeerEntriesVersion, Zenon
<1>8. Adds(c, d, Cur(c))
  BY <1>5, <1>6, <1>7, Zenon DEF Adds, AddsPeers
<1>9. SendsFull(c, d)
  BY <1>5, <1>7, Zenon DEF SendsFull, AddsPeers
<1>10. Held(d.entries) = Held(c.entries) \cup Pending(c)
  BY <1>2, <1>5, <1>7, Zenon DEF AddsPeers
<1>11. \A x \in F : d[x] = c[x]
  BY <1>5, <1>7, Zenon DEF AddsPeers
<1> QED
  BY <1>4, <1>7, <1>8, <1>9, <1>10, <1>11, Zenon DEF AddsPeers

\* Sets of ranks of which one includes the other are the same if they have
\* equally many elements.
LEMMA CountSubset ==
  ASSUME GroupSets, NEW S \in SUBSET Group, NEW T \in SUBSET Group, S \subseteq T
  PROVE  Cardinality(S) = Cardinality(T) <=> S = T
<1> DEFINE D == T \ S
<1>1. /\ D \in SUBSET Group /\ S \cap D = {}
      /\ \A x : x \in S \cup D <=> x \in T
  OBVIOUS
<1>2. S \cup D = T
  BY <1>1
<1>3. D = {} <=> S = T
  OBVIOUS
<1> HIDE DEF D
<1>4. Cardinality(T) = Cardinality(S) + Cardinality(D)
  BY <1>1, <1>2, CountDisjoint, Zenon
<1>5. /\ Cardinality(S) \in Nat /\ Cardinality(D) \in Nat
      /\ Cardinality(D) = 0 <=> D = {}
  BY <1>1, GroupFinite
<1> QED
  BY <1>3, <1>4, <1>5

\* d is the cache c of SP p with the entries f of ranks attached to p.
LocalStored(p, c, f, d) ==
  /\ DOMAIN d = SpFields /\ d.num = Cur(c) /\ Uniform(d.entries, Cur(c))
  /\ Held(d.entries) = Held(c.entries) \cup Held(f)
  /\ d.sp_ranks = Cardinality(SpRanks(p))
  /\ \A x \in Kept \cup {"pending_entries", "toPeers", "toHosts"} : d[x] = c[x]

\* The part of do_add_group_rank_recv_cb that stores new ranks.
LEMMA StoreLocalVersion ==
  ASSUME GroupSets, NEW p \in SP, NEW c, SpOK(p, c), Uniform(c.entries, c.num),
         RanksCounted(p, c), NEW f \in EntriesOf(SpRanks(p)), Uniform(f, Cur(c)),
         Held(f) \cap Held(c.entries) = {}, NEW d, d = StoreLocal(p, c, f)
  PROVE  LocalStored(p, c, f, d)
<1> DEFINE e == StoreEntries(c, f)
           l == IF e.n_local_ranks = 0 THEN Cardinality(HostRanks(p)) ELSE e.n_local_ranks
           a == e.n_local_ranks_populated + Cardinality(Missing(c, f))
           s == IF e.sp_ranks = 0 THEN Cardinality(SpRanks(p)) ELSE e.sp_ranks
<1>1. f \in EntriesOf(Group) /\ DOMAIN c = SpFields /\ Missing(c, f) # {} /\ CacheOK(c)
  <2>1. f \in EntriesOf(Group) /\ Held(f) # {}
    BY Zenon DEF EntriesOf, SpRanks
  <2> QED
    BY <2>1, SpDomain, SpCacheOK, Zenon DEF Missing
<1>2. e = StoreEntries(c, f)
  BY Zenon
<1>3. d = [e EXCEPT !.n_local_ranks = l, !.n_local_ranks_populated = a, !.sp_ranks = s]
  <2>1. d = [e EXCEPT !.n_local_ranks = IF @ = 0 THEN Cardinality(HostRanks(p)) ELSE @,
                      !.n_local_ranks_populated = @ + Cardinality(Missing(c, f)),
                      !.sp_ranks = IF @ = 0 THEN Cardinality(SpRanks(p)) ELSE @]
    BY <1>1, Zenon DEF StoreLocal
  <2> HIDE DEF e
  <2> QED
    BY <2>1, Zenon
<1> HIDE DEF e
<1>4. Stored(c, f, Cur(c), e)
  BY <1>1, <1>2, StoreVersion, Zenon
<1> HIDE DEF l, a
<1>5. /\ DOMAIN e = SpFields
      /\ \A x \in SpFields \ {"group_size", "num", "entries", "num_local_entries"} : e[x] = c[x]
      /\ e.num = Cur(c) /\ Uniform(e.entries, Cur(c)) /\ Held(e.entries) = Held(c.entries) \cup Held(f)
  BY <1>1, <1>4, Zenon DEF Stored
<1>6. s = Cardinality(SpRanks(p))
  <2>1. e.sp_ranks = c.sp_ranks
    BY <1>5, Zenon DEF SpFields
  <2> QED
    BY <2>1, Zenon DEF RanksCounted
<1> HIDE DEF s
<1>7. /\ DOMAIN d = SpFields /\ d.sp_ranks = s
      /\ \A x \in SpFields \ {"n_local_ranks", "n_local_ranks_populated", "sp_ranks"} : d[x] = e[x]
  BY <1>3, <1>5, Zenon DEF SpFields, CommonFields
<1>8. Kept \cup {"pending_entries", "toPeers", "toHosts"} \subseteq SpFields \
        {"group_size", "num", "entries", "num_local_entries", "n_local_ranks",
         "n_local_ranks_populated", "sp_ranks"}
  BY DEF Kept, SpFields, CommonFields
<1>9. {"entries", "num"} \subseteq SpFields \ {"n_local_ranks", "n_local_ranks_populated", "sp_ranks"}
  BY DEF SpFields, CommonFields
<1>10. d.entries = e.entries /\ d.num = e.num
  BY <1>7, <1>9, Zenon
<1>11. \A x \in Kept \cup {"pending_entries", "toPeers", "toHosts"} : d[x] = c[x]
  BY <1>5, <1>7, <1>8, Zenon
<1> QED
  BY <1>5, <1>6, <1>7, <1>10, <1>11, Zenon DEF LocalStored

\* The SP p tells the other SPs about its ranks once it has them all, and its
\* clients about the cache when it is full at that time.
Exchanged(p, c, d) ==
  /\ DOMAIN d = SpFields
  /\ \A x \in Kept \cup {"entries", "num", "sp_ranks", "pending_entries"} : d[x] = c[x]
  /\ d.toPeers = IF SpRanks(p) \subseteq Held(c.entries)
                 THEN Append(c.toPeers, EntriesMsg(Only(SpRanks(p), c.entries)))
                 ELSE c.toPeers
  /\ \/ d.toHosts = c.toHosts
     \/ Held(c.entries) = Group /\ d.toHosts = Append(c.toHosts, EntriesMsg(c.entries))

\* broadcast_group_cache.
LEMMA BroadcastVersion ==
  ASSUME GroupSets, NEW p \in SP, NEW c, SpOK(p, c), c.global = 0,
         SpRanks(p) \subseteq Held(c.entries), SpRanks(p) # {}, NEW d, d = BroadcastCache(p, c)
  PROVE  Exchanged(p, c, d)
<1> DEFINE t == Append(c.toPeers, EntriesMsg(Only(SpRanks(p), c.entries)))
           e == [c EXCEPT !.toPeers = t]
<1>1. DOMAIN c = SpFields /\ Held(c.entries) # {}
  BY SpDomain, Zenon
<1>2. d = IF e.group_size = e.num_local_entries THEN SendCacheToHost(e) ELSE e
  BY <1>1, Zenon DEF BroadcastCache, SpFields
<1>3. t \in Seq(PeerMsgs(p))
  <2> DEFINE m == EntriesMsg(Only(SpRanks(p), c.entries))
  <2>1. Only(SpRanks(p), c.entries) \in [Group -> Nat]
    BY Zenon DEF Only, SpOK, SpCaches
  <2>2. Held(Only(SpRanks(p), c.entries)) = Held(c.entries) \cap SpRanks(p)
    BY Zenon DEF Only, Held
  <2>3. m \in PeerMsgs(p)
    BY <2>1, <2>2, Zenon DEF PeerMsgs, EntriesMsg, EntriesMsgs, EntriesOf
  <2> HIDE DEF m
  <2>4. c.toPeers \in Seq(PeerMsgs(p))
    BY Zenon DEF SpOK, SpCaches
  <2> QED
    BY <2>3, <2>4 DEF m
<1> HIDE DEF t
<1>4. /\ DOMAIN e = SpFields /\ e.toPeers = t
      /\ \A x \in SpFields \ {"toPeers"} : e[x] = c[x]
  BY <1>1, Zenon DEF SpFields
<1>5. SpOK(p, e)
  <2>1. e \in SpCaches(p)
    BY <1>3, Zenon DEF SpOK, SpCaches
  <2>2. SameForInv(c, e)
    BY Zenon DEF SpOK, SpCaches, SameForInv
  <2> HIDE DEF e
  <2> QED
    BY <2>1, <2>2, SameForInvOK, Zenon DEF SpOK
<1> HIDE DEF e
<1>6. e.global = 0 /\ e.entries = c.entries /\ e.toHosts = c.toHosts
  BY <1>4, Zenon DEF SpFields, CommonFields
<1>7. \/ d = e
      \/ /\ Held(c.entries) = Group /\ DOMAIN d = SpFields
         /\ \A x \in SpFields \ {"toHosts", "ongoing"} : d[x] = e[x]
         /\ d.toHosts = e.toHosts \/ d.toHosts = Append(e.toHosts, EntriesMsg(e.entries))
  <2>1. CASE e.group_size = e.num_local_entries
    <3>1. Held(e.entries) = Group
      BY <2>1, <1>1, <1>5, <1>6, CountIsFull, Zenon
    <3>2. d = SendCacheToHost(e)
      BY <2>1, <1>2, Zenon
    <3> QED
      BY <3>1, <3>2, <1>5, <1>6, SendCacheVersion, Zenon
  <2>2. CASE ~(e.group_size = e.num_local_entries)
    BY <2>2, <1>2, Zenon
  <2> QED
    BY <2>1, <2>2, Zenon
<1>8. DOMAIN d = SpFields /\ \A x \in SpFields \ {"toHosts", "ongoing"} : d[x] = e[x]
  BY <1>4, <1>7, Zenon
<1>9. /\ Kept \cup {"entries", "num", "sp_ranks", "pending_entries"}
           \subseteq SpFields \ {"toHosts", "ongoing", "toPeers"}
      /\ "toPeers" \in SpFields \ {"toHosts", "ongoing"}
  BY DEF Kept, SpFields, CommonFields
<1>10. \A x \in Kept \cup {"entries", "num", "sp_ranks", "pending_entries"} : d[x] = c[x]
  BY <1>4, <1>8, <1>9, Zenon
<1>11. d.toPeers = t
  BY <1>4, <1>8, <1>9, Zenon
<1>12. \/ d.toHosts = c.toHosts
       \/ Held(c.entries) = Group /\ d.toHosts = Append(c.toHosts, EntriesMsg(c.entries))
  BY <1>6, <1>7, Zenon
<1> QED
  BY <1>8, <1>10, <1>11, <1>12, Zenon DEF Exchanged, t

\* GROUP_CACHE_EXCHANGE.
LEMMA ExchangeVersion ==
  ASSUME GroupSets, NEW p \in SP, NEW c, SpOK(p, c), c.global = 0, SpRanks(p) # {},
         c.sp_ranks = Cardinality(SpRanks(p)), NEW d, d = Exchange(p, c)
  PROVE  Exchanged(p, c, d)
<1>1. c.sp_ranks = c.n_local_ranks_populated <=> SpRanks(p) \subseteq Held(c.entries)
  <2>1. /\ Held(c.entries) \cap SpRanks(p) \in SUBSET Group /\ SpRanks(p) \in SUBSET Group
        /\ Held(c.entries) \cap SpRanks(p) \subseteq SpRanks(p)
    BY Zenon DEF SpRanks
  <2>2. Cardinality(Held(c.entries) \cap SpRanks(p)) = Cardinality(SpRanks(p))
          <=> Held(c.entries) \cap SpRanks(p) = SpRanks(p)
    BY <2>1, CountSubset, Zenon
  <2>3. c.n_local_ranks_populated = Cardinality(Held(c.entries) \cap SpRanks(p))
    BY Zenon DEF SpOK, SpCacheInv
  <2> QED
    BY <2>2, <2>3
<1>2. CASE SpRanks(p) \subseteq Held(c.entries)
  <2>1. d = BroadcastCache(p, c)
    BY <1>1, <1>2, Zenon DEF Exchange
  <2> QED
    BY <1>2, <2>1, BroadcastVersion, Zenon
<1>3. CASE ~(SpRanks(p) \subseteq Held(c.entries))
  <2>1. d = c /\ DOMAIN c = SpFields
    BY <1>1, <1>3, SpDomain, Zenon DEF Exchange
  <2> QED
    BY <1>3, <2>1, Zenon DEF Exchanged
<1> QED
  BY <1>2, <1>3, Zenon

\* The SP p adds the entries f of its ranks to the cache c, then those of other
\* SPs that were waiting, and sends what is complete.
LocalAdded(p, c, f, d) ==
  /\ DOMAIN d = SpFields /\ d.num = Cur(c) /\ Uniform(d.entries, Cur(c))
  /\ Held(d.entries) = Held(c.entries) \cup Held(f) \cup Pending(c)
  /\ d.sp_ranks = Cardinality(SpRanks(p)) /\ d.pending_entries = <<>>
  /\ \A x \in Kept : d[x] = c[x]
  /\ d.toPeers = IF SpRanks(p) \subseteq Held(d.entries)
                 THEN <<EntriesMsg(Only(SpRanks(p), d.entries))>> ELSE <<>>
  /\ \/ d.toHosts = <<>>
     \/ Held(d.entries) = Group /\ d.toHosts = <<EntriesMsg(d.entries)>>

\* Entries that wait are of the version of the cache, and they are handled before
\* the last of the SP's own ranks is added.
PendingFits(p, c, f) ==
  /\ \A i \in DOMAIN c.pending_entries : Uniform(c.pending_entries[i].entries, Cur(c))
  /\ c.pending_entries # <<>> => ~(SpRanks(p) \subseteq Held(c.entries) \cup Held(f))

\* do_add_group_rank_recv_cb for ranks that are not in the cache.
LEMMA AddLocalRanksVersion ==
  ASSUME GroupSets, NEW p \in SP, NEW c, SpOK(p, c), c.global = 0, Uniform(c.entries, c.num),
         RanksCounted(p, c), NEW f \in EntriesOf(SpRanks(p)), Uniform(f, Cur(c)),
         Held(f) \cap Held(c.entries) = {}, PendingFits(p, c, f),
         c.toPeers = <<>>, c.toHosts = <<>>, NEW d, d = AddLocalRanks(p, c, f)
  PROVE  LocalAdded(p, c, f, d)
<1> DEFINE e == StoreLocal(p, c, f)
           h == HandlePendingEntries(p, e)
<1>1. /\ e = StoreLocal(p, c, f) /\ h = HandlePendingEntries(p, e) /\ d = Exchange(p, h)
      /\ SpRanks(p) \subseteq Group /\ SpRanks(p) # {} /\ Held(f) # {}
  BY Zenon DEF AddLocalRanks, StoreLocal, EntriesOf, SpRanks
<1>2. SpOK(p, e) /\ e.global = 0
  BY StoreLocalOK, Zenon
<1> HIDE DEF e
<1>3. LocalStored(p, c, f, e)
  BY <1>1, StoreLocalVersion, Zenon
<1>4. /\ e.num = Cur(c) /\ Uniform(e.entries, Cur(c))
      /\ Held(e.entries) = Held(c.entries) \cup Held(f) /\ e.sp_ranks = Cardinality(SpRanks(p))
      /\ e.pending_entries = c.pending_entries /\ e.toPeers = <<>> /\ e.toHosts = <<>>
      /\ DOMAIN e = SpFields /\ \A x \in Kept : e[x] = c[x]
  BY <1>3, Zenon DEF LocalStored
<1>5. Cur(e) = Cur(c) /\ Pending(e) = Pending(c) /\ Held(e.entries) # {}
  <2>1. Held(e.entries) # {}
    BY <1>1, <1>4, Zenon
  <2> QED
    BY <2>1, <1>4, Zenon DEF Cur, Pending
<1>6. SpOK(p, h) /\ h.global = 0
  BY <1>2, HandlePendingEntriesOK, Zenon
<1> HIDE DEF h
<1>7. /\ h.num = Cur(c) /\ Uniform(h.entries, Cur(c))
      /\ Held(h.entries) = Held(e.entries) \cup Pending(c)
      /\ h.sp_ranks = e.sp_ranks /\ h.pending_entries = <<>> /\ h.toPeers = <<>>
      /\ \A x \in Kept : h[x] = e[x]
      /\ h.toHosts = <<>>
  <2>1. CASE c.pending_entries = <<>>
    <3>1. h = e
      BY <1>1, <1>4, <2>1, Zenon DEF HandlePendingEntries
    <3>2. Pending(c) = {}
      <4>1. DOMAIN c.pending_entries = {}
        BY <2>1
      <4> QED
        BY <4>1, Zenon DEF Pending
    <3> QED
      BY <2>1, <3>1, <3>2, <1>4, Zenon
  <2>2. CASE c.pending_entries # <<>>
    <3>1. AddsPeers(e, Pending(e), <<>>, h)
      <4>1. \A i \in DOMAIN e.pending_entries : Uniform(e.pending_entries[i].entries, Cur(e))
        BY <1>4, <1>5, Zenon DEF PendingFits
      <4>2. e.pending_entries # <<>> /\ Uniform(e.entries, e.num)
        BY <2>2, <1>4, Zenon
      <4> QED
        BY <1>1, <1>2, <4>1, <4>2, PendingEntriesVersion, Zenon
    <3>2. /\ Adds(e, h, Cur(c)) /\ SendsFull(e, h) /\ Held(h.entries) = Held(e.entries) \cup Pending(c)
          /\ h.sp_ranks = e.sp_ranks /\ h.pending_entries = <<>> /\ h.toPeers = <<>>
      BY <3>1, <1>4, <1>5, Zenon DEF AddsPeers
    <3>3. Held(h.entries) # Group
      <4>1. Pending(e) \subseteq Others(p)
        <5>1. \A i \in DOMAIN e.pending_entries : Uniform(e.pending_entries[i].entries, Cur(c))
          BY <1>4, Zenon DEF PendingFits
        <5> QED
          BY <1>2, <5>1, PendingHolds, Zenon
      <4>2. ~(SpRanks(p) \subseteq Held(e.entries))
        BY <2>2, <1>4, Zenon DEF PendingFits
      <4> QED
        BY <4>1, <4>2, <3>2, <1>1, <1>5, Zenon DEF Others
    <3> QED
      BY <3>2, <3>3, <1>4, Zenon DEF Adds, SendsFull
  <2> QED
    BY <2>1, <2>2, Zenon
<1>8. Exchanged(p, h, d)
  <2>1. h.sp_ranks = Cardinality(SpRanks(p))
    BY <1>4, <1>7, Zenon
  <2> QED
    BY <2>1, <1>1, <1>6, ExchangeVersion, Zenon
<1>9. /\ DOMAIN d = SpFields /\ d.num = h.num /\ d.entries = h.entries
      /\ d.sp_ranks = h.sp_ranks /\ d.pending_entries = <<>>
      /\ \A x \in Kept : d[x] = h[x]
  BY <1>7, <1>8, Zenon DEF Exchanged
<1>10. \A m : Append(<<>>, m) = <<m>>
  OBVIOUS
<1>11. d.toPeers = IF SpRanks(p) \subseteq Held(d.entries)
                   THEN <<EntriesMsg(Only(SpRanks(p), d.entries))>> ELSE <<>>
  BY <1>7, <1>8, <1>9, <1>10, Zenon DEF Exchanged
<1>12. \/ d.toHosts = <<>>
       \/ Held(d.entries) = Group /\ d.toHosts = <<EntriesMsg(d.entries)>>
  BY <1>7, <1>8, <1>9, <1>10, Zenon DEF Exchanged
<1>13. \A x \in Kept : d[x] = c[x]
  BY <1>4, <1>7, <1>9, Zenon
<1> QED
  BY <1>4, <1>7, <1>9, <1>11, <1>12, <1>13, Zenon DEF LocalAdded

-----------------------------------------------------------------------------
(* The steps of an SP *)

\* The positions of an SP in its own stream to the other SPs, and to its clients.
LEMMA UpCases ==
  ASSUME NEW p, NEW c, c.num \in Nat
  PROVE  /\ Cur(c) \in Nat
         /\ SpRanks(p) \subseteq c.revoked => SpUp(p, c) = 2 * Cur(c) + 1
         /\ ~(SpRanks(p) \subseteq c.revoked) /\ SpRanks(p) \subseteq Held(c.entries)
              => SpUp(p, c) = 2 * Cur(c)
         /\ ~(SpRanks(p) \subseteq c.revoked) /\ ~(SpRanks(p) \subseteq Held(c.entries))
              => SpUp(p, c) = 2 * Cur(c) - 1
<1>1. Cur(c) \in Nat
  BY DEF Cur
<1> QED
  BY <1>1 DEF SpUp

\* Where an SP is in the stream to its ranks.
LEMMA DownCases ==
  ASSUME NEW c, c.num \in Nat
  PROVE  /\ Cur(c) \in Nat
         /\ c.revoked = Group => SpDown(c) = 2 * Cur(c) + 1
         /\ c.revoked # Group /\ Held(c.entries) = Group => SpDown(c) = 2 * Cur(c)
         /\ c.revoked # Group /\ Held(c.entries) # Group => SpDown(c) = 2 * Cur(c) - 1
<1>1. Cur(c) \in Nat
  BY DEF Cur
<1> QED
  BY <1>1 DEF SpDown

\* The final revoke of the version a cache holds, or is about to start, is not
\* posted before somebody revoked.
LEMMA CurNotPosted ==
  ASSUME GroupSets, NEW p, NEW c, SpOK(p, c), SpVer(p, c), c.revoked = {}, Group # {}
  PROVE  Cur(c) # c.revoke_posted
<1>1. c.num \in Nat /\ c.revoke_posted \in Nat
  BY Zenon DEF SpOK, SpCaches
<1>2. CASE Held(c.entries) = {}
  <2>1. c.num_local_entries = 0
    BY <1>2, CountIsZero, Zenon DEF SpOK, SpCacheInv
  <2>2. c.num = c.revoke_posted /\ Cur(c) = c.num + 1
    BY <2>1, <1>2, Zenon DEF SpOK, SpCacheInv, Cur
  <2> QED
    BY <2>2, <1>1
<1>3. CASE Held(c.entries) # {}
  BY <1>3, Zenon DEF SpVer, SpCore, Cur
<1> QED
  BY <1>2, <1>3, Zenon

\* What goes to the clients when entries are added.
LEMMA AddsDown ==
  ASSUME GroupSets, NEW c, NEW d, c.num \in Nat, d.num = Cur(c), d.entries \in [Group -> Nat],
         Uniform(d.entries, Cur(c)), Held(d.entries) # {}, c.revoked = {}, d.revoked = {}, Group # {},
         \/ d.toHosts = <<>> /\ (Held(c.entries) = Group => Held(d.entries) = Group)
         \/ /\ Held(c.entries) # Group /\ Held(d.entries) = Group
            /\ d.toHosts = <<EntriesMsg(d.entries)>>
  PROVE  SendsDown(c, d)
<1>1. Cur(d) = Cur(c) /\ Cur(c) \in Nat /\ d.num \in Nat
  BY PositionsInt, Zenon DEF Cur
<1>2. CASE d.toHosts = <<>> /\ (Held(c.entries) = Group => Held(d.entries) = Group)
  <2>1. \/ SpDown(c) = 2 * Cur(c) /\ SpDown(d) = 2 * Cur(c)
        \/ SpDown(c) = 2 * Cur(c) - 1 /\ SpDown(d) = 2 * Cur(c)
        \/ SpDown(c) = 2 * Cur(c) - 1 /\ SpDown(d) = 2 * Cur(c) - 1
    BY <1>1, <1>2, DownCases, Zenon
  <2>2. SpDown(c) <= SpDown(d)
    BY <2>1, <1>1
  <2> QED
    BY <2>2, <1>2, Zenon DEF SendsDown
<1>3. CASE /\ Held(c.entries) # Group /\ Held(d.entries) = Group
           /\ d.toHosts = <<EntriesMsg(d.entries)>>
  <2> DEFINE m == EntriesMsg(d.entries)
  <2>1. Key(m) = 2 * Cur(c) /\ m.entries = d.entries /\ FirstSeq(m) = Cur(c)
    BY EntriesKey, Zenon
  <2>2. SpDown(d) = 2 * Cur(c) /\ SpDown(c) = 2 * Cur(c) - 1
    BY <1>1, <1>3, DownCases, Zenon
  <2>3. SpDown(c) < SpDown(d)
    BY <1>1, <2>2
  <2>4. d.toHosts = <<m>>
    BY <1>3, Zenon
  <2>5. Uniform(m.entries, FirstSeq(m))
    BY <2>1, Zenon
  <2> HIDE DEF m
  <2> QED
    BY <2>1, <2>2, <2>3, <2>4, <2>5, Zenon DEF SendsDown
<1> QED
  BY <1>2, <1>3, Zenon

\* A step that adds ranks of the SP.
LEMMA LocalAddedStep ==
  ASSUME GroupSets, NEW p \in SP, NEW c, SpOK(p, c), SpVer(p, c), c.revoked = {},
         NEW f \in EntriesOf(SpRanks(p)), Held(f) \cap Held(c.entries) = {},
         NEW d, LocalAdded(p, c, f, d), SpOK(p, d)
  PROVE  SpStep(p, c, d, Held(f), {}, 2 * Cur(c) + 1)
<1>1. /\ Held(f) \subseteq SpRanks(p) /\ Held(f) # {} /\ SpRanks(p) # {}
      /\ SpRanks(p) \subseteq Group
  BY Zenon DEF EntriesOf, SpRanks
<1>2. /\ d.num = Cur(c) /\ Uniform(d.entries, Cur(c))
      /\ Held(d.entries) = Held(c.entries) \cup Held(f) \cup Pending(c)
      /\ d.sp_ranks = Cardinality(SpRanks(p)) /\ d.pending_entries = <<>>
      /\ d.toPeers = IF SpRanks(p) \subseteq Held(d.entries)
                     THEN <<EntriesMsg(Only(SpRanks(p), d.entries))>> ELSE <<>>
      /\ \/ d.toHosts = <<>>
         \/ Held(d.entries) = Group /\ d.toHosts = <<EntriesMsg(d.entries)>>
  BY Zenon DEF LocalAdded
<1>3. /\ d.local = c.local /\ d.global = c.global /\ d.failed = c.failed
      /\ d.revoke_posted = c.revoke_posted /\ d.revoked = {}
      /\ d.pending_revokes_from_sps = c.pending_revokes_from_sps
      /\ d.pending_revokes_from_ranks = c.pending_revokes_from_ranks
      /\ d.pending_adds = c.pending_adds
  BY Zenon DEF LocalAdded, Kept
<1>4. /\ DOMAIN c.pending_revokes_from_sps = {} /\ DOMAIN c.pending_adds = {}
      /\ DOMAIN d.pending_entries = {}
  <2>1. Held(c.entries) # Group /\ {} # Group
    BY <1>1, Zenon
  <2>2. DOMAIN c.pending_revokes_from_sps = {} /\ DOMAIN c.pending_adds = {}
    BY <2>1, Zenon DEF SpVer, AddsVer, RevokesVer
  <2>3. DOMAIN d.pending_entries = {}
    BY <1>2
  <2> QED
    BY <2>2, <2>3
<1>5. Held(d.entries) # {} /\ Held(d.entries) \cap SpRanks(p) # {} /\ Cur(d) = Cur(c)
  <2>1. Held(d.entries) # {} /\ Held(d.entries) \cap SpRanks(p) # {}
    BY <1>1, <1>2, Zenon
  <2> QED
    BY <2>1, <1>2, Zenon DEF Cur
<1>6. c.num \in Nat /\ d.num \in Nat /\ d.entries \in [Group -> Nat] /\ c.revoke_posted \in Nat
  BY Zenon DEF SpOK, SpCaches
<1>7. d.num # d.revoke_posted
  BY <1>1, <1>2, <1>3, CurNotPosted, Zenon
<1>8. SpVer(p, d)
  <2>1. Uniform(d.entries, d.num) /\ d.failed = {}
    BY <1>2, <1>3, Zenon DEF SpVer, SpCore
  <2>2. d.global = Cardinality(d.revoked) /\ d.local = Cardinality(d.revoked \cap SpRanks(p))
    BY <1>3, Zenon DEF SpVer, SpCore
  <2>3. d.revoked # {} => Held(d.entries) = Group
    BY <1>3, Zenon
  <2>4. Held(d.entries) # {} => (d.num = d.revoke_posted <=> d.revoked = Group)
    BY <1>1, <1>3, <1>7, Zenon
  <2>5. d.revoked \cap Others(p) = {} \/ Others(p) \subseteq d.revoked
    BY <1>3, Zenon
  <2>6. RanksCounted(p, d)
    BY <1>2, <1>5, Zenon DEF RanksCounted
  <2>7. d.pending_revokes_from_ranks = <<>>
    BY <1>3, Zenon DEF SpVer, SpCore
  <2>8. SpCore(p, d)
    BY <2>1, <2>2, <2>3, <2>4, <2>5, <2>6, <2>7, Zenon DEF SpCore
  <2>9. AddsVer(d) /\ EntriesVer(d) /\ RevokesVer(p, d)
    BY <1>3, <1>4, Zenon DEF AddsVer, EntriesVer, RevokesVer
  <2> QED
    BY <2>8, <2>9, Zenon DEF SpVer
<1>9. SendsUp(p, c, d)
  <2>1. ~(SpRanks(p) \subseteq Held(c.entries)) /\ ~(SpRanks(p) \subseteq c.revoked)
        /\ ~(SpRanks(p) \subseteq d.revoked)
    BY <1>1, <1>3, Zenon
  <2>2. Cur(c) \in Nat /\ SpUp(p, c) = 2 * Cur(c) - 1
    BY <1>6, <2>1, UpCases, ZenonT(30)
  <2>3. CASE SpRanks(p) \subseteq Held(d.entries)
    <3> DEFINE g == Only(SpRanks(p), d.entries)
               m == EntriesMsg(g)
    <3>1. g \in [Group -> Nat] /\ Held(g) = SpRanks(p) /\ Uniform(g, Cur(c))
      <4>1. g \in [Group -> Nat]
        BY <1>6, Zenon DEF Only
      <4>2. Held(g) = SpRanks(p)
        BY <2>3, <1>1, Zenon DEF Only, Held
      <4>3. Uniform(g, Cur(c))
        BY <1>2, <4>2, <2>3, <1>1, Zenon DEF Only, Uniform
      <4> QED
        BY <4>1, <4>2, <4>3
    <3> HIDE DEF g
    <3>2. Key(m) = 2 * Cur(c) /\ m.type = "entries" /\ m.entries = g /\ FirstSeq(m) = Cur(c)
      BY <3>1, <1>1, EntriesKey, Zenon
    <3>3. SpUp(p, d) = 2 * Cur(c)
      BY <2>1, <2>3, <1>5, <1>6, UpCases, Zenon
    <3>4. d.toPeers = <<m>>
      BY <2>3, <1>2, Zenon DEF g
    <3>5. UpMsg(p, c, m)
      BY <3>1, <3>2, Zenon DEF UpMsg
    <3> HIDE DEF m
    <3>6. SpUp(p, d) = SpUp(p, c) + 1
      BY <2>2, <3>3
    <3> QED
      BY <3>2, <3>3, <3>4, <3>5, <3>6, Zenon DEF SendsUp
  <2>4. CASE ~(SpRanks(p) \subseteq Held(d.entries))
    <3>1. SpUp(p, d) = 2 * Cur(c) - 1
      BY <2>1, <2>4, <1>5, <1>6, UpCases, Zenon
    <3> QED
      BY <2>2, <2>4, <3>1, <1>2, Zenon DEF SendsUp
  <2> QED
    BY <2>3, <2>4, Zenon
<1>10. SendsDown(c, d)
  <2>1. Held(c.entries) # Group /\ Group # {}
    BY <1>1, Zenon
  <2> QED
    BY <2>1, <1>2, <1>3, <1>5, <1>6, AddsDown, Zenon
<1>11. Added(c) = {} /\ Added(d) = {} /\ c.pending_revokes_from_sps = <<>>
  <2>1. Added(c) = {} /\ Added(d) = {}
    BY <1>3, <1>4, Zenon DEF Added
  <2>2. c.pending_revokes_from_sps \in Seq(SpRevokeMsgs)
    BY Zenon DEF SpOK, SpCaches
  <2>3. c.pending_revokes_from_sps = <<>>
    BY <2>2, <1>4, EmptyDomain, Zenon
  <2> QED
    BY <2>1, <2>3, Zenon
<1>12. Pending(d) = {} /\ Pending(c) \subseteq Others(p)
  <2>1. Pending(c) \subseteq Others(p)
    <3>1. \A i \in DOMAIN c.pending_entries : Uniform(c.pending_entries[i].entries, c.num + 1)
      BY Zenon DEF SpVer, EntriesVer
    <3> QED
      BY <3>1, PendingHolds, Zenon
  <2> QED
    BY <2>1, <1>4, Zenon DEF Pending
<1>13. ASSUME NEW r \in SpRanks(p)
       PROVE  /\ r \in Held(f) => FromRanks(d, r) = 2 * Cur(c) + 1
              /\ r \notin Held(f) => FromRanks(d, r) = FromRanks(c, r)
  <2>1. r \in Held(d.entries) <=> r \in Held(c.entries) \/ r \in Held(f)
    BY <1>2, <1>12, Zenon DEF Others
  <2> QED
    BY <2>1, <1>3, <1>5, <1>11, Zenon DEF FromRanks
<1>14. ASSUME NEW r \in Others(p)
       PROVE  FromPeer(d, r) = FromPeer(c, r)
  <2>1. r \notin Held(f)
    BY <1>1, Zenon DEF Others
  <2>2. CASE r \in Pending(c)
    <3>1. Held(c.entries) = {}
      BY <2>2, Zenon DEF Pending, SpVer, EntriesVer
    <3>2. Cur(d) = c.num + 1 /\ r \in Held(d.entries)
      BY <2>2, <3>1, <1>2, <1>5, Zenon DEF Cur
    <3>3. FromPeer(d, r) = 2 * Cur(d) + 1 /\ FromPeer(c, r) = 2 * c.num + 3
      BY <2>2, <3>2, <1>3, <1>11, <1>12, Zenon DEF FromPeer
    <3> QED
      BY <3>2, <3>3, <1>6, SMTT(30)
  <2>3. CASE r \notin Pending(c)
    <3>1. r \in Held(d.entries) <=> r \in Held(c.entries)
      BY <2>1, <2>3, <1>2, Zenon
    <3> QED
      BY <3>1, <2>3, <1>3, <1>5, <1>11, <1>12, Zenon DEF FromPeer
  <2> QED
    BY <2>2, <2>3, Zenon
<1>15. \A r \in Held(f) : FromRanks(d, r) = 2 * Cur(c) + 1
  BY <1>1, <1>13, Zenon
<1>16. \A r \in SpRanks(p) \ Held(f) : FromRanks(d, r) = FromRanks(c, r)
  BY <1>13, Zenon
<1> QED
  BY <1>3, <1>8, <1>9, <1>10, <1>14, <1>15, <1>16, ZenonT(30) DEF SpStep

\* An assertion that holds leaves no trace.
LEMMA NothingFails ==
  ASSUME NEW p, NEW c, SpOK(p, c), NEW a, a = {}
  PROVE  [c EXCEPT !.failed = @ \cup a] = c
<1>1. c.failed \cup a = c.failed
  OBVIOUS
<1>2. [c EXCEPT !.failed = @ \cup a] = [c EXCEPT !.failed = c.failed]
  BY <1>1, Zenon DEF SpOK, SpCaches
<1> QED
  BY <1>2, Zenon DEF SpOK, SpCaches

\* A cache without revokes counts none.
LEMMA NoneRevoked ==
  ASSUME GroupSets, NEW p, NEW c, SpOK(p, c), SpVer(p, c)
  PROVE  /\ c.global = 0 <=> c.revoked = {}
         /\ c.global > 0 <=> c.revoked # {}
<1>1. c.revoked \in SUBSET Group /\ c.global = Cardinality(c.revoked) /\ c.global \in Nat
  BY SpNumbers, Zenon DEF SpVer, SpCore
<1>2. Cardinality(c.revoked) = 0 <=> c.revoked = {}
  BY <1>1, GroupFinite, Zenon
<1> QED
  BY <1>1, <1>2

\* An SP handles the add that it waits for from one of its ranks, or the next one
\* once the current version is revoked everywhere.
LEMMA RecvAddStep ==
  ASSUME GroupSets, NEW p \in SP, NEW c, SpOK(p, c), SpVer(p, c), c.toPeers = <<>>, c.toHosts = <<>>,
         NEW r \in SpRanks(p), ~(SpRanks(p) \subseteq {r}), NEW m \in AddMsgs({r}),
         \/ m.seq = Cur(c) /\ r \notin Held(c.entries)
         \/ m.seq = Cur(c) + 1 /\ c.revoked = Group,
         NEW d, d = AddRecv(p, c, r, m), SpOK(p, d)
  PROVE  SpStep(p, c, d, {r}, {}, 2 * m.seq + 1)
<1>1. m.seq \in Nat /\ m.seq # 0 /\ m.rank = r /\ m.type = "add" /\ r \in Group /\ Group # {}
  BY Zenon DEF AddMsgs, Version, SpRanks
<1>2. c.num \in Nat /\ Cur(c) \in Nat /\ (Cur(c) = c.num \/ Cur(c) = c.num + 1)
  BY SpNumbers, PositionsInt, Zenon DEF Cur
<1>3. m.seq >= c.num
  BY <1>2
<1>4. d = IF c.global > 0 THEN [c EXCEPT !.pending_adds = Append(@, m)]
          ELSE AddLocalRanks(p, c, Entry(r, m.seq))
  <2>1. Unless(m.seq >= c.num, "add_seq") = {}
    BY <1>3, Zenon DEF Unless
  <2>2. [c EXCEPT !.failed = @ \cup Unless(m.seq >= c.num, "add_seq")] = c
    BY <2>1, NothingFails, Zenon
  <2> QED
    BY <2>2, Zenon DEF AddRecv
<1>5. CASE m.seq = Cur(c) /\ r \notin Held(c.entries)
  <2> DEFINE f == Entry(r, m.seq)
  <2>1. c.revoked = {} /\ c.global = 0
    BY <1>1, <1>5, NoneRevoked, Zenon DEF SpVer, SpCore
  <2>2. d = AddLocalRanks(p, c, f)
    BY <2>1, <1>4
  <2>3. /\ f \in EntriesOf(SpRanks(p)) /\ Held(f) = {r} /\ Uniform(f, Cur(c))
        /\ Held(f) \cap Held(c.entries) = {}
    <3>1. f \in [Group -> Nat] /\ Held(f) = {r} /\ f[r] = m.seq
      BY <1>1, Zenon DEF Entry, Held
    <3> HIDE DEF f
    <3> QED
      BY <3>1, <1>5, Zenon DEF EntriesOf, Uniform
  <2> HIDE DEF f
  <2>4. PendingFits(p, c, f)
    <3>1. ASSUME c.pending_entries # <<>> PROVE Held(c.entries) = {} /\ Cur(c) = c.num + 1
      <4>1. c.pending_entries \in Seq(EntriesMsgs(Group \ SpRanks(p)))
        BY Zenon DEF SpOK, SpCaches
      <4>2. DOMAIN c.pending_entries # {}
        BY <3>1, <4>1, EmptyDomain, Zenon
      <4>3. Held(c.entries) = {}
        BY <4>2, <2>1, Zenon DEF SpVer, EntriesVer
      <4> QED
        BY <4>3, Zenon DEF Cur
    <3>2. \A i \in DOMAIN c.pending_entries : Uniform(c.pending_entries[i].entries, Cur(c))
      <4>1. CASE c.pending_entries = <<>>
        BY <4>1
      <4>2. CASE c.pending_entries # <<>>
        BY <4>2, <3>1, Zenon DEF SpVer, EntriesVer
      <4> QED
        BY <4>1, <4>2, Zenon
    <3>3. c.pending_entries # <<>> => ~(SpRanks(p) \subseteq Held(c.entries) \cup Held(f))
      BY <3>1, <2>3, Zenon
    <3> QED
      BY <3>2, <3>3, Zenon DEF PendingFits
  <2>5. Uniform(c.entries, c.num) /\ RanksCounted(p, c)
    BY Zenon DEF SpVer, SpCore
  <2>6. LocalAdded(p, c, f, d)
    BY <2>1, <2>2, <2>3, <2>4, <2>5, AddLocalRanksVersion, Zenon
  <2>7. SpStep(p, c, d, Held(f), {}, 2 * Cur(c) + 1)
    BY <2>1, <2>3, <2>6, LocalAddedStep, Zenon
  <2> QED
    BY <2>3, <2>7, <1>5, Zenon
<1>6. CASE m.seq = Cur(c) + 1 /\ c.revoked = Group
  <2> DEFINE a == Append(c.pending_adds, m)
  <2>1. c.global > 0 /\ Held(c.entries) = Group /\ Cur(c) = c.num
    BY <1>1, <1>6, NoneRevoked, Zenon DEF SpVer, SpCore, Cur
  <2>2. d = [c EXCEPT !.pending_adds = a]
    BY <2>1, <1>4, Zenon DEF SpOK, SpCaches
  <2>3. /\ \A i \in DOMAIN a : a[i] = m \/ (i \in DOMAIN c.pending_adds /\ a[i] = c.pending_adds[i])
        /\ \A i \in DOMAIN c.pending_adds : i \in DOMAIN a /\ a[i] = c.pending_adds[i]
        /\ \E i \in DOMAIN a : a[i] = m
    <3>1. c.pending_adds \in Seq(AddMsgs(SpRanks(p)))
      BY Zenon DEF SpOK, SpCaches
    <3>2. m \in AddMsgs(SpRanks(p))
      BY Zenon DEF AddMsgs
    <3>3. Appended(c.pending_adds, m, a)
      BY <3>1, <3>2, AppendElements, Zenon
    <3> HIDE DEF a
    <3> QED
      BY <3>3, Zenon DEF Appended
  <2> HIDE DEF a
  <2>4. /\ DOMAIN d = SpFields /\ d.pending_adds = a
        /\ \A x \in SpFields \ {"pending_adds"} : d[x] = c[x]
    <3>1. DOMAIN c = SpFields
      BY SpDomain, Zenon
    <3> QED
      BY <3>1, <2>2, Zenon DEF SpFields
  <2>5. /\ d.num = c.num /\ d.entries = c.entries /\ d.revoked = c.revoked
        /\ d.failed = c.failed /\ d.global = c.global /\ d.local = c.local
        /\ d.revoke_posted = c.revoke_posted /\ d.sp_ranks = c.sp_ranks
        /\ d.pending_revokes_from_ranks = c.pending_revokes_from_ranks
        /\ d.pending_revokes_from_sps = c.pending_revokes_from_sps
        /\ d.pending_entries = c.pending_entries
        /\ d.toPeers = <<>> /\ d.toHosts = <<>>
    BY <2>4, Zenon DEF SpFields, CommonFields
  <2>6. Added(d) = Added(c) \cup {r}
    <3>1. ASSUME NEW s \in Added(d) PROVE s \in Added(c) \cup {r}
      <4>1. PICK i \in DOMAIN a : s = a[i].rank
        BY <2>4, Zenon DEF Added
      <4> QED
        BY <4>1, <2>3, <1>1, Zenon DEF Added
    <3>2. r \in Added(d)
      BY <2>3, <2>4, <1>1, Zenon DEF Added
    <3>3. ASSUME NEW s \in Added(c) PROVE s \in Added(d)
      <4>1. PICK i \in DOMAIN c.pending_adds : s = c.pending_adds[i].rank
        BY Zenon DEF Added
      <4> QED
        BY <4>1, <2>3, <2>4, Zenon DEF Added
    <3> QED
      BY <3>1, <3>2, <3>3, Zenon
  <2>7. Cur(d) = Cur(c) /\ SpUp(p, d) = SpUp(p, c) /\ SpDown(d) = SpDown(c) /\ SpDown(c) \in Int
    BY <2>5, <1>2, SamePositions, PositionsInt, Zenon
  <2>8. SpVer(p, d)
    <3>1. AddsVer(d)
      <4> SUFFICES ASSUME NEW i \in DOMAIN a PROVE a[i].seq = c.num + 1
        BY <2>4, <2>5, <1>6, Zenon DEF AddsVer
      <4>1. \A j \in DOMAIN c.pending_adds : c.pending_adds[j].seq = c.num + 1
        BY Zenon DEF SpVer, AddsVer
      <4> QED
        BY <4>1, <2>1, <2>3, <1>6, Zenon
    <3>2. SpCore(p, d)
      BY <2>5, Zenon DEF SpVer, SpCore, RanksCounted
    <3>3. EntriesVer(d)
      BY <2>5, Zenon DEF SpVer, EntriesVer
    <3>4. RevokesVer(p, d)
      BY <2>5, Zenon DEF SpVer, RevokesVer
    <3> QED
      BY <3>1, <3>2, <3>3, <3>4, Zenon DEF SpVer
  <2>9. SendsUp(p, c, d) /\ SendsDown(c, d)
    <3>1. SpDown(c) <= SpDown(d)
      BY <2>7
    <3> QED
      BY <3>1, <2>5, <2>7, Zenon DEF SendsUp, SendsDown
  <2>10. \A s \in SpRanks(p) \ {r} : FromRanks(d, s) = FromRanks(c, s)
    BY <2>5, <2>6, <2>7, Zenon DEF FromRanks
  <2>11. \A s \in Others(p) : FromPeer(d, s) = FromPeer(c, s)
    <3>1. Pending(d) = Pending(c)
      BY <2>5, Zenon DEF Pending
    <3> QED
      BY <3>1, <2>5, <2>7, Zenon DEF FromPeer
  <2>12. FromRanks(d, r) = 2 * m.seq + 1
    <3>1. FromRanks(d, r) = 2 * Cur(c) + 3
      BY <2>6, <2>7, Zenon DEF FromRanks
    <3> QED
      BY <3>1, <1>2, <1>6
  <2> QED
    BY <2>5, <2>8, <2>9, <2>10, <2>11, <2>12, Zenon DEF SpStep
<1> QED
  BY <1>5, <1>6, Zenon

\* Entries of the next version are queued.
LEMMA QueueStep ==
  ASSUME GroupSets, NEW p \in SP, NEW c, SpOK(p, c), SpVer(p, c), c.toPeers = <<>>, c.toHosts = <<>>,
         NEW r \in Others(p), NEW m \in EntriesMsgs(Others(p)), Held(m.entries) = {r},
         m.entries[r] = c.num + 1, c.num # 0, Held(c.entries) = {} \/ c.revoked # {},
         NEW d, d = QueueEntries(c, m)
  PROVE  SpStep(p, c, d, {}, {r}, 2 * c.num + 3)
<1> DEFINE a == Append(c.pending_entries, m)
<1>1. d = [c EXCEPT !.pending_entries = a] /\ DOMAIN c = SpFields /\ c.num \in Nat
  BY SpDomain, SpNumbers, Zenon DEF QueueEntries
<1>2. /\ \A i \in DOMAIN a : a[i] = m \/ (i \in DOMAIN c.pending_entries /\ a[i] = c.pending_entries[i])
      /\ \A i \in DOMAIN c.pending_entries : i \in DOMAIN a /\ a[i] = c.pending_entries[i]
      /\ \E i \in DOMAIN a : a[i] = m
  <2>1. c.pending_entries \in Seq(EntriesMsgs(Others(p)))
    BY Zenon DEF SpOK, SpCaches, Others
  <2>2. Appended(c.pending_entries, m, a)
    BY <2>1, AppendElements, Zenon
  <2> HIDE DEF a
  <2> QED
    BY <2>2, Zenon DEF Appended
<1> HIDE DEF a
<1>3. d.pending_entries = a /\ \A x \in SpFields \ {"pending_entries"} : d[x] = c[x]
  BY <1>1, Zenon DEF SpFields, CommonFields
<1>4. /\ d.num = c.num /\ d.entries = c.entries /\ d.revoked = c.revoked
      /\ d.failed = c.failed /\ d.global = c.global /\ d.local = c.local
      /\ d.revoke_posted = c.revoke_posted /\ d.sp_ranks = c.sp_ranks
      /\ d.pending_revokes_from_ranks = c.pending_revokes_from_ranks
      /\ d.pending_revokes_from_sps = c.pending_revokes_from_sps
      /\ d.pending_adds = c.pending_adds
      /\ d.toPeers = <<>> /\ d.toHosts = <<>>
  BY <1>3, Zenon DEF SpFields, CommonFields
<1>5. Pending(d) = Pending(c) \cup {r}
  <2>1. ASSUME NEW s \in Pending(d) PROVE s \in Pending(c) \cup {r}
    <3>1. PICK i \in DOMAIN a : s \in Held(a[i].entries)
      BY <1>3, Zenon DEF Pending
    <3> QED
      BY <3>1, <1>2, Zenon DEF Pending
  <2>2. ASSUME NEW s \in Pending(c) PROVE s \in Pending(d)
    <3>1. PICK i \in DOMAIN c.pending_entries : s \in Held(c.pending_entries[i].entries)
      BY Zenon DEF Pending
    <3>2. i \in DOMAIN a /\ s \in Held(a[i].entries)
      BY <3>1, <1>2, Zenon
    <3> QED
      BY <3>2, <1>3, Zenon DEF Pending
  <2>3. r \in Pending(d)
    <3>1. PICK i \in DOMAIN a : a[i] = m
      BY <1>2, Zenon
    <3> QED
      BY <3>1, <1>3, Zenon DEF Pending
  <2> QED
    BY <2>1, <2>2, <2>3, Zenon
<1>6. Cur(d) = Cur(c) /\ SpUp(p, d) = SpUp(p, c) /\ SpDown(d) = SpDown(c) /\ SpDown(c) \in Int
  <2>1. Cur(d) = Cur(c) /\ SpUp(p, d) = SpUp(p, c) /\ SpDown(d) = SpDown(c)
    BY <1>4, SamePositions, Zenon
  <2>2. SpDown(c) \in Int
    BY <1>1, PositionsInt, Zenon
  <2> QED
    BY <2>1, <2>2, Zenon
<1>7. SpVer(p, d)
  <2>1. EntriesVer(d)
    <3> SUFFICES ASSUME NEW i \in DOMAIN a PROVE Uniform(a[i].entries, c.num + 1)
      BY <1>3, <1>4, Zenon DEF EntriesVer
    <3>1. \A j \in DOMAIN c.pending_entries : Uniform(c.pending_entries[j].entries, c.num + 1)
      BY Zenon DEF SpVer, EntriesVer
    <3>2. Uniform(m.entries, c.num + 1)
      BY Zenon DEF Uniform
    <3> QED
      BY <3>1, <3>2, <1>2, Zenon
  <2>2. SpCore(p, d)
    BY <1>4, Zenon DEF SpVer, SpCore, RanksCounted
  <2>3. AddsVer(d)
    BY <1>4, Zenon DEF SpVer, AddsVer
  <2>4. RevokesVer(p, d)
    BY <1>4, Zenon DEF SpVer, RevokesVer
  <2> QED
    BY <2>1, <2>2, <2>3, <2>4, Zenon DEF SpVer
<1>8. SendsUp(p, c, d) /\ SendsDown(c, d)
  <2>1. SpDown(c) <= SpDown(d)
    BY <1>6
  <2> QED
    BY <2>1, <1>4, <1>6, Zenon DEF SendsUp, SendsDown
<1>9. \A s \in SpRanks(p) : FromRanks(d, s) = FromRanks(c, s)
  <2>1. Added(d) = Added(c)
    BY <1>4, Zenon DEF Added
  <2> QED
    BY <2>1, <1>4, <1>6, Zenon DEF FromRanks
<1>10. \A s \in Others(p) \ {r} : FromPeer(d, s) = FromPeer(c, s)
  BY <1>4, <1>5, <1>6, Zenon DEF FromPeer
<1>11. FromPeer(d, r) = 2 * c.num + 3
  BY <1>4, <1>5, Zenon DEF FromPeer
<1> QED
  BY <1>4, <1>7, <1>8, <1>9, <1>10, <1>11, Zenon DEF SpStep

\* Entries of the version an SP is at are added.
LEMMA PeerAddedStep ==
  ASSUME GroupSets, NEW p \in SP, NEW c, SpOK(p, c), SpVer(p, c), c.toPeers = <<>>, c.toHosts = <<>>,
         NEW r \in Others(p), r \notin Held(c.entries), c.revoked = {},
         c.num = 0 \/ Held(c.entries) # {},
         NEW d, SpOK(p, d), AddsPeers(c, {r}, c.pending_entries, d)
  PROVE  SpStep(p, c, d, {}, {r}, 2 * Cur(c) + 1)
<1>1. r \in Group /\ Group # {} /\ r \notin SpRanks(p) /\ Held(c.entries) # Group
  BY Zenon DEF Others
<1>2. /\ d.num = Cur(c) /\ Uniform(d.entries, Cur(c)) /\ Held(d.entries) = Held(c.entries) \cup {r}
      /\ d.sp_ranks = c.sp_ranks /\ d.pending_entries = c.pending_entries
      /\ d.toPeers = <<>> /\ SendsFull(c, d) /\ \A x \in Kept : d[x] = c[x]
  BY Zenon DEF AddsPeers, Adds
<1>3. /\ d.local = c.local /\ d.global = c.global /\ d.failed = c.failed
      /\ d.revoke_posted = c.revoke_posted /\ d.revoked = {}
      /\ d.pending_revokes_from_sps = c.pending_revokes_from_sps
      /\ d.pending_revokes_from_ranks = c.pending_revokes_from_ranks
      /\ d.pending_adds = c.pending_adds
  BY <1>2, Zenon DEF Kept
<1>4. /\ DOMAIN c.pending_revokes_from_sps = {} /\ DOMAIN c.pending_adds = {}
      /\ DOMAIN c.pending_entries = {}
  BY <1>1, Zenon DEF SpVer, AddsVer, RevokesVer, EntriesVer
<1>5. c.pending_revokes_from_sps = <<>> /\ Added(c) = {} /\ Added(d) = {} /\ Pending(c) = {} /\ Pending(d) = {}
  <2>1. c.pending_revokes_from_sps \in Seq(SpRevokeMsgs)
    BY Zenon DEF SpOK, SpCaches
  <2>2. c.pending_revokes_from_sps = <<>>
    BY <2>1, <1>4, EmptyDomain, Zenon
  <2> QED
    BY <2>2, <1>2, <1>3, <1>4, Zenon DEF Added, Pending
<1>6. c.num \in Nat /\ d.num \in Nat /\ d.entries \in [Group -> Nat] /\ Cur(d) = Cur(c)
      /\ Held(d.entries) # {}
  <2>1. Held(d.entries) # {}
    BY <1>2, Zenon
  <2> QED
    BY <2>1, <1>2, Zenon DEF SpOK, SpCaches, Cur
<1>7. d.num # d.revoke_posted
  BY <1>1, <1>2, <1>3, CurNotPosted, Zenon
<1>8. Held(d.entries) \cap SpRanks(p) = Held(c.entries) \cap SpRanks(p)
      /\ (SpRanks(p) \subseteq Held(d.entries) <=> SpRanks(p) \subseteq Held(c.entries))
  BY <1>1, <1>2
<1>9. SpVer(p, d)
  <2>1. Uniform(d.entries, d.num) /\ d.failed = {}
    BY <1>2, <1>3, Zenon DEF SpVer, SpCore
  <2>2. d.global = Cardinality(d.revoked) /\ d.local = Cardinality(d.revoked \cap SpRanks(p))
    BY <1>3, Zenon DEF SpVer, SpCore
  <2>3. RanksCounted(p, d)
    BY <1>2, <1>8, Zenon DEF SpVer, SpCore, RanksCounted
  <2>4. d.pending_revokes_from_ranks = <<>>
    BY <1>3, Zenon DEF SpVer, SpCore
  <2>5. SpCore(p, d)
    BY <2>1, <2>2, <2>3, <2>4, <1>1, <1>3, <1>7, Zenon DEF SpCore
  <2>6. AddsVer(d) /\ EntriesVer(d) /\ RevokesVer(p, d)
    BY <1>2, <1>3, <1>4, Zenon DEF AddsVer, EntriesVer, RevokesVer
  <2> QED
    BY <2>5, <2>6, Zenon DEF SpVer
<1>10. SendsUp(p, c, d)
  <2>1. SpUp(p, d) = SpUp(p, c)
    BY <1>3, <1>6, <1>8, Zenon DEF SpUp
  <2> QED
    BY <2>1, <1>2, Zenon DEF SendsUp
<1>11. SendsDown(c, d)
  <2>1. \/ d.toHosts = <<>>
        \/ Held(d.entries) = Group /\ d.toHosts = <<EntriesMsg(d.entries)>>
    <3>1. \A m : Append(<<>>, m) = <<m>>
      OBVIOUS
    <3> QED
      BY <3>1, <1>2, Zenon DEF SendsFull
  <2> QED
    BY <2>1, <1>1, <1>2, <1>3, <1>6, AddsDown, Zenon
<1>12. \A s \in SpRanks(p) : FromRanks(d, s) = FromRanks(c, s)
  <2>1. ASSUME NEW s \in SpRanks(p) PROVE s \in Held(d.entries) <=> s \in Held(c.entries)
    BY <1>1, <1>2
  <2> QED
    BY <2>1, <1>3, <1>5, <1>6, Zenon DEF FromRanks
<1>13. \A s \in Others(p) \ {r} : FromPeer(d, s) = FromPeer(c, s)
  <2>1. ASSUME NEW s \in Others(p) \ {r} PROVE s \in Held(d.entries) <=> s \in Held(c.entries)
    BY <1>2
  <2> QED
    BY <2>1, <1>3, <1>5, <1>6, Zenon DEF FromPeer
<1>14. FromPeer(d, r) = 2 * Cur(c) + 1
  BY <1>2, <1>3, <1>5, <1>6, Zenon DEF FromPeer
<1> QED
  BY <1>3, <1>9, <1>10, <1>11, <1>12, <1>13, <1>14, Zenon DEF SpStep

\* An SP handles an entry that it waits for from another SP, or one of the next
\* version once a rank has revoked the current one.
LEMMA PeerEntriesStep ==
  ASSUME GroupSets, NEW p \in SP, NEW c, SpOK(p, c), SpVer(p, c), c.toPeers = <<>>, c.toHosts = <<>>,
         NEW r \in Others(p), NEW f \in [Group -> Nat], Held(f) = {r},
         \/ f[r] = Cur(c) /\ r \notin Held(c.entries)
         \/ f[r] = Cur(c) + 1 /\ c.revoked # {},
         NEW d, d = PeerEntriesRecv(p, c, EntriesMsg(f)), SpOK(p, d)
  PROVE  SpStep(p, c, d, {}, {r}, 2 * f[r] + 1)
<1> DEFINE m == EntriesMsg(f)
           v == f[r]
<1>1. r \in Group /\ Group # {} /\ v \in Nat /\ v # 0
  BY Zenon DEF Others, Held
<1>2. FirstSeq(m) = v /\ m.entries = f
  <2>1. Uniform(f, v) /\ Held(f) # {}
    BY Zenon DEF Uniform
  <2> QED
    BY <2>1, EntriesKey, Zenon
<1>3. d = PeerEntriesRecv(p, c, m)
  BY Zenon
<1> HIDE DEF m
<1>4. c.num \in Nat /\ c.global \in Nat /\ Cur(c) \in Nat
  BY SpNumbers, PositionsInt, Zenon
<1>5. CheckEntriesSeq(c, m) = c
  <2>1. v >= c.num
    <3>1. Cur(c) = c.num \/ Cur(c) = c.num + 1
      BY Zenon DEF Cur
    <3> QED
      BY <3>1, <1>4
  <2>2. Unless(FirstSeq(m) >= c.num, "entries_seq") = {}
    BY <2>1, <1>2, Zenon DEF Unless
  <2> QED
    BY <2>2, NothingFails, Zenon DEF CheckEntriesSeq
<1>6. d = IF MustQueueEntries(c, m) THEN QueueEntries(c, m) ELSE HandlePeerEntries(p, c, f)
  BY <1>2, <1>3, <1>5, Zenon DEF PeerEntriesRecv
<1>7. ASSUME v = c.num + 1, c.num # 0, Held(c.entries) = {} \/ c.revoked # {}, MustQueueEntries(c, m)
      PROVE  SpStep(p, c, d, {}, {r}, 2 * v + 1)
  <2>1. d = QueueEntries(c, m)
    BY <1>6, <1>7, Zenon
  <2>2. m \in EntriesMsgs(Others(p))
    <3>1. f \in EntriesOf(Others(p))
      BY Zenon DEF EntriesOf
    <3> QED
      BY <3>1, Zenon DEF EntriesMsgs, EntriesMsg, m
  <2>4. SpStep(p, c, d, {}, {r}, 2 * c.num + 3)
    BY <2>1, <2>2, <1>2, <1>7, QueueStep, Zenon
  <2>3. 2 * c.num + 3 = 2 * v + 1
    BY <1>4, <1>7
  <2> QED
    BY <2>3, <2>4, Zenon
<1>8. CASE v = Cur(c) + 1 /\ c.revoked # {}
  <2>1. Held(c.entries) = Group /\ Cur(c) = c.num /\ c.global > 0
    BY <1>1, <1>8, NoneRevoked, Zenon DEF SpVer, SpCore, Cur
  <2>2. c.num # 0
    BY <2>1, <1>1, Zenon DEF SpVer, SpCore, Uniform, Held
  <2>3. MustQueueEntries(c, m)
    BY <2>1, Zenon DEF MustQueueEntries
  <2> QED
    BY <2>1, <2>2, <2>3, <1>7, <1>8, Zenon
<1>9. CASE v = Cur(c) /\ r \notin Held(c.entries)
  <2>1. c.revoked = {} /\ c.global = 0 /\ ~(c.global > 0)
    BY <1>1, <1>9, NoneRevoked, Zenon DEF SpVer, SpCore
  <2>2. CASE Held(c.entries) = {} /\ c.num # 0
    <3>1. v = c.num + 1
      BY <2>2, <1>9, Zenon DEF Cur
    <3>2. c.num > 0 /\ c.num # v
      BY <3>1, <2>2, <1>4
    <3>3. MustQueueEntries(c, m)
      BY <3>2, <1>2, Zenon DEF MustQueueEntries, IsGroupReady
    <3> QED
      BY <3>1, <3>3, <2>2, <1>7, Zenon
  <2>3. CASE Held(c.entries) # {} \/ c.num = 0
    <3>1. ~MustQueueEntries(c, m)
      <4>1. CASE Held(c.entries) # {}
        <5>1. c.num = v
          BY <4>1, <1>9, Zenon DEF Cur
        <5>2. ~(c.num = v + 1)
          BY <5>1, <1>4
        <5> QED
          BY <5>1, <5>2, <2>1, <1>2, Zenon DEF MustQueueEntries, IsGroupReady
      <4>2. CASE c.num = 0
        <5>1. ~(c.num > 0)
          BY <4>2
        <5> QED
          BY <5>1, <2>1, Zenon DEF MustQueueEntries, IsGroupReady
      <4> QED
        BY <4>1, <4>2, <2>3, Zenon
    <3>2. d = HandlePeerEntries(p, c, f)
      BY <3>1, <1>6, Zenon
    <3>3. f \in EntriesOf(Group \ SpRanks(p)) /\ Uniform(f, Cur(c))
      BY <1>9, Zenon DEF EntriesOf, Uniform, Others
    <3>4. Uniform(c.entries, c.num)
      BY Zenon DEF SpVer, SpCore
    <3>5. AddsPeers(c, Held(f), c.pending_entries, d)
      BY <3>2, <3>3, <3>4, <2>1, PeerEntriesVersion, Zenon
    <3>6. SpStep(p, c, d, {}, {r}, 2 * Cur(c) + 1)
      BY <3>5, <2>1, <2>3, <1>9, PeerAddedStep, Zenon
    <3> QED
      BY <3>6, <1>9, Zenon
  <2> QED
    BY <2>2, <2>3, Zenon
<1> QED
  BY <1>8, <1>9, Zenon

-----------------------------------------------------------------------------
(* The handlers of an SP: revokes *)

\* Marking more ranks as revoked keeps the count.
LEMMA MarkCount ==
  ASSUME GroupSets, NEW S \in SUBSET Group, NEW R \in SUBSET Group
  PROVE  Cardinality(S) + Cardinality(R \ S) = Cardinality(S \cup R)
<1> DEFINE D == R \ S
<1>1. D \in SUBSET Group /\ S \cap D = {} /\ \A x : x \in S \cup D <=> x \in S \cup R
  OBVIOUS
<1>2. S \cup D = S \cup R
  BY <1>1
<1> HIDE DEF D
<1>3. Cardinality(S \cup D) = Cardinality(S) + Cardinality(D)
  BY <1>1, CountDisjoint, Zenon
<1> QED
  BY <1>2, <1>3, Zenon DEF D

\* One more rank is one more.
LEMMA MarkOne ==
  ASSUME GroupSets, NEW S \in SUBSET Group, NEW r \in Group, r \notin S
  PROVE  Cardinality(S) + 1 = Cardinality(S \cup {r})
<1>1. {r} \in SUBSET Group /\ S \cap {r} = {}
  BY Zenon
<1>2. Cardinality({r}) = 1
  BY Zenon DEF GroupSets
<1> QED
  BY <1>1, <1>2, CountDisjoint, Zenon

\* The revokes of other SPs that were waiting are taken into account.
RevokesTaken(p, c, d) ==
  /\ DOMAIN d = SpFields /\ d.pending_revokes_from_sps = <<>>
  /\ d.revoked = IF c.pending_revokes_from_sps = <<>> THEN c.revoked ELSE c.revoked \cup Others(p)
  /\ d.global = Cardinality(d.revoked)
  /\ \A x \in SpFields \ {"revoked", "global", "pending_revokes_from_sps"} : d[x] = c[x]

\* What waits in the list: the ranks of the other SP, and some that revoked.
LEMMA PendingRevokesHold ==
  ASSUME NEW p, NEW c, RevokesVer(p, c), NEW S, c.pending_revokes_from_sps \in Seq(S),
         c.pending_revokes_from_sps # <<>>
  PROVE  /\ c.revoked \cup PendingRevokes(c) = c.revoked \cup Others(p)
         /\ \A i \in DOMAIN c.pending_revokes_from_sps : c.pending_revokes_from_sps[i].seq = c.num
         /\ Others(p) # {} /\ Others(p) \cap c.revoked = {} /\ Others(p) \subseteq PendingRevokes(c)
         /\ Held(c.entries) = Group
<1> DEFINE q == c.pending_revokes_from_sps
<1>1. PICK i \in DOMAIN q : TRUE
  BY EmptyDomain, Zenon
<1>2. \A j \in DOMAIN q : Others(p) \subseteq q[j].ranks /\ q[j].ranks \subseteq Others(p) \cup c.revoked
  BY Zenon DEF RevokesVer
<1>3. PendingRevokes(c) = UNION {q[j].ranks : j \in DOMAIN q}
  BY Zenon DEF PendingRevokes
<1> HIDE DEF q
<1>4. Others(p) \subseteq PendingRevokes(c) /\ PendingRevokes(c) \subseteq Others(p) \cup c.revoked
  BY <1>1, <1>2, <1>3, Zenon
<1>5. c.revoked \cup PendingRevokes(c) = c.revoked \cup Others(p)
  BY <1>4
<1>6. /\ \A j \in DOMAIN q : q[j].seq = c.num
      /\ Others(p) # {} /\ Others(p) \cap c.revoked = {} /\ Held(c.entries) = Group
  BY <1>1, Zenon DEF RevokesVer, q
<1> QED
  BY <1>4, <1>5, <1>6, Zenon DEF q

\* HANDLE_PENDING_GROUP_REVOKE_MSGS_FROM_SPS.
LEMMA PendingRevokesVersion ==
  ASSUME GroupSets, NEW p, NEW c, DOMAIN c = SpFields, RevokesVer(p, c),
         c.pending_revokes_from_sps \in Seq(SpRevokeMsgs), c.revoked \in SUBSET Group,
         c.global = Cardinality(c.revoked), NEW d, d = HandlePendingRevokes(c)
  PROVE  RevokesTaken(p, c, d)
<1>1. CASE c.pending_revokes_from_sps = <<>>
  BY <1>1, Zenon DEF HandlePendingRevokes, RevokesTaken
<1>2. CASE c.pending_revokes_from_sps # <<>>
  <2> DEFINE R == PendingRevokes(c)
             q == c.pending_revokes_from_sps
             v == c.revoked \cup R
             g == c.global + Cardinality(R \ c.revoked)
             F == c.failed \cup Unless(\A i \in DOMAIN q : q[i].seq = c.num, "pending_revoke_seq")
             z == <<>>
  <2>1. v = c.revoked \cup Others(p) /\ F = c.failed
    <3>1. v = c.revoked \cup Others(p) /\ \A i \in DOMAIN q : q[i].seq = c.num
      BY <1>2, PendingRevokesHold, Zenon
    <3>2. Unless(\A i \in DOMAIN q : q[i].seq = c.num, "pending_revoke_seq") = {}
      BY <3>1, Zenon DEF Unless
    <3> QED
      BY <3>1, <3>2, Zenon
  <2>2. d = [c EXCEPT !.revoked = v, !.global = g, !.pending_revokes_from_sps = z, !.failed = F]
    <3>1. MarkRevoked(c, R) = [c EXCEPT !.revoked = v, !.global = g]
      BY Zenon DEF MarkRevoked, SpFields, CommonFields
    <3>2. d = [MarkRevoked(c, R) EXCEPT
                 !.pending_revokes_from_sps = <<>>,
                 !.failed = @ \cup Unless(\A i \in DOMAIN q : q[i].seq = c.num, "pending_revoke_seq")]
      BY <1>2, Zenon DEF HandlePendingRevokes
    <3> HIDE DEF R, v, g, q
    <3> QED
      BY <3>1, <3>2, Zenon DEF SpFields, CommonFields
  <2>3. g = Cardinality(v)
    <3>1. R \in SUBSET Group
      <4>1. R \subseteq v /\ Others(p) \subseteq Group
        BY Zenon DEF Others
      <4> HIDE DEF R, v
      <4> QED
        BY <4>1, <2>1, Zenon
    <3> HIDE DEF R
    <3> QED
      BY <3>1, MarkCount, Zenon
  <2> HIDE DEF R, v, g, F, q, z
  <2>4. /\ DOMAIN d = SpFields /\ d.revoked = v /\ d.global = g /\ d.pending_revokes_from_sps = z
        /\ d.failed = F
        /\ \A x \in SpFields \ {"revoked", "global", "pending_revokes_from_sps", "failed"} : d[x] = c[x]
    BY <2>2, Zenon DEF SpFields, CommonFields
  <2>5. \A x \in SpFields \ {"revoked", "global", "pending_revokes_from_sps"} : d[x] = c[x]
    BY <2>1, <2>4, Zenon
  <2> QED
    BY <1>2, <2>1, <2>3, <2>4, <2>5, Zenon DEF RevokesTaken, z
<1> QED
  BY <1>1, <1>2, Zenon

\* The final revoke is sent when all ranks revoked.
Finished(c, d) ==
  /\ DOMAIN d = SpFields
  /\ \A x \in SpFields \ {"toHosts", "ongoing", "revoke_posted"} : d[x] = c[x]
  /\ IF c.revoked = Group THEN d.toHosts = <<RevokeMsg(Group, c.num)>> /\ d.revoke_posted = c.num
     ELSE d.toHosts = <<>> /\ d.revoke_posted = c.revoke_posted

\* A cache with all the entries and the right count of revokes.
Revocable(c) ==
  /\ DOMAIN c = SpFields /\ c.group_size = GroupSize /\ c.revoked \in SUBSET Group
  /\ c.global = Cardinality(c.revoked) /\ c.revoke_posted \in Nat /\ c.num = c.revoke_posted + 1
  /\ c.toHosts = <<>>

\* send_revoke_group_to_ranks, if it is due.
Finish(c) == IF FinalRevokeDue(c) THEN SendFinalRevoke(c) ELSE c

\* When the last rank is revoked, the final revoke is sent to the ranks.
LEMMA FinishVersion ==
  ASSUME GroupSets, NEW c, Revocable(c), NEW d, d = Finish(c)
  PROVE  Finished(c, d)
<1>1. /\ DOMAIN c = SpFields /\ c.group_size = GroupSize /\ c.revoked \in SUBSET Group
      /\ c.global = Cardinality(c.revoked) /\ c.revoke_posted \in Nat /\ c.num = c.revoke_posted + 1
      /\ c.toHosts = <<>>
  BY Zenon DEF Revocable
<1>2. FinalRevokeDue(c) <=> c.revoked = Group
  <2>1. Cardinality(c.revoked) = GroupSize <=> c.revoked = Group
    BY <1>1, GroupFinite
  <2>2. c.revoke_posted < c.num
    BY <1>1
  <2> QED
    BY <2>1, <2>2, <1>1 DEF FinalRevokeDue
<1>3. CASE c.revoked = Group
  <2> DEFINE h == Append(c.toHosts, RevokeMsg(Group, c.num))
             o == Append(c.ongoing, "revoke")
             F == c.failed \cup Unless(c.revoke_posted + 1 = c.num, "revoke_posted")
             n == c.num
  <2>1. d = [c EXCEPT !.toHosts = h, !.ongoing = o, !.failed = F, !.revoke_posted = n]
    BY <1>1, <1>2, <1>3, Zenon DEF Finish, SendFinalRevoke, SpFields, CommonFields
  <2>2. F = c.failed
    <3>1. Unless(c.revoke_posted + 1 = c.num, "revoke_posted") = {}
      BY <1>1, Zenon DEF Unless
    <3> QED
      BY <3>1, Zenon
  <2>3. h = <<RevokeMsg(Group, c.num)>>
    BY <1>1
  <2> HIDE DEF h, o, F, n
  <2>4. /\ DOMAIN d = SpFields /\ d.toHosts = h /\ d.revoke_posted = n /\ d.failed = F
        /\ \A x \in SpFields \ {"toHosts", "ongoing", "revoke_posted", "failed"} : d[x] = c[x]
    BY <1>1, <2>1, Zenon DEF SpFields, CommonFields
  <2>5. \A x \in SpFields \ {"toHosts", "ongoing", "revoke_posted"} : d[x] = c[x]
    BY <2>2, <2>4, Zenon
  <2> QED
    BY <1>3, <2>3, <2>4, <2>5, Zenon DEF Finished, n
<1>4. CASE c.revoked # Group
  BY <1>1, <1>2, <1>4, Zenon DEF Finish, Finished
<1> QED
  BY <1>3, <1>4, Zenon

\* A step that marks ranks as revoked in the full cache c: what it keeps,
Revokes(p, c, d) ==
  /\ \A x \in {"num", "entries", "sp_ranks", "failed", "pending_entries", "pending_adds",
               "pending_revokes_from_ranks"} : d[x] = c[x]
  /\ c.revoked \subseteq d.revoked /\ d.revoked \in SUBSET Group
  /\ d.global = Cardinality(d.revoked) /\ d.local = Cardinality(d.revoked \cap SpRanks(p))
  /\ d.revoked \cap Others(p) = {} \/ Others(p) \subseteq d.revoked
  /\ RevokesVer(p, d)

\* what it sends to the other SPs and to the clients,
RevokesUp(p, c, d) ==
  IF SpRanks(p) \subseteq d.revoked /\ ~(SpRanks(p) \subseteq c.revoked)
  THEN \E R : /\ d.toPeers = <<RevokeMsg(R, c.num)>> /\ SpRanks(p) \subseteq R
              /\ R \subseteq SpRanks(p) \/ Others(p) \subseteq c.revoked
  ELSE d.toPeers = <<>>
RevokesDown(c, d) ==
  IF d.revoked = Group THEN d.toHosts = <<RevokeMsg(Group, c.num)>> /\ d.revoke_posted = c.num
  ELSE d.toHosts = <<>> /\ d.revoke_posted = c.revoke_posted

\* and from whom it takes a revoke.
RevokesFrom(p, c, d, R, Q) ==
  /\ R \subseteq d.revoked
  /\ \A r \in SpRanks(p) \ R : r \in d.revoked <=> r \in c.revoked
  /\ \A r \in Q : (r \in d.revoked \/ d.pending_revokes_from_sps # <<>>) /\ r \notin Pending(c)
  /\ \A r \in Others(p) \ Q : (r \in d.revoked \/ d.pending_revokes_from_sps # <<>>)
                                <=> (r \in c.revoked \/ c.pending_revokes_from_sps # <<>>)

\* A step that marks ranks as revoked, and sends what is due then.
LEMMA RevokesStep ==
  ASSUME GroupSets, NEW p \in SP, NEW c, SpOK(p, c), SpVer(p, c), SpRanks(p) # {},
         Held(c.entries) = Group, c.revoked # Group, NEW R, NEW Q, NEW d,
         Revokes(p, c, d), RevokesUp(p, c, d), RevokesDown(c, d), RevokesFrom(p, c, d, R, Q)
  PROVE  SpStep(p, c, d, R, Q, 2 * c.num + 2)
<1>1. /\ d.num = c.num /\ d.entries = c.entries /\ d.sp_ranks = c.sp_ranks /\ d.failed = c.failed
      /\ d.pending_entries = c.pending_entries /\ d.pending_adds = c.pending_adds
      /\ d.pending_revokes_from_ranks = c.pending_revokes_from_ranks
  BY Zenon DEF Revokes
<1>2. /\ c.revoked \subseteq d.revoked /\ d.revoked \in SUBSET Group
      /\ d.global = Cardinality(d.revoked) /\ d.local = Cardinality(d.revoked \cap SpRanks(p))
      /\ d.revoked \cap Others(p) = {} \/ Others(p) \subseteq d.revoked
      /\ RevokesVer(p, d)
  BY Zenon DEF Revokes
<1>3. Group # {} /\ SpRanks(p) \subseteq Group /\ c.num \in Nat /\ c.num # c.revoke_posted
  <2>1. Group # {} /\ SpRanks(p) \subseteq Group
    BY Zenon DEF SpRanks
  <2>2. c.num # c.revoke_posted
    BY <2>1, Zenon DEF SpVer, SpCore
  <2> QED
    BY <2>1, <2>2, SpNumbers, Zenon
<1>4. Cur(c) = c.num /\ Cur(d) = c.num
  BY <1>1, <1>3, Zenon DEF Cur
<1>5. DOMAIN c.pending_adds = {}
  BY Zenon DEF SpVer, AddsVer
<1>6. SpVer(p, d)
  <2>1. d.num = d.revoke_posted <=> d.revoked = Group
    BY <1>1, <1>3, Zenon DEF RevokesDown
  <2>2. SpCore(p, d)
    <3>1. Uniform(d.entries, d.num) /\ d.failed = {} /\ RanksCounted(p, d)
          /\ d.pending_revokes_from_ranks = <<>>
      BY <1>1, Zenon DEF SpVer, SpCore, RanksCounted
    <3> QED
      BY <3>1, <2>1, <1>1, <1>2, Zenon DEF SpCore
  <2>3. AddsVer(d)
    BY <1>1, <1>5, Zenon DEF AddsVer
  <2>4. EntriesVer(d)
    <3> SUFFICES ASSUME NEW i \in DOMAIN c.pending_entries
                 PROVE  /\ Uniform(c.pending_entries[i].entries, c.num + 1) /\ c.num # 0
                        /\ d.revoked # {}
      BY <1>1, Zenon DEF EntriesVer
    <3>1. /\ Uniform(c.pending_entries[i].entries, c.num + 1) /\ c.num # 0 /\ c.revoked # {}
      BY <1>3, Zenon DEF SpVer, EntriesVer
    <3> QED
      BY <3>1, <1>2, Zenon
  <2> QED
    BY <2>2, <2>3, <2>4, <1>2, Zenon DEF SpVer
<1>7. SendsUp(p, c, d)
  <2>1. CASE SpRanks(p) \subseteq d.revoked /\ ~(SpRanks(p) \subseteq c.revoked)
    <3>1. PICK S : /\ d.toPeers = <<RevokeMsg(S, c.num)>> /\ SpRanks(p) \subseteq S
                   /\ S \subseteq SpRanks(p) \/ Others(p) \subseteq c.revoked
      BY <2>1, Zenon DEF RevokesUp
    <3> DEFINE m == RevokeMsg(S, c.num)
    <3>2. m.type = "revoke" /\ m.seq = c.num /\ m.ranks = S
      BY Zenon DEF RevokeMsg
    <3>3. d.toPeers = <<m>>
      BY <3>1, Zenon
    <3> HIDE DEF m
    <3>4. Key(m) = 2 * c.num + 1
      BY <3>2, Zenon DEF Key
    <3>5. SpUp(p, c) = 2 * c.num /\ SpUp(p, d) = 2 * c.num + 1
      BY <2>1, <1>1, <1>3, <1>4, UpCases, ZenonT(30)
    <3>6. SpUp(p, d) = SpUp(p, c) + 1
      BY <3>5, <1>3, SMTT(30)
    <3>7. UpMsg(p, c, m)
      BY <3>1, <3>2, <1>3, Zenon DEF UpMsg
    <3> QED
      BY <3>3, <3>4, <3>5, <3>6, <3>7, Zenon DEF SendsUp
  <2>2. CASE ~(SpRanks(p) \subseteq d.revoked /\ ~(SpRanks(p) \subseteq c.revoked))
    <3>1. d.toPeers = <<>>
      BY <2>2, Zenon DEF RevokesUp
    <3>2. SpRanks(p) \subseteq d.revoked <=> SpRanks(p) \subseteq c.revoked
      BY <2>2, <1>2, Zenon
    <3>3. SpUp(p, d) = SpUp(p, c)
      BY <3>2, <1>1, <1>4, Zenon DEF SpUp
    <3> QED
      BY <3>1, <3>3, Zenon DEF SendsUp
  <2> QED
    BY <2>1, <2>2, Zenon
<1>8. SendsDown(c, d)
  <2>0. SpDown(c) = 2 * c.num
    BY <1>3, <1>4, DownCases, Zenon
  <2>1. CASE d.revoked = Group
    <3> DEFINE m == RevokeMsg(Group, c.num)
    <3>1. m.type = "revoke" /\ m.seq = c.num /\ m.type # "entries"
      BY Zenon DEF RevokeMsg
    <3>2. d.toHosts = <<m>>
      BY <2>1, Zenon DEF RevokesDown
    <3> HIDE DEF m
    <3>3. Key(m) = 2 * c.num + 1
      BY <3>1, Zenon DEF Key
    <3>4. SpDown(d) = 2 * c.num + 1
      BY <2>1, <1>1, <1>3, <1>4, DownCases, Zenon
    <3>5. SpDown(c) < SpDown(d)
      BY <2>0, <3>4, <1>3
    <3> QED
      BY <3>1, <3>2, <3>3, <3>4, <3>5, Zenon DEF SendsDown
  <2>2. CASE d.revoked # Group
    <3>1. d.toHosts = <<>>
      BY <2>2, Zenon DEF RevokesDown
    <3>2. SpDown(d) = 2 * c.num
      BY <2>2, <1>1, <1>3, <1>4, DownCases, Zenon
    <3>3. SpDown(c) <= SpDown(d)
      BY <2>0, <3>2, <1>3
    <3> QED
      BY <3>1, <3>3, Zenon DEF SendsDown
  <2> QED
    BY <2>1, <2>2, Zenon
<1>9. Added(c) = {} /\ Added(d) = {} /\ Pending(d) = Pending(c)
  BY <1>1, <1>5, Zenon DEF Added, Pending
<1>10. \A r \in R : FromRanks(d, r) = 2 * c.num + 2
  BY <1>4, <1>9, Zenon DEF FromRanks, RevokesFrom
<1>11. \A r \in SpRanks(p) \ R : FromRanks(d, r) = FromRanks(c, r)
  BY <1>1, <1>4, <1>9, Zenon DEF FromRanks, RevokesFrom
<1>12. \A r \in Q : FromPeer(d, r) = 2 * c.num + 2
  BY <1>1, <1>4, <1>9, Zenon DEF FromPeer, RevokesFrom
<1>13. ASSUME NEW r \in Others(p) \ Q
       PROVE  FromPeer(d, r) = FromPeer(c, r)
  <2>1. (r \in d.revoked \/ d.pending_revokes_from_sps # <<>>)
          <=> (r \in c.revoked \/ c.pending_revokes_from_sps # <<>>)
    BY Zenon DEF RevokesFrom
  <2> QED
    BY <2>1, <1>1, <1>4, <1>9, Zenon DEF FromPeer
<1> QED
  BY <1>2, <1>6, <1>7, <1>8, <1>10, <1>11, <1>12, <1>13, ZenonT(30) DEF SpStep

\* A full cache that has not been revoked by all.
LEMMA FullCache ==
  ASSUME GroupSets, NEW p \in SP, NEW c, SpOK(p, c), SpVer(p, c), SpRanks(p) # {},
         Held(c.entries) = Group, c.revoked # Group
  PROVE  /\ c.group_size = GroupSize /\ c.group_size = c.num_local_entries
         /\ c.num \in Nat /\ c.revoke_posted \in Nat /\ c.num = c.revoke_posted + 1
         /\ c.sp_ranks = Cardinality(SpRanks(p))
         /\ c.sp_ranks = c.local <=> SpRanks(p) \subseteq c.revoked
<1>1. SpRanks(p) \in SUBSET Group /\ Group # {} /\ c.revoked \in SUBSET Group
  BY SpNumbers, Zenon DEF SpRanks
<1>2. c.group_size = c.num_local_entries
  BY <1>1, CountIsFull, Zenon
<1>3. c.group_size = GroupSize
  <2>1. Held(c.entries) # {}
    BY <1>1, Zenon
  <2>2. c.num_local_entries # 0
    BY <2>1, CountIsZero, Zenon DEF SpOK, SpCacheInv
  <2> QED
    BY <2>2, Zenon DEF SpOK, SpCacheInv
<1>4. c.num = c.revoke_posted + 1
  <2>1. c.num # c.revoke_posted
    BY <1>1, Zenon DEF SpVer, SpCore
  <2> QED
    BY <2>1, Zenon DEF SpOK, SpCacheInv
<1>5. c.sp_ranks = Cardinality(SpRanks(p))
  <2>1. Held(c.entries) \cap SpRanks(p) # {}
    BY <1>1, Zenon
  <2> QED
    BY <2>1, Zenon DEF SpVer, SpCore, RanksCounted
<1>6. c.sp_ranks = c.local <=> SpRanks(p) \subseteq c.revoked
  <2>1. c.local = Cardinality(c.revoked \cap SpRanks(p))
    BY Zenon DEF SpVer, SpCore
  <2>2. c.revoked \cap SpRanks(p) \in SUBSET Group /\ c.revoked \cap SpRanks(p) \subseteq SpRanks(p)
    BY <1>1, Zenon
  <2>3. Cardinality(c.revoked \cap SpRanks(p)) = Cardinality(SpRanks(p))
          <=> c.revoked \cap SpRanks(p) = SpRanks(p)
    BY <1>1, <2>2, CountSubset, Zenon
  <2> QED
    BY <2>1, <2>3, <1>5, SMTT(30)
<1>7. c.num \in Nat /\ c.revoke_posted \in Nat
  BY Zenon DEF SpOK, SpCaches
<1> QED
  BY <1>2, <1>3, <1>4, <1>5, <1>6, <1>7, SMTT(30)

\* The cache c in which the rank r of the SP is marked as revoked.
Marked(p, c, r, e) ==
  /\ DOMAIN e = SpFields /\ e.revoked = c.revoked \cup {r} /\ e.global = Cardinality(e.revoked)
  /\ e.local = Cardinality(e.revoked \cap SpRanks(p))
  /\ \A x \in SpFields \ {"revoked", "global", "local"} : e[x] = c[x]
RankRevoked(p, c, r, d) == \E e : Marked(p, c, r, e) /\ d = Finish(LocalRevokesDone(e))

\* The first part of handle_revoke_group_rank_through_rank_info.
LEMMA MarkedVersion ==
  ASSUME GroupSets, NEW p \in SP, NEW c, SpOK(p, c), SpVer(p, c), SpRanks(p) # {},
         Held(c.entries) = Group, c.revoked # Group,
         NEW r \in SpRanks(p), r \notin c.revoked, NEW m, m.rank = r, m.seq = c.num,
         NEW d, d = HandleRankRevoke(c, m)
  PROVE  RankRevoked(p, c, r, d)
<1> DEFINE b == [c EXCEPT !.failed = @ \cup (Unless(c.entries[m.rank] # 0, "revoke_in_cache")
                                   \cup Unless(m.rank \notin c.revoked, "revoked_twice"))]
           v == c.revoked \cup {r}
           l == c.local + 1
           g == c.global + 1
           e == [c EXCEPT !.revoked = v, !.local = l, !.global = g]
<1>1. r \in Group /\ c.group_size = c.num_local_entries /\ c.revoked \in SUBSET Group
  BY FullCache, SpNumbers, Zenon DEF SpRanks
<1>2. b = c
  <2>1. c.entries[m.rank] # 0
    BY <1>1, Zenon DEF Held
  <2>2. Unless(c.entries[m.rank] # 0, "revoke_in_cache") \cup Unless(m.rank \notin c.revoked, "revoked_twice") = {}
    BY <2>1 DEF Unless
  <2> QED
    BY <2>2, NothingFails, Zenon
<1>3. DOMAIN c = SpFields
  BY SpDomain, Zenon
<1>4. Marked(p, c, r, e)
  <2>1. g = Cardinality(v)
    <3>1. c.global = Cardinality(c.revoked)
      BY Zenon DEF SpVer, SpCore
    <3> QED
      BY <3>1, <1>1, MarkOne, ZenonT(30)
  <2>2. l = Cardinality(v \cap SpRanks(p))
    <3> DEFINE S == c.revoked \cap SpRanks(p)
    <3>1. c.local = Cardinality(S)
      BY Zenon DEF SpVer, SpCore
    <3>2. S \in SUBSET Group /\ r \notin S /\ S \cup {r} = v \cap SpRanks(p)
      BY <1>1
    <3> HIDE DEF S
    <3>3. Cardinality(S) + 1 = Cardinality(S \cup {r})
      BY <1>1, <3>2, MarkOne, Zenon
    <3> QED
      BY <3>1, <3>2, <3>3, Zenon
  <2> HIDE DEF g, l, v
  <2>3. /\ DOMAIN e = SpFields /\ e.revoked = v /\ e.global = g /\ e.local = l
        /\ \A x \in SpFields \ {"revoked", "global", "local"} : e[x] = c[x]
    BY <1>3, Zenon DEF SpFields, CommonFields
  <2> HIDE DEF e
  <2> QED
    BY <2>1, <2>2, <2>3, Zenon DEF Marked, v
<1>5. d = Finish(LocalRevokesDone(e))
  <2> DEFINE x == [b EXCEPT !.revoked = @ \cup {m.rank}, !.local = @ + 1, !.global = @ + 1,
                            !.failed = @ \cup Unless(m.seq = c.num, "rank_revoke_seq")]
  <2>1. d = Finish(LocalRevokesDone(x))
    BY <1>1, Zenon DEF HandleRankRevoke, Finish
  <2>2. x = e
    <3>1. Unless(m.seq = c.num, "rank_revoke_seq") = {}
      BY Zenon DEF Unless
    <3>2. c.failed \cup {} = c.failed
      OBVIOUS
    <3> HIDE DEF b
    <3>3. x = [c EXCEPT !.revoked = @ \cup {r}, !.local = @ + 1, !.global = @ + 1,
                        !.failed = @ \cup {}]
      BY <1>2, <3>1, Zenon
    <3> QED
      BY <3>2, <3>3, Zenon DEF SpOK, SpCaches
  <2> HIDE DEF e, x
  <2> QED
    BY <2>1, <2>2, Zenon
<1> HIDE DEF e
<1> QED
  BY <1>4, <1>5, Zenon DEF RankRevoked

\* The last part of it: the other SPs are told when all the ranks of the SP
\* revoked, and what they said in the meantime is taken into account.
LocallyDone(p, c, d) ==
  /\ DOMAIN d = SpFields /\ d.global = Cardinality(d.revoked)
  /\ \A x \in SpFields \ {"revoked", "global", "pending_revokes_from_sps", "toPeers"} : d[x] = c[x]
  /\ IF SpRanks(p) \subseteq c.revoked
     THEN /\ d.toPeers = <<RevokeMsg(c.revoked, c.num)>> /\ d.pending_revokes_from_sps = <<>>
          /\ d.revoked = IF c.pending_revokes_from_sps = <<>> THEN c.revoked
                         ELSE c.revoked \cup Others(p)
     ELSE /\ d.toPeers = <<>> /\ d.revoked = c.revoked
          /\ d.pending_revokes_from_sps = c.pending_revokes_from_sps

\* When the last rank of its own is revoked, an SP tells the other SPs and turns
\* to the revokes that it had put off.
LEMMA LocalRevokesVersion ==
  ASSUME GroupSets, NEW p, NEW c, DOMAIN c = SpFields, RevokesVer(p, c),
         c.pending_revokes_from_sps \in Seq(SpRevokeMsgs), c.revoked \in SUBSET Group,
         c.global = Cardinality(c.revoked), c.toPeers = <<>>,
         c.local = c.sp_ranks <=> SpRanks(p) \subseteq c.revoked,
         NEW d, d = LocalRevokesDone(c)
  PROVE  LocallyDone(p, c, d)
<1>1. CASE SpRanks(p) \subseteq c.revoked
  <2> DEFINE m == RevokeMsg(c.revoked, c.num)
             t == Append(c.toPeers, m)
             b == [c EXCEPT !.toPeers = t]
  <2>1. d = HandlePendingRevokes(b)
    BY <1>1, Zenon DEF LocalRevokesDone, SpFields, CommonFields
  <2>2. t = <<m>>
    OBVIOUS
  <2> HIDE DEF t, m
  <2>3. DOMAIN b = SpFields /\ b.toPeers = t /\ \A x \in SpFields \ {"toPeers"} : b[x] = c[x]
    BY Zenon DEF SpFields, CommonFields
  <2> HIDE DEF b
  <2>4. /\ b.pending_revokes_from_sps = c.pending_revokes_from_sps /\ b.revoked = c.revoked
        /\ b.global = c.global /\ b.num = c.num /\ b.entries = c.entries
    BY <2>3, Zenon DEF SpFields, CommonFields
  <2>5. RevokesVer(p, b)
    BY <2>4, Zenon DEF RevokesVer
  <2>6. RevokesTaken(p, b, d)
    BY <2>1, <2>3, <2>4, <2>5, PendingRevokesVersion, Zenon
  <2>7. /\ DOMAIN d = SpFields /\ d.pending_revokes_from_sps = <<>>
        /\ d.revoked = IF c.pending_revokes_from_sps = <<>> THEN c.revoked ELSE c.revoked \cup Others(p)
        /\ d.global = Cardinality(d.revoked)
    BY <2>4, <2>6, Zenon DEF RevokesTaken
  <2>8. \A x \in SpFields \ {"revoked", "global", "pending_revokes_from_sps"} : d[x] = b[x]
    BY <2>6, Zenon DEF RevokesTaken
  <2>9. /\ \A x \in SpFields \ {"revoked", "global", "pending_revokes_from_sps", "toPeers"} : d[x] = c[x]
        /\ d.toPeers = t
    BY <2>3, <2>8, Zenon DEF SpFields, CommonFields
  <2> QED
    BY <1>1, <2>2, <2>7, <2>9, Zenon DEF LocallyDone, m
<1>2. CASE ~(SpRanks(p) \subseteq c.revoked)
  BY <1>2, Zenon DEF LocalRevokesDone, LocallyDone
<1> QED
  BY <1>1, <1>2, Zenon

\* handle_revoke_group_rank_through_rank_info, for a revoke that is in turn.
LEMMA RankRevokeStep ==
  ASSUME GroupSets, NEW p \in SP, NEW c, SpOK(p, c), SpVer(p, c), c.toPeers = <<>>, c.toHosts = <<>>,
         Held(c.entries) = Group, NEW r \in SpRanks(p), r \notin c.revoked,
         NEW m, m.rank = r, m.seq = c.num, NEW d, d = HandleRankRevoke(c, m)
  PROVE  SpStep(p, c, d, {r}, {}, 2 * c.num + 2)
<1>1. SpRanks(p) # {} /\ c.revoked # Group /\ r \in Group /\ r \notin Others(p)
      /\ c.revoked \in SUBSET Group
  BY SpNumbers, Zenon DEF SpRanks, Others
<1>2. PICK e : Marked(p, c, r, e) /\ d = Finish(LocalRevokesDone(e))
  <2>1. RankRevoked(p, c, r, d)
    BY <1>1, MarkedVersion, Zenon
  <2> QED
    BY <2>1, Zenon DEF RankRevoked
<1>3. /\ c.group_size = GroupSize
      /\ c.num \in Nat /\ c.revoke_posted \in Nat /\ c.num = c.revoke_posted + 1
      /\ c.sp_ranks = Cardinality(SpRanks(p))
  BY <1>1, FullCache, Zenon
<1>4. /\ DOMAIN e = SpFields /\ e.revoked = c.revoked \cup {r} /\ e.global = Cardinality(e.revoked)
      /\ e.local = Cardinality(e.revoked \cap SpRanks(p))
      /\ \A x \in SpFields \ {"revoked", "global", "local"} : e[x] = c[x]
  BY <1>2, Zenon DEF Marked
<1>5. /\ e.num = c.num /\ e.entries = c.entries /\ e.sp_ranks = c.sp_ranks /\ e.failed = c.failed
      /\ e.pending_entries = c.pending_entries /\ e.pending_adds = c.pending_adds
      /\ e.pending_revokes_from_ranks = c.pending_revokes_from_ranks
      /\ e.pending_revokes_from_sps = c.pending_revokes_from_sps
      /\ e.group_size = c.group_size /\ e.toPeers = <<>> /\ e.toHosts = <<>>
      /\ e.revoke_posted = c.revoke_posted
  BY <1>4, Zenon DEF SpFields, CommonFields
<1>6. e.revoked \in SUBSET Group /\ e.pending_revokes_from_sps \in Seq(SpRevokeMsgs)
  BY <1>1, <1>4, <1>5, Zenon DEF SpOK, SpCaches
<1>7. RevokesVer(p, e)
  <2>1. RevokesVer(p, c)
    BY Zenon DEF SpVer
  <2>2. \A S : Others(p) \cap c.revoked = {} => Others(p) \cap e.revoked = {}
    BY <1>1, <1>4, Zenon
  <2>3. \A S : S \subseteq Others(p) \cup c.revoked => S \subseteq Others(p) \cup e.revoked
    BY <1>4, Zenon
  <2> QED
    BY <2>1, <2>2, <2>3, <1>5, Zenon DEF RevokesVer
<1>8. e.local = e.sp_ranks <=> SpRanks(p) \subseteq e.revoked
  <2> DEFINE S == e.revoked \cap SpRanks(p)
  <2>1. SpRanks(p) \in SUBSET Group /\ S \in SUBSET Group /\ S \subseteq SpRanks(p)
    BY Zenon DEF SpRanks
  <2>2. S = SpRanks(p) <=> SpRanks(p) \subseteq e.revoked
    OBVIOUS
  <2> HIDE DEF S
  <2>3. Cardinality(S) = Cardinality(SpRanks(p)) <=> S = SpRanks(p)
    BY <2>1, CountSubset, Zenon
  <2> QED
    BY <2>2, <2>3, <1>3, <1>4, <1>5, SMTT(30) DEF S
<1> DEFINE a == LocalRevokesDone(e)
<1>9. LocallyDone(p, e, a)
  BY <1>4, <1>5, <1>6, <1>7, <1>8, LocalRevokesVersion, Zenon
<1>10. d = Finish(a)
  BY <1>2, Zenon
<1> HIDE DEF a
<1>11. /\ DOMAIN a = SpFields /\ a.global = Cardinality(a.revoked)
       /\ \A x \in SpFields \ {"revoked", "global", "pending_revokes_from_sps", "toPeers"} : a[x] = e[x]
  BY <1>9, Zenon DEF LocallyDone
<1>12. /\ a.num = c.num /\ a.entries = c.entries /\ a.sp_ranks = c.sp_ranks /\ a.failed = c.failed
       /\ a.pending_entries = c.pending_entries /\ a.pending_adds = c.pending_adds
       /\ a.pending_revokes_from_ranks = c.pending_revokes_from_ranks
       /\ a.group_size = c.group_size /\ a.toHosts = <<>>
       /\ a.revoke_posted = c.revoke_posted /\ a.local = e.local
  BY <1>5, <1>11, Zenon DEF SpFields, CommonFields
<1>13. \/ a.revoked = e.revoked
       \/ a.revoked = e.revoked \cup Others(p)
  BY <1>9, Zenon DEF LocallyDone
<1>14. a.revoked \in SUBSET Group
  BY <1>6, <1>13, Zenon DEF Others
<1>15. Finished(a, d)
  <2>1. Revocable(a)
    BY <1>3, <1>11, <1>12, <1>14, Zenon DEF Revocable
  <2> QED
    BY <2>1, <1>10, FinishVersion, Zenon
<1>16. /\ \A x \in SpFields \ {"toHosts", "ongoing", "revoke_posted"} : d[x] = a[x]
       /\ IF a.revoked = Group THEN d.toHosts = <<RevokeMsg(Group, a.num)>> /\ d.revoke_posted = a.num
          ELSE d.toHosts = <<>> /\ d.revoke_posted = a.revoke_posted
  BY <1>15, Zenon DEF Finished
<1>17. /\ d.num = a.num /\ d.entries = a.entries /\ d.sp_ranks = a.sp_ranks /\ d.failed = a.failed
       /\ d.pending_entries = a.pending_entries /\ d.pending_adds = a.pending_adds
       /\ d.pending_revokes_from_ranks = a.pending_revokes_from_ranks
       /\ d.pending_revokes_from_sps = a.pending_revokes_from_sps
       /\ d.local = a.local /\ d.global = a.global /\ d.revoked = a.revoked /\ d.toPeers = a.toPeers
  BY <1>16, Zenon DEF SpFields, CommonFields
<1>18. RevokesDown(c, d)
  BY <1>12, <1>16, <1>17, Zenon DEF RevokesDown
<1>19. \/ a.pending_revokes_from_sps = <<>>
       \/ a.pending_revokes_from_sps = e.pending_revokes_from_sps /\ a.revoked = e.revoked
  BY <1>9, Zenon DEF LocallyDone
<1>20. RevokesVer(p, d)
  <2>1. CASE a.pending_revokes_from_sps = <<>>
    <3>1. DOMAIN <<>> = {}
      OBVIOUS
    <3> QED
      BY <2>1, <3>1, <1>17, Zenon DEF RevokesVer
  <2>2. CASE a.pending_revokes_from_sps = e.pending_revokes_from_sps /\ a.revoked = e.revoked
    <3>1. /\ d.pending_revokes_from_sps = e.pending_revokes_from_sps /\ d.revoked = e.revoked
          /\ d.num = e.num /\ d.entries = e.entries
      BY <2>2, <1>5, <1>12, <1>17, Zenon
    <3> QED
      BY <3>1, <1>7, Zenon DEF RevokesVer
  <2> QED
    BY <1>19, <2>1, <2>2, Zenon
<1>21. e.revoked \cap Others(p) = {} \/ Others(p) \subseteq e.revoked
  <2>1. c.revoked \cap Others(p) = {} \/ Others(p) \subseteq c.revoked
    BY Zenon DEF SpVer, SpCore
  <2> QED
    BY <2>1, <1>1, <1>4, Zenon
<1>22. Revokes(p, c, d)
  <2>1. d.revoked \cap Others(p) = {} \/ Others(p) \subseteq d.revoked
    BY <1>13, <1>17, <1>21, Zenon
  <2>2. d.local = Cardinality(d.revoked \cap SpRanks(p))
    <3>1. \A x : x \in d.revoked \cap SpRanks(p) <=> x \in e.revoked \cap SpRanks(p)
      BY <1>13, <1>17, Zenon DEF Others
    <3>2. d.revoked \cap SpRanks(p) = e.revoked \cap SpRanks(p)
      BY <3>1
    <3> QED
      BY <3>2, <1>4, <1>12, <1>17, Zenon
  <2>3. c.revoked \subseteq d.revoked
    BY <1>4, <1>13, <1>17, Zenon
  <2>4. d.global = Cardinality(d.revoked) /\ d.revoked \in SUBSET Group
    BY <1>11, <1>14, <1>17, Zenon
  <2>5. \A x \in {"num", "entries", "sp_ranks", "failed", "pending_entries", "pending_adds",
               "pending_revokes_from_ranks"} : d[x] = c[x]
    BY <1>12, <1>17, Zenon
  <2> QED
    BY <2>1, <2>2, <2>3, <2>4, <2>5, <1>20, ZenonT(30) DEF Revokes
<1>23. RevokesUp(p, c, d)
  <2>1. ~(SpRanks(p) \subseteq c.revoked)
    BY Zenon
  <2>2. SpRanks(p) \subseteq d.revoked <=> SpRanks(p) \subseteq e.revoked
    BY <1>13, <1>17 DEF Others
  <2>3. CASE SpRanks(p) \subseteq e.revoked
    <3>1. d.toPeers = <<RevokeMsg(e.revoked, c.num)>>
      BY <2>3, <1>5, <1>9, <1>17, Zenon DEF LocallyDone
    <3>2. e.revoked \subseteq SpRanks(p) \/ Others(p) \subseteq c.revoked
      <4>1. c.revoked \cap Others(p) = {} \/ Others(p) \subseteq c.revoked
        BY Zenon DEF SpVer, SpCore
      <4> QED
        BY <4>1, <1>1, <1>4, Zenon DEF Others
    <3> QED
      BY <2>1, <2>2, <2>3, <3>1, <3>2, Zenon DEF RevokesUp
  <2>4. CASE ~(SpRanks(p) \subseteq e.revoked)
    <3>1. d.toPeers = <<>>
      BY <2>4, <1>9, <1>17, Zenon DEF LocallyDone
    <3> QED
      BY <2>2, <2>4, <3>1, Zenon DEF RevokesUp
  <2> QED
    BY <2>3, <2>4, Zenon
<1>24. RevokesFrom(p, c, d, {r}, {})
  <2>1. r \in d.revoked
    BY <1>4, <1>13, <1>17, Zenon
  <2>2. ASSUME NEW s \in SpRanks(p) \ {r} PROVE s \in d.revoked <=> s \in c.revoked
    BY <1>4, <1>13, <1>17, Zenon DEF Others
  <2>3. ASSUME NEW s \in Others(p)
        PROVE  (s \in d.revoked \/ d.pending_revokes_from_sps # <<>>)
                 <=> (s \in c.revoked \/ c.pending_revokes_from_sps # <<>>)
    <3>1. s \in e.revoked <=> s \in c.revoked
      BY <1>1, <1>4, Zenon
    <3>2. CASE SpRanks(p) \subseteq e.revoked
      <4>1. /\ a.pending_revokes_from_sps = <<>>
            /\ a.revoked = IF e.pending_revokes_from_sps = <<>> THEN e.revoked
                           ELSE e.revoked \cup Others(p)
        BY <3>2, <1>9, Zenon DEF LocallyDone
      <4> QED
        BY <4>1, <3>1, <1>5, <1>17, Zenon
    <3>3. CASE ~(SpRanks(p) \subseteq e.revoked)
      <4>1. /\ a.pending_revokes_from_sps = e.pending_revokes_from_sps /\ a.revoked = e.revoked
        BY <3>3, <1>9, Zenon DEF LocallyDone
      <4> QED
        BY <4>1, <3>1, <1>5, <1>17, Zenon
    <3> QED
      BY <3>2, <3>3, Zenon
  <2> QED
    BY <2>1, <2>2, <2>3, Zenon DEF RevokesFrom
<1> QED
  BY <1>1, <1>18, <1>22, <1>23, <1>24, RevokesStep, ZenonT(30)

\* It waits while ranks of the SP have not revoked.
LEMMA SpRevokeWaits ==
  ASSUME GroupSets, NEW p \in SP, NEW c, SpOK(p, c), SpVer(p, c), c.toPeers = <<>>, c.toHosts = <<>>,
         SpRanks(p) # {}, Held(c.entries) = Group, NEW m, RevokeInTurn(p, c, m),
         ~(SpRanks(p) \subseteq c.revoked), NEW d, DOMAIN d = SpFields,
         d.pending_revokes_from_sps = <<m>>,
         \A x \in SpFields \ {"pending_revokes_from_sps"} : d[x] = c[x]
  PROVE  SpStep(p, c, d, {}, Others(p), 2 * c.num + 2)
<1>1. /\ d.num = c.num /\ d.entries = c.entries /\ d.sp_ranks = c.sp_ranks /\ d.failed = c.failed
      /\ d.pending_entries = c.pending_entries /\ d.pending_adds = c.pending_adds
      /\ d.pending_revokes_from_ranks = c.pending_revokes_from_ranks
      /\ d.local = c.local /\ d.global = c.global /\ d.revoked = c.revoked
      /\ d.toPeers = <<>> /\ d.toHosts = <<>> /\ d.revoke_posted = c.revoke_posted
  BY Zenon DEF SpFields, CommonFields
<1>2. /\ c.global = Cardinality(c.revoked) /\ c.local = Cardinality(c.revoked \cap SpRanks(p))
      /\ c.revoked \cap Others(p) = {} \/ Others(p) \subseteq c.revoked
  BY Zenon DEF SpVer, SpCore
<1>3. c.revoked # Group /\ SpRanks(p) \subseteq Group /\ c.revoked \in SUBSET Group
  BY SpNumbers, Zenon DEF SpRanks
<1>4. /\ m.seq = c.num /\ Others(p) # {} /\ Others(p) \cap c.revoked = {}
      /\ Others(p) \subseteq m.ranks /\ m.ranks \subseteq Others(p) \cup c.revoked
      /\ Others(p) \cap Pending(c) = {}
  BY Zenon DEF RevokeInTurn
<1>5. RevokesVer(p, d)
  <2>1. DOMAIN <<m>> = {1} /\ <<m>>[1] = m
    OBVIOUS
  <2> QED
    BY <2>1, <1>1, <1>4, Zenon DEF RevokesVer
<1>6. Revokes(p, c, d)
  BY <1>1, <1>2, <1>3, <1>5, Zenon DEF Revokes
<1>7. RevokesUp(p, c, d) /\ RevokesDown(c, d)
  BY <1>1, <1>3, Zenon DEF RevokesUp, RevokesDown
<1>8. RevokesFrom(p, c, d, {}, Others(p))
  <2>1. d.pending_revokes_from_sps # <<>>
    OBVIOUS
  <2> QED
    BY <2>1, <1>1, <1>4, Zenon DEF RevokesFrom
<1> QED
  BY <1>3, <1>6, <1>7, <1>8, RevokesStep, Zenon

\* It completes the revokes of all ranks otherwise.
LEMMA SpRevokeCompletes ==
  ASSUME GroupSets, NEW p \in SP, NEW c, SpOK(p, c), SpVer(p, c), c.toPeers = <<>>, c.toHosts = <<>>,
         SpRanks(p) # {}, Held(c.entries) = Group, NEW m, RevokeInTurn(p, c, m),
         SpRanks(p) \subseteq c.revoked, NEW d, DOMAIN d = SpFields, d.revoked = Group,
         d.global = Cardinality(d.revoked), d.toHosts = <<RevokeMsg(Group, c.num)>>,
         d.revoke_posted = c.num,
         \A x \in SpFields \ {"revoked", "global", "toHosts", "ongoing", "revoke_posted"} : d[x] = c[x]
  PROVE  SpStep(p, c, d, {}, Others(p), 2 * c.num + 2)
<1>1. /\ d.num = c.num /\ d.entries = c.entries /\ d.sp_ranks = c.sp_ranks /\ d.failed = c.failed
      /\ d.pending_entries = c.pending_entries /\ d.pending_adds = c.pending_adds
      /\ d.pending_revokes_from_ranks = c.pending_revokes_from_ranks
      /\ d.pending_revokes_from_sps = c.pending_revokes_from_sps
      /\ d.local = c.local /\ d.toPeers = <<>>
  BY Zenon DEF SpFields, CommonFields
<1>2. c.local = Cardinality(c.revoked \cap SpRanks(p))
  BY Zenon DEF SpVer, SpCore
<1>3. /\ Others(p) # {} /\ Others(p) \cap c.revoked = {}
      /\ Others(p) \cap Pending(c) = {} /\ c.pending_revokes_from_sps = <<>>
  BY Zenon DEF RevokeInTurn
<1>4. c.revoked # Group /\ SpRanks(p) \subseteq Group /\ c.revoked \in SUBSET Group
      /\ Others(p) \subseteq Group
  BY <1>3, SpNumbers, Zenon DEF SpRanks, Others
<1>5. RevokesVer(p, d)
  <2>1. DOMAIN <<>> = {}
    OBVIOUS
  <2> QED
    BY <2>1, <1>1, <1>3, Zenon DEF RevokesVer
<1>6. Revokes(p, c, d)
  <2>1. d.revoked \cap SpRanks(p) = c.revoked \cap SpRanks(p)
    BY <1>4
  <2>2. d.local = Cardinality(d.revoked \cap SpRanks(p))
    BY <2>1, <1>1, <1>2, Zenon
  <2>3. \A x \in {"num", "entries", "sp_ranks", "failed", "pending_entries", "pending_adds",
               "pending_revokes_from_ranks"} : d[x] = c[x]
    BY <1>1, Zenon
  <2> QED
    BY <2>2, <2>3, <1>4, <1>5, Zenon DEF Revokes
<1>7. RevokesUp(p, c, d) /\ RevokesDown(c, d)
  BY <1>1, <1>4, Zenon DEF RevokesUp, RevokesDown
<1>8. RevokesFrom(p, c, d, {}, Others(p))
  BY <1>1, <1>3, <1>4, Zenon DEF RevokesFrom
<1> QED
  BY <1>4, <1>6, <1>7, <1>8, RevokesStep, Zenon

\* handle_revoke_group_rank_through_list_ranks on an SP.
LEMMA SpRevokeStep ==
  ASSUME GroupSets, NEW p \in SP, NEW c, SpOK(p, c), SpVer(p, c), c.toPeers = <<>>, c.toHosts = <<>>,
         SpRanks(p) # {}, Held(c.entries) = Group, NEW m, RevokeInTurn(p, c, m),
         NEW d, d = HandleSpRevoke(c, m)
  PROVE  SpStep(p, c, d, {}, Others(p), 2 * c.num + 2)
<1> DEFINE s == IF c.group_size = 0 THEN GroupSize ELSE c.group_size
           b == [c EXCEPT !.group_size = s]
           n == MarkRevoked(b, m.ranks)
           e == IF m.ranks \subseteq c.revoked \/ ~FinalRevokeDue(n) THEN n
                ELSE SendFinalRevoke(n)
           z == Append(c.pending_revokes_from_sps, m)
           w == [c EXCEPT !.pending_revokes_from_sps = z]
           x == IF c.group_size # c.num_local_entries \/ c.sp_ranks # c.local THEN w ELSE e
           F == Unless(c.n_local_ranks # 0 => m.seq = c.num, "revoke_seq")
<1>1. d = [x EXCEPT !.failed = @ \cup F]
  <2>1. [c EXCEPT !.group_size = IF @ = 0 THEN GroupSize ELSE @] = b
    BY Zenon DEF SpOK, SpCaches
  <2>2. [c EXCEPT !.pending_revokes_from_sps = Append(@, m)] = w
    BY Zenon DEF SpOK, SpCaches
  <2> QED
    BY <2>1, <2>2, Zenon DEF HandleSpRevoke
<1>2. /\ m.seq = c.num /\ Others(p) # {} /\ Others(p) \cap c.revoked = {}
      /\ Others(p) \subseteq m.ranks /\ m.ranks \subseteq Others(p) \cup c.revoked
      /\ c.pending_revokes_from_sps = <<>>
  BY Zenon DEF RevokeInTurn
<1>3. c.revoked # Group /\ SpRanks(p) \subseteq Group /\ c.revoked \in SUBSET Group
      /\ Others(p) \subseteq Group /\ Group = SpRanks(p) \cup Others(p)
  BY <1>2, SpNumbers, Zenon DEF SpRanks, Others
<1>4. F = {}
  BY <1>2, Zenon DEF Unless
<1>5. DOMAIN c = SpFields
  BY SpDomain, Zenon
<1>6. /\ c.group_size = GroupSize /\ c.group_size = c.num_local_entries
      /\ c.num \in Nat /\ c.revoke_posted \in Nat /\ c.num = c.revoke_posted + 1
      /\ c.sp_ranks = c.local <=> SpRanks(p) \subseteq c.revoked
  BY <1>3, FullCache, Zenon
<1>7. ASSUME DOMAIN x = SpFields
      PROVE  DOMAIN d = SpFields /\ \A y \in SpFields : d[y] = x[y]
  <2>1. x.failed \cup F = x.failed
    BY <1>4
  <2> HIDE DEF x, F
  <2> QED
    BY <1>1, <1>7, <2>1, Zenon DEF SpFields, CommonFields
<1>8. CASE ~(SpRanks(p) \subseteq c.revoked)
  <2>1. x = w
    BY <1>6, <1>8, Zenon
  <2>2. z = <<m>>
    BY <1>2
  <2> HIDE DEF z
  <2>3. /\ DOMAIN w = SpFields /\ w.pending_revokes_from_sps = z
        /\ \A y \in SpFields \ {"pending_revokes_from_sps"} : w[y] = c[y]
    BY <1>5, Zenon DEF SpFields, CommonFields
  <2> HIDE DEF w, x
  <2>4. /\ DOMAIN d = SpFields /\ d.pending_revokes_from_sps = <<m>>
        /\ \A y \in SpFields \ {"pending_revokes_from_sps"} : d[y] = c[y]
    BY <1>7, <2>1, <2>2, <2>3, ZenonT(30) DEF SpFields, CommonFields
  <2> QED
    BY <1>8, <2>4, SpRevokeWaits, Zenon
<1>9. CASE SpRanks(p) \subseteq c.revoked
  <2>1. x = e
    BY <1>6, <1>9, Zenon
  <2> DEFINE v == c.revoked \cup m.ranks
             g == c.global + Cardinality(m.ranks \ c.revoked)
  <2>2. v = Group
    BY <1>2, <1>3, <1>9, Zenon
  <2>3. g = Cardinality(v)
    <3>1. m.ranks \in SUBSET Group /\ c.global = Cardinality(c.revoked)
      BY <1>2, <1>3, Zenon DEF SpVer, SpCore
    <3> QED
      BY <3>1, <1>3, MarkCount, Zenon
  <2>4. b = c
    <3>1. s = c.group_size
      BY <1>6, GroupFinite, Zenon
    <3> HIDE DEF s
    <3> QED
      BY <3>1, Zenon DEF SpOK, SpCaches
  <2>5. n = [c EXCEPT !.revoked = v, !.global = g]
    <3> HIDE DEF b
    <3> QED
      BY <2>4, <1>5, Zenon DEF MarkRevoked, SpFields, CommonFields
  <2> HIDE DEF b, v, g, n
  <2>6. /\ DOMAIN n = SpFields /\ n.revoked = v /\ n.global = g
        /\ \A y \in SpFields \ {"revoked", "global"} : n[y] = c[y]
    BY <1>5, <2>5, Zenon DEF SpFields, CommonFields
  <2>7. /\ n.group_size = c.group_size /\ n.num = c.num /\ n.revoke_posted = c.revoke_posted
        /\ n.toHosts = <<>>
    BY <2>6, Zenon DEF SpFields, CommonFields
  <2>8. Revocable(n)
    BY <2>2, <2>3, <2>6, <2>7, <1>6, ZenonT(30) DEF Revocable
  <2>9. e = Finish(n)
    <3>1. ~(m.ranks \subseteq c.revoked)
      BY <1>2, Zenon
    <3> QED
      BY <3>1, Zenon DEF Finish
  <2> HIDE DEF e, x
  <2>10. Finished(n, e)
    BY <2>8, <2>9, FinishVersion, Zenon
  <2>11. /\ DOMAIN e = SpFields /\ e.toHosts = <<RevokeMsg(Group, c.num)>> /\ e.revoke_posted = c.num
         /\ \A y \in SpFields \ {"toHosts", "ongoing", "revoke_posted"} : e[y] = n[y]
    BY <2>2, <2>6, <2>7, <2>10, ZenonT(30) DEF Finished
  <2>12. DOMAIN d = SpFields /\ \A y \in SpFields : d[y] = e[y]
    BY <1>7, <2>1, <2>11, Zenon
  <2>13. /\ d.revoked = Group /\ d.global = Cardinality(Group)
         /\ d.toHosts = <<RevokeMsg(Group, c.num)>> /\ d.revoke_posted = c.num
    BY <2>2, <2>3, <2>6, <2>11, <2>12, ZenonT(30) DEF SpFields, CommonFields
  <2>14. \A y \in SpFields \ {"revoked", "global", "toHosts", "ongoing", "revoke_posted"} : d[y] = c[y]
    BY <2>6, <2>11, <2>12, ZenonT(30)
  <2> QED
    BY <1>9, <2>12, <2>13, <2>14, SpRevokeCompletes, ZenonT(30)
<1> QED
  BY <1>8, <1>9, Zenon

\* group_cache_send_to_local_ranks_cb.
LEMMA CacheSentStep ==
  ASSUME GroupSets, NEW p \in SP, NEW c, SpOK(p, c), SpVer(p, c), c.toPeers = <<>>, c.toHosts = <<>>,
         SpRanks(p) # {}, NEW d, d = CacheSent(c)
  PROVE  SpStep(p, c, d, {}, {}, 2 * c.num + 2)
<1> DEFINE n == c.num
           b == [c EXCEPT !.sent_to_host = n]
           a == HandlePendingRevokes(b)
<1>1. d = IF ~(PendingRevokes(c) \subseteq c.revoked) /\ FinalRevokeDue(a) THEN SendFinalRevoke(a) ELSE a
  BY Zenon DEF CacheSent
<1>2. DOMAIN b = SpFields /\ \A x \in SpFields \ {"sent_to_host"} : b[x] = c[x]
  <2>1. DOMAIN c = SpFields
    BY SpDomain, Zenon
  <2> HIDE DEF n
  <2> QED
    BY <2>1, Zenon DEF SpFields, CommonFields
<1>3. a = HandlePendingRevokes(b)
  OBVIOUS
<1> HIDE DEF a, b
<1>4. /\ b.num = c.num /\ b.entries = c.entries /\ b.sp_ranks = c.sp_ranks /\ b.failed = c.failed
      /\ b.pending_entries = c.pending_entries /\ b.pending_adds = c.pending_adds
      /\ b.pending_revokes_from_ranks = c.pending_revokes_from_ranks
      /\ b.pending_revokes_from_sps = c.pending_revokes_from_sps
      /\ b.local = c.local /\ b.global = c.global /\ b.revoked = c.revoked
      /\ b.toPeers = <<>> /\ b.toHosts = <<>> /\ b.revoke_posted = c.revoke_posted
      /\ b.group_size = c.group_size
  BY <1>2, Zenon DEF SpFields, CommonFields
<1>5. /\ c.revoked \in SUBSET Group /\ SpRanks(p) \subseteq Group /\ Group # {} /\ c.num \in Nat
      /\ c.pending_revokes_from_sps \in Seq(SpRevokeMsgs)
  BY SpNumbers, Zenon DEF SpRanks, SpOK, SpCaches
<1>6. CASE c.pending_revokes_from_sps = <<>>
  <2>1. a = b
    BY <1>3, <1>4, <1>6, Zenon DEF HandlePendingRevokes
  <2>2. PendingRevokes(c) \subseteq c.revoked
    <3>1. DOMAIN <<>> = {}
      OBVIOUS
    <3> QED
      BY <3>1, <1>6, Zenon DEF PendingRevokes
  <2>3. d = b
    BY <2>1, <2>2, <1>1, Zenon
  <2>4. Cur(d) = Cur(c) /\ SpUp(p, d) = SpUp(p, c) /\ SpDown(d) = SpDown(c)
    BY <2>3, <1>4, SamePositions, Zenon
  <2>5. SpCore(p, d)
    BY <2>3, <1>4, Zenon DEF SpVer, SpCore, RanksCounted
  <2>6. AddsVer(d) /\ EntriesVer(d)
    BY <2>3, <1>4, Zenon DEF SpVer, AddsVer, EntriesVer
  <2>7. RevokesVer(p, d)
    BY <2>3, <1>4, Zenon DEF SpVer, RevokesVer
  <2>8. SendsUp(p, c, d)
    BY <2>3, <2>4, <1>4, Zenon DEF SendsUp
  <2>9. SendsDown(c, d)
    <3>1. SpDown(c) <= SpDown(d)
      BY <2>4, <1>5, PositionsInt
    <3> QED
      BY <3>1, <2>3, <1>4, Zenon DEF SendsDown
  <2>10. Added(d) = Added(c) /\ Pending(d) = Pending(c)
    BY <2>3, <1>4, Zenon DEF Added, Pending
  <2>11. \A r : FromRanks(d, r) = FromRanks(c, r)
    BY <2>3, <2>4, <2>10, <1>4, Zenon DEF FromRanks
  <2>12. \A r : FromPeer(d, r) = FromPeer(c, r)
    BY <2>3, <2>4, <2>10, <1>4, Zenon DEF FromPeer
  <2>13. SpVer(p, d) /\ c.revoked \subseteq d.revoked
    BY <2>3, <2>5, <2>6, <2>7, <1>4, Zenon DEF SpVer
  <2> QED
    BY <2>8, <2>9, <2>11, <2>12, <2>13, Zenon DEF SpStep
<1>7. CASE c.pending_revokes_from_sps # <<>>
  <2>1. RevokesVer(p, c) /\ c.global = Cardinality(c.revoked)
        /\ c.local = Cardinality(c.revoked \cap SpRanks(p))
    BY Zenon DEF SpVer, SpCore
  <2>2. /\ Others(p) # {} /\ Others(p) \cap c.revoked = {} /\ Others(p) \subseteq PendingRevokes(c)
        /\ Held(c.entries) = Group
    BY <1>5, <1>7, <2>1, PendingRevokesHold, Zenon
  <2>3. c.revoked # Group /\ Others(p) \subseteq Group
    BY <2>2, Zenon DEF Others
  <2>4. d = Finish(a)
    BY <1>1, <2>2, Zenon DEF Finish
  <2>5. RevokesVer(p, b)
    BY <2>1, <1>4, Zenon DEF RevokesVer
  <2>6. RevokesTaken(p, b, a)
    BY <1>2, <1>3, <1>4, <1>5, <2>1, <2>5, PendingRevokesVersion, Zenon
  <2>7. /\ DOMAIN a = SpFields /\ a.pending_revokes_from_sps = <<>>
        /\ a.revoked = c.revoked \cup Others(p) /\ a.global = Cardinality(a.revoked)
        /\ \A x \in SpFields \ {"revoked", "global", "pending_revokes_from_sps"} : a[x] = b[x]
    BY <1>4, <1>7, <2>6, Zenon DEF RevokesTaken
  <2>8. /\ a.num = c.num /\ a.entries = c.entries /\ a.sp_ranks = c.sp_ranks /\ a.failed = c.failed
        /\ a.pending_entries = c.pending_entries /\ a.pending_adds = c.pending_adds
        /\ a.pending_revokes_from_ranks = c.pending_revokes_from_ranks
        /\ a.local = c.local /\ a.group_size = c.group_size
        /\ a.toPeers = <<>> /\ a.toHosts = <<>> /\ a.revoke_posted = c.revoke_posted
    BY <2>7, <1>4, Zenon DEF SpFields, CommonFields
  <2>9. /\ c.group_size = GroupSize /\ c.revoke_posted \in Nat /\ c.num = c.revoke_posted + 1
    BY <2>2, <2>3, FullCache, Zenon
  <2>10. a.revoked \in SUBSET Group
    BY <1>5, <2>3, <2>7, Zenon
  <2>11. Revocable(a)
    BY <2>7, <2>8, <2>9, <2>10, Zenon DEF Revocable
  <2>12. Finished(a, d)
    BY <2>4, <2>11, FinishVersion, Zenon
  <2>13. /\ \A x \in SpFields \ {"toHosts", "ongoing", "revoke_posted"} : d[x] = a[x]
         /\ IF a.revoked = Group THEN d.toHosts = <<RevokeMsg(Group, a.num)>> /\ d.revoke_posted = a.num
            ELSE d.toHosts = <<>> /\ d.revoke_posted = a.revoke_posted
    BY <2>12, Zenon DEF Finished
  <2>14. /\ d.num = c.num /\ d.entries = c.entries /\ d.sp_ranks = c.sp_ranks /\ d.failed = c.failed
         /\ d.pending_entries = c.pending_entries /\ d.pending_adds = c.pending_adds
         /\ d.pending_revokes_from_ranks = c.pending_revokes_from_ranks
         /\ d.pending_revokes_from_sps = <<>> /\ d.global = a.global
         /\ d.local = c.local /\ d.revoked = c.revoked \cup Others(p) /\ d.toPeers = <<>>
    BY <2>7, <2>8, <2>13, Zenon DEF SpFields, CommonFields
  <2>15. RevokesDown(c, d)
    BY <2>7, <2>8, <2>13, <2>14, Zenon DEF RevokesDown
  <2>16. RevokesVer(p, d)
    <3>1. DOMAIN <<>> = {}
      OBVIOUS
    <3> QED
      BY <3>1, <2>14, Zenon DEF RevokesVer
  <2>17. Revokes(p, c, d)
    <3>1. \A x : x \in d.revoked \cap SpRanks(p) <=> x \in c.revoked \cap SpRanks(p)
      BY <2>14, Zenon DEF Others
    <3>2. d.revoked \cap SpRanks(p) = c.revoked \cap SpRanks(p)
      BY <3>1
    <3>3. d.local = Cardinality(d.revoked \cap SpRanks(p))
      BY <3>2, <2>1, <2>14, Zenon
    <3>4. d.global = Cardinality(d.revoked) /\ d.revoked \in SUBSET Group
          /\ c.revoked \subseteq d.revoked /\ Others(p) \subseteq d.revoked
      BY <2>7, <2>10, <2>14, Zenon
    <3>5. \A x \in {"num", "entries", "sp_ranks", "failed", "pending_entries", "pending_adds",
               "pending_revokes_from_ranks"} : d[x] = c[x]
      BY <2>14, Zenon
    <3> QED
      BY <3>3, <3>4, <3>5, <2>16, Zenon DEF Revokes
  <2>18. RevokesUp(p, c, d)
    <3>1. SpRanks(p) \subseteq d.revoked => SpRanks(p) \subseteq c.revoked
      BY <2>14, Zenon DEF Others
    <3> QED
      BY <3>1, <2>14, Zenon DEF RevokesUp
  <2>19. RevokesFrom(p, c, d, {}, {})
    <3>1. ASSUME NEW s \in SpRanks(p) PROVE s \in d.revoked <=> s \in c.revoked
      BY <2>14, Zenon DEF Others
    <3>2. Others(p) \subseteq d.revoked
      BY <2>14, Zenon
    <3> QED
      BY <1>7, <3>1, <3>2, Zenon DEF RevokesFrom
  <2> QED
    BY <2>2, <2>3, <2>15, <2>17, <2>18, <2>19, RevokesStep, Zenon
<1> QED
  BY <1>6, <1>7, Zenon

\* The cache of SP p after the final revoke of the version in c completed: it
\* holds nothing but the entries that waited.
Renewed(p, c, d) ==
  /\ Cur(d) = c.num + 1 /\ Uniform(d.entries, d.num) /\ d.num \in Nat
  /\ Held(d.entries) = Pending(c) /\ Pending(c) \subseteq Others(p)
  /\ d.revoked = {} /\ d.failed = {} /\ d.revoke_posted = c.num
  /\ d.local = 0 /\ d.global = 0 /\ d.sp_ranks = 0
  /\ d.pending_entries = <<>> /\ d.pending_revokes_from_sps = <<>>
  /\ d.pending_revokes_from_ranks = <<>> /\ d.toPeers = <<>> /\ d.toHosts = <<>>

\* A cache whose final revoke completes.
Revoked(p, c) ==
  /\ SpOK(p, c) /\ SpVer(p, c) /\ c.num = c.revoke_posted /\ RevokesOf(c) = {}
  /\ c.revoked = Group /\ c.toPeers = <<>> /\ c.toHosts = <<>>
  /\ SpRanks(p) # {}

\* revoke_group_cache, then the entries that waited.
LEMMA RevokeSpCacheVersion ==
  ASSUME GroupSets, NEW p \in SP, NEW c, Revoked(p, c), NEW d, d = RevokeSpCache(p, c)
  PROVE  SpOK(p, d) /\ d.pending_adds = c.pending_adds /\ Renewed(p, c, d)
<1> DEFINE e == Clean(c)
<1>1. /\ SpOK(p, c) /\ SpVer(p, c) /\ c.num = c.revoke_posted /\ RevokesOf(c) = {}
      /\ c.revoked = Group /\ c.toPeers = <<>> /\ c.toHosts = <<>>
      /\ SpRanks(p) # {}
  BY Zenon DEF Revoked
<1>2. SpOK(p, e) /\ Cleaned(c, e) /\ d = HandlePendingEntries(p, e)
  BY <1>1, CleanOK, Zenon DEF RevokeSpCache, Clean
<1> HIDE DEF e
<1>3. /\ e.entries = EmptyEntries /\ e.revoked = {} /\ e.local = 0 /\ e.global = 0 /\ e.sp_ranks = 0
      /\ e.num = c.num /\ e.pending_entries = c.pending_entries /\ e.failed = c.failed
      /\ e.revoke_posted = c.num /\ e.pending_revokes_from_sps = c.pending_revokes_from_sps
      /\ e.pending_revokes_from_ranks = c.pending_revokes_from_ranks
      /\ e.pending_adds = c.pending_adds /\ e.toPeers = <<>> /\ e.toHosts = <<>>
  BY <1>1, <1>2, Zenon DEF Cleaned
<1>4. Held(e.entries) = {} /\ Uniform(e.entries, e.num) /\ Cur(e) = c.num + 1
  BY <1>3, Zenon DEF EmptyEntries, Held, Uniform, Cur
<1>5. c.failed = {} /\ c.pending_revokes_from_ranks = <<>>
  BY <1>1, Zenon DEF SpVer, SpCore
<1>6. c.pending_revokes_from_sps = <<>>
  <2>1. c.pending_revokes_from_sps \in Seq(SpRevokeMsgs) /\ Others(p) \subseteq Group
    BY <1>1, Zenon DEF SpOK, SpCaches, Others
  <2>2. \A i \in DOMAIN c.pending_revokes_from_sps : Others(p) # {} /\ Others(p) \cap c.revoked = {}
    BY <1>1, Zenon DEF SpVer, RevokesVer
  <2>3. DOMAIN c.pending_revokes_from_sps = {}
    BY <1>1, <2>1, <2>2, Zenon
  <2> QED
    BY <2>1, <2>3, EmptyDomain, Zenon
<1>7. c.num \in Nat
  BY <1>1, SpNumbers, Zenon
<1>8. Pending(e) = Pending(c)
  BY <1>3, Zenon DEF Pending
<1>9. CASE c.pending_entries = <<>>
  <2>1. d = e
    BY <1>2, <1>3, <1>9, Zenon DEF HandlePendingEntries
  <2>2. DOMAIN <<>> = {}
    OBVIOUS
  <2>3. Pending(c) = {}
    BY <2>2, <1>9, Zenon DEF Pending
  <2>4. Held(d.entries) = Pending(c) /\ Pending(c) \subseteq Others(p)
    BY <2>1, <2>3, <1>4, Zenon
  <2> QED
    BY <2>1, <2>4, <1>2, <1>3, <1>4, <1>5, <1>6, <1>7, <1>9, Zenon DEF Renewed
<1>10. CASE c.pending_entries # <<>>
  <2>1. \A i \in DOMAIN e.pending_entries : Uniform(e.pending_entries[i].entries, Cur(e))
    BY <1>1, <1>3, <1>4, Zenon DEF SpVer, EntriesVer
  <2>2. AddsPeers(e, Pending(e), <<>>, d)
    BY <2>1, <1>2, <1>3, <1>4, <1>10, PendingEntriesVersion, Zenon
  <2>3. Pending(e) \subseteq Others(p)
    BY <2>1, <1>2, PendingHolds, Zenon
  <2>4. SpOK(p, d)
    BY <1>2, <1>3, HandlePendingEntriesOK, Zenon
  <2>5. /\ d.pending_entries = <<>> /\ Adds(e, d, Cur(e)) /\ SendsFull(e, d)
        /\ Held(d.entries) = Held(e.entries) \cup Pending(e)
        /\ d.sp_ranks = e.sp_ranks /\ d.toPeers = e.toPeers
    BY <2>2, Zenon DEF AddsPeers
  <2>6. /\ d.num = c.num + 1 /\ Uniform(d.entries, d.num) /\ Held(d.entries) # {}
        /\ d.local = e.local /\ d.global = e.global /\ d.failed = e.failed
        /\ d.revoke_posted = e.revoke_posted /\ d.revoked = e.revoked
        /\ d.pending_revokes_from_sps = e.pending_revokes_from_sps
        /\ d.pending_revokes_from_ranks = e.pending_revokes_from_ranks
        /\ d.pending_adds = e.pending_adds
    BY <1>4, <2>5, Zenon DEF Adds, Kept
  <2>7. Held(d.entries) = Pending(c)
    BY <1>4, <1>8, <2>5, Zenon
  <2>8. Held(d.entries) # Group
    BY <1>1, <1>8, <2>3, <2>7, Zenon DEF Others, SpRanks
  <2>9. d.toHosts = <<>>
    BY <2>5, <2>8, <1>3, Zenon DEF SendsFull
  <2>10. Cur(d) = c.num + 1 /\ d.num \in Nat
    BY <2>4, <2>6, SpNumbers, Zenon DEF Cur
  <2>11. Pending(c) \subseteq Others(p)
    BY <2>3, <1>8, Zenon
  <2>12. Renewed(p, c, d)
    BY <2>5, <2>6, <2>7, <2>9, <2>10, <2>11, <1>3, <1>5, <1>6, Zenon DEF Renewed
  <2> QED
    BY <2>4, <2>6, <2>12, <1>3, Zenon
<1> QED
  BY <1>9, <1>10, Zenon

\* Apart from the adds that wait this does not change what the SP sent or
\* took: the streams continue with the next version.
Restarted(p, c, d) ==
  /\ SpVer(p, d) /\ d.revoked = {} /\ Cur(d) = c.num + 1
  /\ SpUp(p, d) = SpUp(p, c) /\ SpDown(d) = SpDown(c)
  /\ \A r \in Others(p) : FromPeer(d, r) = FromPeer(c, r)
  /\ \A r \in SpRanks(p) : FromRanks(d, r) = 2 * c.num + 2

\* A cache is at the next version, with the entries that were put off, when its
\* final revoke has been sent and no add was put off.
LEMMA RenewedVersion ==
  ASSUME GroupSets, NEW p \in SP, NEW c, Revoked(p, c), NEW d, Renewed(p, c, d),
         d.pending_adds = <<>>
  PROVE  Restarted(p, c, d)
<1>1. /\ SpOK(p, c) /\ SpVer(p, c) /\ c.num = c.revoke_posted /\ RevokesOf(c) = {}
      /\ c.revoked = Group /\ SpRanks(p) # {}
  BY Zenon DEF Revoked
<1>2. /\ Cur(d) = c.num + 1 /\ Uniform(d.entries, d.num)
      /\ Held(d.entries) = Pending(c) /\ Pending(c) \subseteq Others(p)
      /\ d.revoked = {} /\ d.failed = {} /\ d.revoke_posted = c.num
      /\ d.local = 0 /\ d.global = 0 /\ d.sp_ranks = 0
      /\ d.pending_entries = <<>> /\ d.pending_revokes_from_sps = <<>>
      /\ d.pending_revokes_from_ranks = <<>> /\ d.num \in Nat
  BY Zenon DEF Renewed
<1>3. c.num \in Nat /\ SpRanks(p) \subseteq Group /\ Group # {} /\ Others(p) \cap SpRanks(p) = {}
      /\ Others(p) \subseteq Group
  BY <1>1, SpNumbers, Zenon DEF SpRanks, Others
<1>4. Held(c.entries) = Group /\ Cur(c) = c.num
  BY <1>1, <1>3, Zenon DEF SpVer, SpCore, Cur
<1>5. DOMAIN <<>> = {}
  OBVIOUS
<1>6. SpVer(p, d)
  <2>1. Cardinality({}) = 0
    BY GroupFinite, Zenon
  <2>2. d.revoked \cap SpRanks(p) = {} /\ Held(d.entries) \cap SpRanks(p) = {}
    BY <1>2, <1>3, Zenon
  <2>3. Held(d.entries) # {} => d.num # d.revoke_posted
    <3>1. c.num + 1 # c.num
      BY <1>3
    <3> QED
      BY <3>1, <1>2, Zenon DEF Cur
  <2>4. RanksCounted(p, d)
    BY <2>2, <1>2, Zenon DEF RanksCounted
  <2>5. SpCore(p, d)
    <3>1. d.global = Cardinality(d.revoked) /\ d.local = Cardinality(d.revoked \cap SpRanks(p))
      BY <2>1, <2>2, <1>2, Zenon
    <3>2. d.revoked # Group /\ d.revoked \cap Others(p) = {}
      BY <1>2, <1>3, Zenon
    <3> QED
      BY <2>3, <2>4, <3>1, <3>2, <1>2, Zenon DEF SpCore
  <2>6. AddsVer(d) /\ EntriesVer(d) /\ RevokesVer(p, d)
    BY <1>2, <1>5, Zenon DEF AddsVer, EntriesVer, RevokesVer
  <2> QED
    BY <2>5, <2>6, Zenon DEF SpVer
<1>7. SpUp(p, d) = SpUp(p, c)
  <2>1. SpUp(p, d) = 2 * (c.num + 1) - 1
    <3>1. ~(SpRanks(p) \subseteq d.revoked) /\ ~(SpRanks(p) \subseteq Held(d.entries))
      BY <1>1, <1>2, <1>3, Zenon
    <3> QED
      BY <3>1, <1>2, UpCases, Zenon
  <2>2. SpUp(p, c) = 2 * c.num + 1
    BY <1>1, <1>3, <1>4, UpCases, Zenon
  <2> QED
    BY <2>1, <2>2, <1>3
<1>8. SpDown(d) = SpDown(c)
  <2>1. SpDown(d) = 2 * (c.num + 1) - 1
    <3>1. d.revoked # Group /\ Held(d.entries) # Group
      BY <1>1, <1>2, <1>3, Zenon
    <3> QED
      BY <3>1, <1>2, DownCases, Zenon
  <2>2. SpDown(c) = 2 * c.num + 1
    BY <1>1, <1>3, <1>4, DownCases, Zenon
  <2> QED
    BY <2>1, <2>2, <1>3
<1>9. ASSUME NEW r \in Others(p) PROVE FromPeer(d, r) = FromPeer(c, r)
  <2>1. Pending(d) = {} /\ r \in c.revoked
    BY <1>1, <1>2, <1>3, <1>5, Zenon DEF Pending
  <2>2. FromPeer(c, r) = IF r \in Pending(c) THEN 2 * c.num + 3 ELSE 2 * c.num + 2
    BY <2>1, <1>4, Zenon DEF FromPeer
  <2>3. FromPeer(d, r) = 2 * (c.num + 1) + IF r \in Pending(c) THEN 1 ELSE 0
    BY <2>1, <1>2, Zenon DEF FromPeer
  <2> QED
    BY <2>2, <2>3, <1>3
<1>10. ASSUME NEW r \in SpRanks(p) PROVE FromRanks(d, r) = 2 * c.num + 2
  <2>1. Added(d) = {} /\ r \notin Held(d.entries)
    BY <1>2, <1>3, <1>5, Zenon DEF Added
  <2>2. FromRanks(d, r) = 2 * (c.num + 1) + 0
    BY <2>1, <1>2, Zenon DEF FromRanks
  <2> QED
    BY <2>2, <1>3
<1> QED
  BY <1>2, <1>6, <1>7, <1>8, <1>9, <1>10, Zenon DEF Restarted

\* The ranks whose adds wait, when these are of version n.
AddsHeld(c, n) == Held(PendingAdds(c)) = Added(c) /\ Uniform(PendingAdds(c), n)

\* The entries that adds put off hold: one per add, all of the same version.
LEMMA PendingAddsHold ==
  ASSUME GroupSets, NEW p \in SP, NEW c, SpOK(p, c), NEW n,
         \A i \in DOMAIN c.pending_adds : c.pending_adds[i].seq = n
  PROVE  AddsHeld(c, n)
<1> DEFINE q == c.pending_adds
           g == [i \in DOMAIN q |-> Entry(q[i].rank, q[i].seq)]
<1>1. q \in Seq(AddMsgs(SpRanks(p))) /\ SpRanks(p) \subseteq Group
  BY Zenon DEF SpOK, SpCaches, SpRanks
<1>2. DOMAIN g = 1 .. Len(q) /\ Len(q) \in Nat /\ DOMAIN q = 1 .. Len(q)
  BY <1>1
<1>3. PendingAdds(c) = Merge(g) /\ Added(c) = {q[i].rank : i \in DOMAIN q}
      /\ \A i \in DOMAIN q : q[i].seq = n
  BY Zenon DEF PendingAdds, Added
<1> HIDE DEF q
<1>4. \A i \in DOMAIN q : q[i] \in AddMsgs(SpRanks(p))
  BY <1>1
<1>5. \A i \in DOMAIN q : q[i].rank \in Group /\ n \in Nat /\ n # 0
  BY <1>1, <1>3, <1>4, Zenon DEF AddMsgs, Version
<1>6. \A i \in DOMAIN q : g[i] = Entry(q[i].rank, n)
  BY <1>3, Zenon
<1>7. \A r \in Group : n \in Nat /\ n # 0 => Entry(r, n) \in EntriesOf(Group)
  BY Zenon DEF Entry, EntriesOf, Held
<1>8. \A i \in DOMAIN q : g[i] \in EntriesOf(Group)
  BY <1>5, <1>6, <1>7, Zenon
<1>9. g \in Seq(EntriesOf(Group)) /\ DOMAIN g = DOMAIN q
  BY <1>2, <1>8
<1> HIDE DEF g
<1>10. ASSUME NEW i \in DOMAIN q, NEW r \in Group
       PROVE  g[i][r] = IF r = q[i].rank THEN n ELSE 0
  BY <1>6, Zenon DEF Entry
<1>11. ASSUME NEW r \in Group
       PROVE  /\ Merge(g)[r] # 0 <=> \E i \in DOMAIN q : g[i][r] # 0
              /\ Merge(g)[r] # 0 => \E i \in DOMAIN q : g[i][r] # 0 /\ Merge(g)[r] = g[i][r]
  BY <1>9, MergeHolds, Zenon
<1>12. ASSUME NEW r \in Held(Merge(g)) PROVE r \in Added(c) /\ Merge(g)[r] = n
  <2>1. r \in Group /\ Merge(g)[r] # 0
    BY Zenon DEF Held
  <2>2. PICK i \in DOMAIN q : g[i][r] # 0 /\ Merge(g)[r] = g[i][r]
    BY <2>1, <1>11, Zenon
  <2>3. r = q[i].rank /\ g[i][r] = n
    BY <2>1, <2>2, <1>10, Zenon
  <2> QED
    BY <2>2, <2>3, <1>3, Zenon
<1>13. ASSUME NEW r \in Added(c) PROVE r \in Held(Merge(g))
  <2>1. PICK i \in DOMAIN q : r = q[i].rank
    BY <1>3, Zenon
  <2>2. r \in Group /\ g[i][r] # 0
    BY <2>1, <1>5, <1>10, Zenon
  <2>3. Merge(g)[r] # 0
    BY <2>2, <1>11, Zenon
  <2> QED
    BY <2>2, <2>3, Zenon DEF Held
<1>14. Held(Merge(g)) = Added(c) /\ Uniform(Merge(g), n)
  BY <1>12, <1>13, Zenon DEF Uniform
<1> QED
  BY <1>3, <1>14, Zenon DEF AddsHeld

\* The assertion on the adds that waited holds.
LEMMA AddsAreInOrder ==
  ASSUME GroupSets, NEW p \in SP, NEW c, SpOK(p, c), Uniform(c.entries, c.num),
         c.pending_adds # <<>>, \A i \in DOMAIN c.pending_adds : c.pending_adds[i].seq = Cur(c)
  PROVE  AddsInOrder(c)
<1> DEFINE f == PendingAdds(c)
<1>1. f \in EntriesOf(Group)
  <2>1. f \in EntriesOf(SpRanks(p)) /\ SpRanks(p) \subseteq Group
    BY PendingAddsOK, Zenon DEF SpRanks
  <2> QED
    BY <2>1, Zenon DEF EntriesOf
<1>2. Uniform(f, Cur(c))
  BY PendingAddsHold, Zenon DEF AddsHeld
<1>3. CacheOK(c)
  BY SpCacheOK, Zenon
<1>4. NextNum(c, f) = Cur(c)
  BY <1>1, <1>2, <1>3, StoreVersion, Zenon
<1>5. c.num \in Nat /\ Cur(c) >= c.num /\ Cur(c) >= Cur(c)
  <2>1. c.num \in Nat
    BY SpNumbers, Zenon
  <2> QED
    BY <2>1 DEF Cur
<1> QED
  BY <1>4, <1>5, Zenon DEF AddsInOrder

\* revoke_send_to_host_cb: the final revoke completed.
LEMMA RevokeSentStep ==
  ASSUME GroupSets, NEW p \in SP, NEW c, Revoked(p, c), NEW d, d = RevokeSent(p, c), SpOK(p, d)
  PROVE  SpStep(p, c, d, {}, {}, 2 * c.num + 2)
<1> DEFINE h == RevokeSpCache(p, c)
<1>1. d = HandlePendingAdds(p, h)
  BY Zenon DEF RevokeSent
<1>2. SpOK(p, h) /\ h.pending_adds = c.pending_adds /\ Renewed(p, c, h)
  BY RevokeSpCacheVersion, Zenon
<1> HIDE DEF h
<1>3. /\ SpOK(p, c) /\ SpVer(p, c) /\ c.revoked = Group /\ SpRanks(p) # {} /\ c.num \in Nat
      /\ SpRanks(p) \subseteq Group /\ Others(p) \subseteq Group /\ Group # {}
  BY SpNumbers, Zenon DEF Revoked, SpRanks, Others
<1>4. Cur(c) = c.num
  BY <1>3, Zenon DEF SpVer, SpCore, Cur
<1>5. ASSUME NEW r \in SpRanks(p)
      PROVE  FromRanks(c, r) = IF r \in Added(c) THEN 2 * c.num + 3 ELSE 2 * c.num + 2
  BY <1>3, <1>4, Zenon DEF FromRanks
<1>6. CASE c.pending_adds = <<>>
  <2>1. d = h
    BY <1>1, <1>2, <1>6, Zenon DEF HandlePendingAdds
  <2>2. Restarted(p, c, d)
    BY <2>1, <1>2, <1>6, RenewedVersion, Zenon
  <2>3. DOMAIN <<>> = {}
    OBVIOUS
  <2>4. Added(c) = {}
    BY <2>3, <1>6, Zenon DEF Added
  <2>5. d.toPeers = <<>> /\ d.toHosts = <<>>
    BY <2>1, <1>2, Zenon DEF Renewed
  <2>6. SendsUp(p, c, d)
    BY <2>2, <2>5, Zenon DEF SendsUp, Restarted
  <2>7. SendsDown(c, d)
    <3>1. SpDown(c) <= SpDown(d)
      BY <2>2, <1>3, PositionsInt DEF Restarted
    <3> QED
      BY <2>5, <3>1, Zenon DEF SendsDown
  <2>8. \A r \in SpRanks(p) : FromRanks(d, r) = FromRanks(c, r)
    BY <2>2, <2>4, <1>5, Zenon DEF Restarted
  <2>9. SpVer(p, d) /\ \A r \in Others(p) : FromPeer(d, r) = FromPeer(c, r)
    BY <2>2, Zenon DEF Restarted
  <2> QED
    BY <1>3, <2>6, <2>7, <2>8, <2>9, Zenon DEF SpStep
<1>7. CASE c.pending_adds # <<>>
  <2> DEFINE f == PendingAdds(h)
             w == WithoutAdds(h)
             F == h.failed \cup Unless(AddsInOrder(h), "add_seq")
             z == <<>>
  <2>1. d = AddLocalRanks(p, w, f)
    BY <1>1, <1>2, <1>7, Zenon DEF HandlePendingAdds, WithoutAdds, AddsInOrder, PendingAdds
  <2>2. f \in EntriesOf(SpRanks(p)) /\ SpOK(p, w) /\ w.global = h.global
    BY <1>2, <1>7, PendingAddsOK, Zenon
  <2>3. /\ Cur(h) = c.num + 1 /\ Uniform(h.entries, h.num) /\ h.num \in Nat
        /\ Held(h.entries) = Pending(c) /\ Pending(c) \subseteq Others(p)
        /\ h.revoked = {} /\ h.failed = {} /\ h.revoke_posted = c.num
        /\ h.local = 0 /\ h.global = 0 /\ h.sp_ranks = 0
        /\ h.pending_entries = <<>> /\ h.pending_revokes_from_sps = <<>>
        /\ h.pending_revokes_from_ranks = <<>> /\ h.toPeers = <<>> /\ h.toHosts = <<>>
    BY <1>2, Zenon DEF Renewed
  <2>4. \A i \in DOMAIN h.pending_adds : h.pending_adds[i].seq = Cur(h)
    BY <1>2, <1>3, <2>3, Zenon DEF SpVer, AddsVer
  <2>5. AddsHeld(h, Cur(h)) /\ Added(h) = Added(c)
    BY <1>2, <2>4, PendingAddsHold, Zenon DEF Added
  <2>6. F = h.failed
    <3>1. AddsInOrder(h)
      BY <1>2, <1>7, <2>3, <2>4, AddsAreInOrder, Zenon
    <3>2. Unless(AddsInOrder(h), "add_seq") = {}
      BY <3>1, Zenon DEF Unless
    <3> QED
      BY <3>2
  <2>7. w = [h EXCEPT !.pending_adds = z, !.failed = F]
    BY <1>2, Zenon DEF WithoutAdds, SpOK, SpCaches
  <2> HIDE DEF w, f, F, z
  <2>8. w.pending_adds = z /\ \A x \in SpFields \ {"pending_adds"} : w[x] = h[x]
    <3>1. DOMAIN h = SpFields
      BY <1>2, SpDomain, Zenon
    <3> QED
      BY <3>1, <2>6, <2>7, Zenon DEF SpFields, CommonFields
  <2>9. /\ w.num = h.num /\ w.entries = h.entries
        /\ w.revoked = h.revoked /\ w.failed = h.failed /\ w.revoke_posted = h.revoke_posted
        /\ w.local = h.local /\ w.sp_ranks = h.sp_ranks
        /\ w.pending_entries = h.pending_entries
        /\ w.pending_revokes_from_sps = h.pending_revokes_from_sps
        /\ w.pending_revokes_from_ranks = h.pending_revokes_from_ranks
        /\ w.toPeers = h.toPeers /\ w.toHosts = h.toHosts
    BY <2>8, Zenon DEF SpFields, CommonFields
  <2>10. Renewed(p, c, w)
    <3>1. Cur(w) = Cur(h)
      BY <2>9, Zenon DEF Cur
    <3> QED
      BY <3>1, <2>2, <2>3, <2>9, Zenon DEF Renewed
  <2>11. Restarted(p, c, w)
    BY <2>8, <2>10, RenewedVersion, Zenon DEF z
  <2>12. SpVer(p, w) /\ w.revoked = {} /\ Cur(w) = c.num + 1
    BY <2>11, Zenon DEF Restarted
  <2>13. Held(f) = Added(c) /\ Uniform(f, Cur(w))
    BY <2>3, <2>5, <2>12, Zenon DEF AddsHeld, f
  <2>14. Held(f) \cap Held(w.entries) = {}
    <3>1. Held(f) \subseteq SpRanks(p) /\ Held(w.entries) \subseteq Others(p)
      BY <2>2, <2>3, <2>9, Zenon DEF EntriesOf
    <3> QED
      BY <3>1, Zenon DEF Others
  <2>15. PendingFits(p, w, f)
    <3>1. DOMAIN <<>> = {}
      OBVIOUS
    <3> QED
      BY <3>1, <2>3, <2>9, Zenon DEF PendingFits
  <2>16. LocalAdded(p, w, f, d)
    <3>1. Uniform(w.entries, w.num) /\ RanksCounted(p, w)
      BY <2>12, Zenon DEF SpVer, SpCore
    <3>2. w.global = 0 /\ w.toPeers = <<>> /\ w.toHosts = <<>>
      BY <2>2, <2>3, <2>9, Zenon
    <3> QED
      BY <2>1, <2>2, <2>13, <2>14, <2>15, <3>1, <3>2, AddLocalRanksVersion, Zenon
  <2>17. SpStep(p, w, d, Held(f), {}, 2 * Cur(w) + 1)
    BY <2>2, <2>12, <2>14, <2>16, LocalAddedStep, Zenon
  <2>18. /\ \A r \in Held(f) : FromRanks(d, r) = 2 * Cur(w) + 1
         /\ SpVer(p, d) /\ SendsUp(p, w, d) /\ SendsDown(w, d)
         /\ \A r \in SpRanks(p) \ Held(f) : FromRanks(d, r) = FromRanks(w, r)
         /\ \A r \in Others(p) : FromPeer(d, r) = FromPeer(w, r)
    BY <2>17, Zenon DEF SpStep
  <2>19. SpUp(p, w) = SpUp(p, c) /\ SpDown(w) = SpDown(c)
    BY <2>11, Zenon DEF Restarted
  <2>20. SendsUp(p, c, d)
    <3>1. CASE d.toPeers = <<>> /\ SpUp(p, d) = SpUp(p, w)
      BY <3>1, <2>19, Zenon DEF SendsUp
    <3>2. CASE /\ SpUp(p, d) = SpUp(p, w) + 1
               /\ \E m : d.toPeers = <<m>> /\ Key(m) = SpUp(p, d) /\ UpMsg(p, w, m)
      <4>1. PICK m : d.toPeers = <<m>> /\ Key(m) = SpUp(p, d) /\ UpMsg(p, w, m)
        BY <3>2, Zenon
      <4> DEFINE k == EntriesMsg(Only(SpRanks(p), d.entries))
      <4>2. d.toPeers = <<>> \/ d.toPeers = <<k>>
        BY <2>16, Zenon DEF LocalAdded
      <4>3. k.type = "entries"
        BY Zenon DEF EntriesMsg
      <4> HIDE DEF k
      <4>4. m = k
        BY <4>1, <4>2
      <4>5. UpMsg(p, c, m)
        BY <4>1, <4>3, <4>4, Zenon DEF UpMsg
      <4> QED
        BY <3>2, <4>1, <4>5, <2>19, Zenon DEF SendsUp
    <3> QED
      BY <2>18, <3>1, <3>2, Zenon DEF SendsUp
  <2>21. SendsDown(c, d)
    BY <2>18, <2>19, Zenon DEF SendsDown
  <2>22. ASSUME NEW r \in SpRanks(p) PROVE FromRanks(d, r) = FromRanks(c, r)
    <3>1. CASE r \in Held(f)
      <4>1. FromRanks(d, r) = 2 * (c.num + 1) + 1 /\ FromRanks(c, r) = 2 * c.num + 3
        BY <3>1, <2>12, <2>13, <2>18, <1>5, Zenon
      <4> QED
        BY <4>1, <1>3
    <3>2. CASE r \notin Held(f)
      <4>1. FromRanks(c, r) = 2 * c.num + 2 /\ FromRanks(w, r) = 2 * c.num + 2
        BY <3>2, <2>11, <2>13, <1>5, Zenon DEF Restarted
      <4> QED
        BY <3>2, <4>1, <2>18, Zenon
    <3> QED
      BY <3>1, <3>2, Zenon
  <2>23. \A r \in Others(p) : FromPeer(d, r) = FromPeer(c, r)
    BY <2>11, <2>18, Zenon DEF Restarted
  <2> QED
    BY <1>3, <2>18, <2>20, <2>21, <2>22, <2>23, Zenon DEF SpStep
<1> QED
  BY <1>6, <1>7, Zenon

==============================================================================
