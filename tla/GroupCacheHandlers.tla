------------------------- MODULE GroupCacheHandlers --------------------------
(***************************************************************************)
(* Lemmas about GroupCache that several modules of proofs use: counting    *)
(* ranks, the handlers that more than one action calls, streams of         *)
(* messages, and how far an SP or a rank is in its streams.                *)
(*                                                                         *)
(* The handlers are operators from a cache to a cache.  Each of them is    *)
(* shown to keep the type (SpCaches, HostCaches) and the local invariant   *)
(* (SpCacheInv, HostCacheInv) of the cache it is given.                    *)
(***************************************************************************)
EXTENDS GroupCacheInvariant, TLAPS

-----------------------------------------------------------------------------
(* Sets of ranks and entries *)

\* Min picks the least element of a set of natural numbers.
LEMMA MinIsLeast ==
  ASSUME GroupSets, NEW S \in SUBSET Nat, S # {}
  PROVE  Min(S) \in S /\ \A x \in S : Min(S) <= x
BY Zenon DEF GroupSets

\* The ranks of the group are finitely many naturals, at least one.
LEMMA GroupFinite ==
  ASSUME GroupSets
  PROVE  /\ IsFiniteSet(Group) /\ GroupSize \in Nat /\ GroupSize # 0
         /\ \A S \in SUBSET Group : /\ IsFiniteSet(S) /\ Cardinality(S) \in Nat
                                    /\ S \subseteq Nat
                                    /\ Cardinality(S) = 0 <=> S = {}
                                    /\ Cardinality(S) = GroupSize <=> S = Group
BY Zenon DEF GroupSets

\* The cardinality of a disjoint union of sets of ranks.
LEMMA CountDisjoint ==
  ASSUME GroupSets, NEW S \in SUBSET Group, NEW T \in SUBSET Group, S \cap T = {}
  PROVE  Cardinality(S \cup T) = Cardinality(S) + Cardinality(T)
BY Zenon DEF GroupSets

\* A sequence that is not empty has a first element,
LEMMA EmptySeq ==
  ASSUME NEW S
  PROVE  /\ <<>> \in Seq(S) /\ Len(<<>>) = 0
         /\ \A seq \in Seq(S) : seq # <<>> => Len(seq) \in Nat \ {0}
BY SMT

\* and the elements of a concatenation are those of its parts.
LEMMA ConcatProperties ==
  ASSUME NEW S, NEW s \in Seq(S), NEW t \in Seq(S)
  PROVE  /\ s \o t \in Seq(S) /\ Len(s \o t) = Len(s) + Len(t)
         /\ \A i \in 1..Len(s) + Len(t) :
              (s \o t)[i] = IF i <= Len(s) THEN s[i] ELSE t[i - Len(s)]
BY SMT

\* Storing entries keeps what the cache holds and adds what it misses.
LEMMA StoreHolds ==
  ASSUME NEW c, NEW f \in [Group -> Nat], c.entries \in [Group -> Nat],
         NEW g, g = [r \in Group |-> IF c.entries[r] = 0 THEN f[r] ELSE c.entries[r]]
  PROVE  /\ g \in [Group -> Nat]
         /\ Held(g) = Held(c.entries) \cup Missing(c, f)
         /\ Held(c.entries) \cap Missing(c, f) = {}
         /\ Held(f) \subseteq Held(g)
         /\ Held(g) \subseteq Group /\ Missing(c, f) \subseteq Group /\ Held(c.entries) \subseteq Group
BY Zenon DEF Held, Missing

\* Taking a list of entries together: the result holds entries of the same ranks.
LEMMA MergeType ==
  ASSUME GroupSets, NEW S \in SUBSET Group, NEW q \in Seq(EntriesOf(S)), q # <<>>
  PROVE  Merge(q) \in EntriesOf(S)
<1> DEFINE I(r) == {i \in DOMAIN q : q[i][r] # 0}
<1>1. \A i \in DOMAIN q : /\ q[i] \in [Group -> Nat] /\ Held(q[i]) \subseteq S
                          /\ Held(q[i]) # {} /\ i \in Nat
  BY DEF EntriesOf
<1>2. \A r \in Group : I(r) # {} => Min(I(r)) \in I(r)
  <2>1. \A r \in Group : I(r) \in SUBSET Nat
    BY <1>1, Zenon
  <2> QED
    BY <2>1, MinIsLeast, Zenon
<1>3. \A r \in Group : Merge(q)[r] = IF I(r) = {} THEN 0 ELSE q[Min(I(r))][r]
  BY Zenon DEF Merge
<1> HIDE DEF I
<1>4. \A r \in Group : /\ Merge(q)[r] \in Nat
                       /\ Merge(q)[r] # 0 => \E i \in DOMAIN q : q[i][r] # 0
                       /\ I(r) # {} => Merge(q)[r] # 0
  <2>1. SUFFICES ASSUME NEW r \in Group
                 PROVE  /\ Merge(q)[r] \in Nat
                        /\ Merge(q)[r] # 0 => \E i \in DOMAIN q : q[i][r] # 0
                        /\ I(r) # {} => Merge(q)[r] # 0
    BY Zenon
  <2>2. CASE I(r) = {}
    BY <2>2, <1>3
  <2>3. CASE I(r) # {}
    <3>1. Min(I(r)) \in DOMAIN q /\ q[Min(I(r))][r] # 0
      BY <2>3, <1>2, Zenon DEF I
    <3> QED
      BY <3>1, <2>3, <1>1, <1>3, Zenon
  <2> QED
    BY <2>2, <2>3, Zenon
<1>5. Merge(q) \in [Group -> Nat]
  BY <1>4, Zenon DEF Merge
<1>6. Held(Merge(q)) \subseteq S
  BY <1>1, <1>4, Zenon DEF Held
<1>7. Held(Merge(q)) # {}
  <2>1. 1 \in DOMAIN q
    BY EmptySeq
  <2>2. PICK r \in Group : q[1][r] # 0
    BY <2>1, <1>1, Zenon DEF Held
  <2>3. I(r) # {}
    BY <2>1, <2>2, Zenon DEF I
  <2> QED
    BY <2>3, <1>4, Zenon DEF Held
<1> QED
  BY <1>5, <1>6, <1>7, Zenon DEF EntriesOf

-----------------------------------------------------------------------------
(* The handlers of an SP *)

\* The numbers and the names in a cache.
LEMMA SpNumbers ==
  ASSUME NEW p, NEW c, SpOK(p, c)
  PROVE  /\ c.num \in Nat /\ c.num_local_entries \in Nat /\ c.global \in Nat
         /\ c.n_local_ranks \in Nat /\ c.n_local_ranks_populated \in Nat /\ c.sp_ranks \in Nat
         /\ c.revoked \in SUBSET Group /\ c.failed \subseteq Names
BY Zenon DEF SpOK, SpCaches

\* A handler that touches neither goes forward.
LEMMA ForwardSame ==
  ASSUME NEW p, NEW c, NEW d, SpOK(p, c), d.num = c.num, d.revoke_posted = c.revoke_posted
  PROVE  Forward(c, d)
<1>1. c.num \in Nat
  BY Zenon DEF SpOK, SpCaches
<1> QED
  BY <1>1 DEF Forward

\* Going forward twice is going forward.
LEMMA ForwardTwice ==
  ASSUME NEW p, NEW c, NEW d, NEW e, SpOK(p, c), SpOK(p, d), SpOK(p, e),
         Forward(c, d), Forward(d, e)
  PROVE  Forward(c, e)
<1>1. c.num \in Nat /\ d.num \in Nat /\ e.num \in Nat
  BY Zenon DEF SpOK, SpCaches
<1> QED
  BY <1>1 DEF Forward

\* A cache that agrees on those fields has the invariant, too.
LEMMA SameForInvOK ==
  ASSUME NEW p, NEW c, NEW d, SpCacheInv(p, c), SameForInv(c, d)
  PROVE  SpCacheInv(p, d)
BY Zenon DEF SpCacheInv, SameForInv, RevokesOf

\* AddEntries, with entries of ranks that are not attached to the SP, is an
\* add of entries of peers.
LEMMA AddEntriesOK ==
  ASSUME GroupSets, NEW p \in SP, NEW c, SpOK(p, c), NEW f \in EntriesOf(Group \ SpRanks(p))
  PROVE  LET d == AddEntries(c, f)
         IN  /\ SpOK(p, d) /\ d.group_size = GroupSize /\ d.global = c.global
             /\ Held(c.entries) \subseteq Held(d.entries) /\ Held(f) \subseteq Held(d.entries)
             /\ d.num_local_entries # 0 /\ Forward(c, d)
<1> DEFINE g == [r \in Group |-> IF c.entries[r] = 0 THEN f[r] ELSE c.entries[r]]
           n == NextNum(c, f)
           k == c.num_local_entries + Cardinality(Missing(c, f))
           a == c.failed \cup Unless(\A r \in Missing(c, f) : f[r] = NextNum(c, f), "entry_seq")
           d == [c EXCEPT !.group_size = GroupSize, !.num = n, !.entries = g,
                          !.num_local_entries = k, !.failed = a]
<1>1. f \in [Group -> Nat] /\ c.entries \in [Group -> Nat] /\ Held(f) # {}
      /\ Held(f) \cap SpRanks(p) = {} /\ SpRanks(p) \subseteq Group
  BY Zenon DEF EntriesOf, SpOK, SpCaches, SpRanks
<1>2. /\ g \in [Group -> Nat]
      /\ Held(g) = Held(c.entries) \cup Missing(c, f)
      /\ Held(c.entries) \cap Missing(c, f) = {}
      /\ Held(f) \subseteq Held(g)
      /\ Held(g) \subseteq Group /\ Missing(c, f) \subseteq Group /\ Held(c.entries) \subseteq Group
  BY <1>1, StoreHolds, Zenon
<1>3. AddEntries(c, f) = d
  BY Zenon DEF AddEntries, StoreEntries, SpOK, SpCaches
<1>5. Held(g) \cap SpRanks(p) = Held(c.entries) \cap SpRanks(p)
  BY <1>1, <1>2, Zenon DEF Missing
<1>6. k = Cardinality(Held(g))
  BY <1>2, CountDisjoint DEF SpOK, SpCacheInv
<1>7. k \in Nat \ {0}
  <2> HIDE DEF g
  <2>1. Held(g) \in SUBSET Group /\ Held(g) # {}
    BY <1>1, <1>2, SMT
  <2>2. Cardinality(Held(g)) \in Nat /\ Cardinality(Held(g)) # 0
    BY <2>1, GroupFinite
  <2> QED
    BY <2>2, <1>6
<1>8. /\ n \in Nat
      /\ c.num_local_entries # 0 => n = c.num
      /\ n = c.num \/ n = c.num + 1
      /\ n >= c.num
  BY SpNumbers DEF NextNum
<1>9. a \subseteq Names
      /\ (c.failed \cap {"cache_populated", "revoke_posted"} = {}
            => a \cap {"cache_populated", "revoke_posted"} = {})
  BY Zenon DEF Unless, SpOK, SpCaches, Names
<1> HIDE DEF g, n, k, a
<1>10. d \in SpCaches(p)
  BY <1>2, <1>7, <1>8, <1>9, Zenon DEF SpOK, SpCaches
<1>11. /\ d.group_size = GroupSize /\ d.num = n /\ d.entries = g /\ d.num_local_entries = k
       /\ d.failed = a /\ d.n_local_ranks_populated = c.n_local_ranks_populated
       /\ d.revoke_posted = c.revoke_posted /\ d.ongoing = c.ongoing /\ d.toHosts = c.toHosts
       /\ d.global = c.global
  BY Zenon DEF SpOK, SpCaches
<1> HIDE DEF d
<1>12. SpCacheInv(p, d)
  BY <1>5, <1>6, <1>7, <1>8, <1>9, <1>11, ZenonT(30) DEF SpOK, SpCacheInv, RevokesOf
<1> QED
  BY <1>2, <1>3, <1>7, <1>8, <1>10, <1>11, <1>12, SMTT(30) DEF SpOK, Forward

\* send_gp_cache_to_host is only called with a full cache that is not being
\* revoked, so what it sends is complete and its assertion holds.
LEMMA SendCacheOK ==
  ASSUME GroupSets, NEW p \in SP, NEW c, SpOK(p, c), c.global = 0,
         c.num_local_entries = c.group_size, c.num_local_entries # 0
  PROVE  LET d == SendCacheToHost(c)
         IN  SpOK(p, d) /\ d.global = 0 /\ d.entries = c.entries /\ Forward(c, d)
<1> DEFINE m == EntriesMsg(c.entries)
           h == Append(c.toHosts, m)
           o == Append(c.ongoing, "cache")
           d == [c EXCEPT !.toHosts = h, !.ongoing = o]
<1>1. c.entries \in [Group -> Nat] /\ Held(c.entries) \subseteq Group
  BY Zenon DEF SpOK, SpCaches, Held
<1>2. Held(c.entries) = Group
  <2>1. Cardinality(Held(c.entries)) = GroupSize
    BY Zenon DEF SpOK, SpCacheInv
  <2> QED
    BY <1>1, <2>1, GroupFinite, Zenon
<1>3. m \in EntriesMsgs(Group) /\ Complete(m)
  BY <1>1, <1>2, TopologyAssumption, Zenon
     DEF TopologyAssumption, EntriesMsg, EntriesMsgs, EntriesOf, Complete
<1>4. c.toHosts \in Seq(HostMsgs) /\ c.ongoing \in Seq({"cache", "revoke"})
  BY Zenon DEF SpOK, SpCaches
<1> HIDE DEF m
<1>5. /\ h \in Seq(HostMsgs)
      /\ \A i \in DOMAIN h : Complete(h[i])
  BY <1>3, <1>4 DEF HostMsgs, SpOK, SpCacheInv
<1>6. /\ o \in Seq({"cache", "revoke"})
      /\ {i \in DOMAIN o : o[i] = "revoke"} = RevokesOf(c)
  BY <1>4 DEF RevokesOf
<1> HIDE DEF h, o
<1>7. Unless(Populated(c), "cache_populated") = {}
  BY Zenon DEF Unless, Populated
<1>8. CASE c.sent_to_host < c.num
  <2>1. SendCacheToHost(c) = d
    BY <1>7, <1>8, Zenon DEF SendCacheToHost, SpOK, SpCaches, h, o, m
  <2>2. d \in SpCaches(p)
    BY <1>5, <1>6, Zenon DEF SpOK, SpCaches
  <2>3. /\ d.group_size = c.group_size /\ d.num = c.num /\ d.entries = c.entries
        /\ d.num_local_entries = c.num_local_entries /\ d.failed = c.failed
        /\ d.n_local_ranks_populated = c.n_local_ranks_populated
        /\ d.revoke_posted = c.revoke_posted /\ d.ongoing = o /\ d.toHosts = h
        /\ d.global = c.global
    BY Zenon DEF SpOK, SpCaches
  <2> HIDE DEF d
  <2>4. SpCacheInv(p, d)
    BY <1>5, <1>6, <2>3, Zenon DEF SpOK, SpCacheInv, RevokesOf
  <2> QED
    BY <2>1, <2>2, <2>3, <2>4, ForwardSame, Zenon DEF SpOK
<1>9. CASE ~(c.sent_to_host < c.num)
  BY <1>9, ForwardSame, Zenon DEF SendCacheToHost
<1> QED
  BY <1>8, <1>9, Zenon

\* handle_peer_cache_entries_recv keeps the cache of an SP consistent.
LEMMA HandlePeerEntriesOK ==
  ASSUME GroupSets, NEW p \in SP, NEW c, SpOK(p, c), c.global = 0,
         NEW f \in EntriesOf(Group \ SpRanks(p))
  PROVE  LET d == HandlePeerEntries(p, c, f)
         IN  /\ SpOK(p, d) /\ d.global = 0 /\ Forward(c, d)
             /\ Held(c.entries) \subseteq Held(d.entries)
<1> DEFINE a == AddEntries(c, f)
<1>1. /\ SpOK(p, a) /\ a.group_size = GroupSize /\ a.global = c.global
      /\ Held(c.entries) \subseteq Held(a.entries)
      /\ a.num_local_entries # 0 /\ Forward(c, a)
  BY AddEntriesOK, Zenon
<1> HIDE DEF a
<1>2. HandlePeerEntries(p, c, f)
        = IF /\ Missing(c, f) # {} /\ a.num_local_entries = a.group_size
             /\ ~AllRanksAreLocal(p, a)
          THEN SendCacheToHost(a) ELSE a
  BY Zenon DEF HandlePeerEntries, a
<1> QED
  BY <1>1, <1>2, SendCacheOK, ForwardTwice, Zenon

\* The pending entries of an SP, taken together, and its cache without them.
LEMMA PendingOK ==
  ASSUME GroupSets, NEW p \in SP, NEW c, SpOK(p, c), c.pending_entries # <<>>
  PROVE  LET e == [c EXCEPT !.pending_entries = <<>>]
         IN  /\ PendingEntries(c) \in EntriesOf(Group \ SpRanks(p))
             /\ SpOK(p, e) /\ e.global = c.global /\ e.entries = c.entries
             /\ e.num = c.num /\ e.revoke_posted = c.revoke_posted
<1> DEFINE q == c.pending_entries
           g == [i \in DOMAIN q |-> q[i].entries]
           z == <<>>
           e == [c EXCEPT !.pending_entries = z]
           S == Group \ SpRanks(p)
<1>1. q \in Seq(EntriesMsgs(S))
  BY Zenon DEF SpOK, SpCaches
<1>2. g \in Seq(EntriesOf(S)) /\ g # <<>>
  <2>2. DOMAIN g = 1 .. Len(q) /\ Len(q) \in Nat /\ Len(q) # 0
    BY <1>1, EmptySeq
  <2> HIDE DEF q, S
  <2>0. \A i \in DOMAIN q : q[i] \in EntriesMsgs(S)
    BY <1>1
  <2>1. \A i \in DOMAIN q : q[i].entries \in EntriesOf(S)
    BY <2>0, Zenon DEF EntriesMsgs
  <2> QED
    BY <2>1, <2>2
<1>3. Merge(g) \in EntriesOf(S)
  BY <1>2, MergeType, Zenon
<1>4. /\ SpOK(p, e) /\ e.global = c.global /\ e.entries = c.entries
      /\ e.num = c.num /\ e.revoke_posted = c.revoke_posted
  <2>z. z \in Seq(EntriesMsgs(S))
    OBVIOUS
  <2> HIDE DEF z
  <2>1. e \in SpCaches(p)
    BY <2>z, Zenon DEF SpOK, SpCaches
  <2>2. SameForInv(c, e) /\ e.global = c.global
    BY Zenon DEF SpOK, SpCaches, SameForInv
  <2> HIDE DEF e
  <2> QED
    BY <2>1, <2>2, SameForInvOK, Zenon DEF SpOK, SameForInv
<1> QED
  BY <1>3, <1>4, Zenon DEF PendingEntries

\* HANDLE_PENDING_CACHE_ENTRIES keeps the cache of an SP consistent.
LEMMA HandlePendingEntriesOK ==
  ASSUME GroupSets, NEW p \in SP, NEW c, SpOK(p, c), c.global = 0
  PROVE  LET d == HandlePendingEntries(p, c)
         IN  /\ SpOK(p, d) /\ d.global = 0 /\ Forward(c, d)
             /\ Held(c.entries) \subseteq Held(d.entries)
<1> DEFINE e == [c EXCEPT !.pending_entries = <<>>]
<1>1. CASE c.pending_entries = <<>>
  BY <1>1, ForwardSame, Zenon DEF HandlePendingEntries
<1>2. CASE c.pending_entries # <<>>
  <2>1. /\ PendingEntries(c) \in EntriesOf(Group \ SpRanks(p))
        /\ SpOK(p, e) /\ e.global = 0 /\ e.entries = c.entries
        /\ e.num = c.num /\ e.revoke_posted = c.revoke_posted
    BY <1>2, PendingOK, Zenon
  <2>2. HandlePendingEntries(p, c) = HandlePeerEntries(p, e, PendingEntries(c))
    BY <1>2, Zenon DEF HandlePendingEntries
  <2> HIDE DEF e
  <2> QED
    BY <2>1, <2>2, HandlePeerEntriesOK DEF Forward
<1> QED
  BY <1>1, <1>2, Zenon

\* It keeps the cache of an SP consistent when the ranks are attached to the SP.
LEMMA StoreLocalOK ==
  ASSUME GroupSets, NEW p \in SP, NEW c, SpOK(p, c), c.global = 0, NEW f \in EntriesOf(SpRanks(p))
  PROVE  LET e == StoreLocal(p, c, f)
         IN  /\ SpOK(p, e) /\ e.global = 0 /\ Forward(c, e)
             /\ Held(e.entries) \cap SpRanks(p) # {}
<1> DEFINE new == Missing(c, f)
           g == [r \in Group |-> IF c.entries[r] = 0 THEN f[r] ELSE c.entries[r]]
           n == NextNum(c, f)
           k == c.num_local_entries + Cardinality(new)
           l == IF new = {} THEN c.n_local_ranks
                ELSE IF c.n_local_ranks = 0 THEN Cardinality(HostRanks(p)) ELSE c.n_local_ranks
           a == IF new = {} THEN c.n_local_ranks_populated
                ELSE c.n_local_ranks_populated + Cardinality(new)
           s == IF new = {} THEN c.sp_ranks
                ELSE IF c.sp_ranks = 0 THEN Cardinality(SpRanks(p)) ELSE c.sp_ranks
           e == [c EXCEPT !.group_size = GroupSize, !.num = n, !.entries = g,
                          !.num_local_entries = k, !.n_local_ranks = l,
                          !.n_local_ranks_populated = a, !.sp_ranks = s]
<1>1. /\ f \in [Group -> Nat] /\ c.entries \in [Group -> Nat] /\ Held(f) # {}
      /\ Held(f) \subseteq SpRanks(p) /\ SpRanks(p) \subseteq Group /\ HostRanks(p) \subseteq Group
  BY Zenon DEF EntriesOf, SpOK, SpCaches, SpRanks, HostRanks
<1>2. /\ g \in [Group -> Nat]
      /\ Held(g) = Held(c.entries) \cup new
      /\ Held(c.entries) \cap new = {}
      /\ Held(f) \subseteq Held(g)
      /\ Held(g) \subseteq Group /\ new \subseteq Group /\ Held(c.entries) \subseteq Group
  BY <1>1, StoreHolds, Zenon
<1>3. StoreLocal(p, c, f) = e
  <2>1. CASE new = {}
    <3>1. StoreEntries(c, f) = e
      BY <2>1, ZenonT(30) DEF StoreEntries, SpOK, SpCaches
    <3> QED
      BY <2>1, <3>1, Zenon DEF StoreLocal
  <2>2. CASE new # {}
    <3> DEFINE d == StoreEntries(c, f)
    <3>1. [d EXCEPT !.n_local_ranks = IF @ = 0 THEN Cardinality(HostRanks(p)) ELSE @,
                    !.n_local_ranks_populated = @ + Cardinality(new),
                    !.sp_ranks = IF @ = 0 THEN Cardinality(SpRanks(p)) ELSE @] = e
      BY <2>2, Zenon DEF StoreEntries, SpOK, SpCaches
    <3> QED
      BY <2>2, <3>1, Zenon DEF StoreLocal
  <2> QED
    BY <2>1, <2>2, Zenon
<1>4. /\ Held(g) \cap SpRanks(p) = (Held(c.entries) \cap SpRanks(p)) \cup new
      /\ (Held(c.entries) \cap SpRanks(p)) \cap new = {}
      /\ Held(c.entries) \cap SpRanks(p) \subseteq Group
  BY <1>1, <1>2, Zenon DEF Missing
<1>5. k = Cardinality(Held(g))
  BY <1>2, CountDisjoint, SMTT(30) DEF SpOK, SpCacheInv
<1>6. a = Cardinality(Held(g) \cap SpRanks(p))
  <2>1. CASE new = {}
    BY <2>1, <1>4, Zenon DEF SpOK, SpCacheInv
  <2>2. CASE new # {}
    BY <2>2, <1>2, <1>4, CountDisjoint, ZenonT(30) DEF SpOK, SpCacheInv
  <2> QED
    BY <2>1, <2>2, Zenon
<1>7. k \in Nat \ {0} /\ a \in Nat /\ l \in Nat /\ s \in Nat
  <2>1. k \in Nat \ {0}
    <3> HIDE DEF g
    <3>1. Held(g) \in SUBSET Group /\ Held(g) # {}
      BY <1>1, <1>2, SMT
    <3>2. Cardinality(Held(g)) \in Nat /\ Cardinality(Held(g)) # 0
      BY <3>1, GroupFinite
    <3> QED
      BY <3>2, <1>5
  <2>2. a \in Nat
    <3>1. Held(g) \cap SpRanks(p) \in SUBSET Group
      BY <1>1, Zenon
    <3> HIDE DEF a, g
    <3> QED
      BY <3>1, <1>6, GroupFinite, Zenon
  <2>3. l \in Nat /\ s \in Nat
    BY <1>1, GroupFinite, Zenon DEF SpOK, SpCaches
  <2> QED
    BY <2>1, <2>2, <2>3, Zenon
<1>8. /\ n \in Nat
      /\ c.num_local_entries # 0 => n = c.num
      /\ n = c.num \/ n = c.num + 1
      /\ n >= c.num
  BY SMTT(30) DEF NextNum, SpOK, SpCaches
<1> HIDE DEF g, n, k, l, a, s, new
<1>9. e \in SpCaches(p)
  BY <1>2, <1>7, <1>8, ZenonT(30) DEF SpOK, SpCaches
<1>10. /\ e.group_size = GroupSize /\ e.num = n /\ e.entries = g /\ e.num_local_entries = k
       /\ e.failed = c.failed /\ e.n_local_ranks_populated = a
       /\ e.revoke_posted = c.revoke_posted /\ e.ongoing = c.ongoing /\ e.toHosts = c.toHosts
       /\ e.global = c.global
  BY Zenon DEF SpOK, SpCaches
<1> HIDE DEF e
<1>11. SpCacheInv(p, e)
  BY <1>5, <1>6, <1>7, <1>8, <1>10, SMTT(30) DEF SpOK, SpCacheInv, RevokesOf
<1> QED
  BY <1>1, <1>2, <1>3, <1>8, <1>9, <1>10, <1>11, Zenon DEF SpOK, Forward

\* They are entries of ranks of the SP.
LEMMA PendingAddsOK ==
  ASSUME GroupSets, NEW p \in SP, NEW c, SpOK(p, c), c.pending_adds # <<>>
  PROVE  /\ PendingAdds(c) \in EntriesOf(SpRanks(p))
         /\ SpOK(p, WithoutAdds(c)) /\ SameForInv(c, WithoutAdds(c))
         /\ WithoutAdds(c).global = c.global
<1> DEFINE q == c.pending_adds
           g == [i \in DOMAIN q |-> Entry(q[i].rank, q[i].seq)]
           a == c.failed \cup Unless(AddsInOrder(c), "add_seq")
           z == <<>>
           e == [c EXCEPT !.pending_adds = z, !.failed = a]
<1>1. q \in Seq(AddMsgs(SpRanks(p))) /\ SpRanks(p) \subseteq Group
  BY Zenon DEF SpOK, SpCaches, SpRanks
<1>2. PendingAdds(c) \in EntriesOf(SpRanks(p))
  <2>1. DOMAIN g = 1 .. Len(q) /\ Len(q) \in Nat /\ Len(q) # 0 /\ PendingAdds(c) = Merge(g)
    BY <1>1, EmptySeq DEF PendingAdds
  <2> HIDE DEF q
  <2>2. \A i \in DOMAIN q : q[i] \in AddMsgs(SpRanks(p))
    BY <1>1
  <2>3. \A i \in DOMAIN q : q[i].rank \in SpRanks(p) /\ q[i].seq \in Nat /\ q[i].seq # 0
    BY <2>2, Zenon DEF AddMsgs, Version
  <2>4. \A r \in SpRanks(p), n \in Nat : n # 0 => Entry(r, n) \in EntriesOf(SpRanks(p))
    BY <1>1, Zenon DEF Entry, EntriesOf, Held
  <2>5. \A i \in DOMAIN q : g[i] \in EntriesOf(SpRanks(p))
    BY <2>3, <2>4, Zenon
  <2>6. g \in Seq(EntriesOf(SpRanks(p))) /\ g # <<>>
    BY <2>1, <2>5
  <2> HIDE DEF g
  <2> QED
    BY <1>1, <2>1, <2>6, MergeType, Zenon
<1>3. WithoutAdds(c) = e
  BY Zenon DEF WithoutAdds, SpOK, SpCaches
<1>4. /\ z \in Seq(AddMsgs(SpRanks(p))) /\ a \subseteq Names
      /\ a \cap {"cache_populated", "revoke_posted"}
           = c.failed \cap {"cache_populated", "revoke_posted"}
  <2>1. z \in Seq(AddMsgs(SpRanks(p)))
    BY EmptySeq
  <2>2. Unless(AddsInOrder(c), "add_seq") \subseteq {"add_seq"}
    BY Zenon DEF Unless
  <2> HIDE DEF z, q, g
  <2>3. c.failed \subseteq Names /\ "add_seq" \in Names
    BY SpNumbers, Zenon DEF Names
  <2> QED
    BY <2>1, <2>2, <2>3
<1> HIDE DEF z, a, q, g
<1>5. e \in SpCaches(p)
  BY <1>4, Zenon DEF SpOK, SpCaches
<1>6. SameForInv(c, e) /\ e.global = c.global
  BY <1>4, Zenon DEF SameForInv, SpOK, SpCaches
<1> HIDE DEF e
<1> QED
  BY <1>2, <1>3, <1>5, <1>6, SameForInvOK, Zenon DEF SpOK

\* Recording that an assertion other than the two of the invariant failed.
LEMMA FailOK ==
  ASSUME NEW p \in SP, NEW c, SpOK(p, c),
         NEW F \in SUBSET (Names \ {"cache_populated", "revoke_posted"})
  PROVE  LET d == [c EXCEPT !.failed = @ \cup F]
         IN  SpOK(p, d) /\ SameForInv(c, d)
<1> DEFINE a == c.failed \cup F
           d == [c EXCEPT !.failed = a]
<1>1. /\ a \subseteq Names
      /\ a \cap {"cache_populated", "revoke_posted"}
           = c.failed \cap {"cache_populated", "revoke_posted"}
  BY Zenon DEF SpOK, SpCaches
<1>2. [c EXCEPT !.failed = @ \cup F] = d
  BY Zenon DEF SpOK, SpCaches
<1> HIDE DEF a
<1>3. d \in SpCaches(p)
  BY <1>1, Zenon DEF SpOK, SpCaches
<1>4. SameForInv(c, d)
  BY <1>1, Zenon DEF SameForInv, SpOK, SpCaches
<1> HIDE DEF d
<1> QED
  BY <1>2, <1>3, <1>4, SameForInvOK, Zenon DEF SpOK

\* It is consistent if the final revoke of the version was posted and completed.
LEMMA CleanOK ==
  ASSUME GroupSets, NEW p \in SP, NEW c, SpOK(p, c), c.num = c.revoke_posted, RevokesOf(c) = {}
  PROVE  SpOK(p, Clean(c)) /\ Cleaned(c, Clean(c))
<1> DEFINE v == {}
           d == [c EXCEPT !.group_size = 0, !.entries = EmptyEntries, !.num_local_entries = 0,
                          !.local = 0, !.global = 0, !.revoked = v, !.n_local_ranks = 0,
                          !.n_local_ranks_populated = 0, !.sp_ranks = 0]
<1>1. Clean(c) = d
  BY Zenon DEF Clean, ResetCache, SpOK, SpCaches
<1>2. EmptyEntries \in [Group -> Nat] /\ Held(EmptyEntries) = {} /\ v \in SUBSET Group
  BY Zenon DEF EmptyEntries, Held
<1>3. DOMAIN c = SpFields
  BY Zenon DEF SpOK, SpCaches, SpFields, CommonFields
<1>4. Cleaned(c, d)
  BY <1>3, Zenon DEF Cleaned, SpFields, CommonFields
<1> HIDE DEF v
<1>5. d \in SpCaches(p)
  BY <1>2, Zenon DEF SpOK, SpCaches
<1> HIDE DEF d
<1>6. /\ d.num = c.num /\ d.entries = EmptyEntries
      /\ d.num_local_entries = 0 /\ d.failed = c.failed /\ d.n_local_ranks_populated = 0
      /\ d.revoke_posted = c.revoke_posted /\ d.ongoing = c.ongoing /\ d.toHosts = c.toHosts
  BY <1>4, Zenon DEF Cleaned
<1>7. Cardinality({}) = 0
  BY GroupFinite, Zenon
<1>8. SpCacheInv(p, d)
  BY <1>2, <1>6, <1>7, ZenonT(30) DEF SpOK, SpCacheInv, RevokesOf
<1> QED
  BY <1>1, <1>4, <1>5, <1>8, Zenon DEF SpOK

-----------------------------------------------------------------------------
(* The handlers of a rank's process *)

\* Adding entries keeps the cache of a rank's process consistent.
LEMMA HostStoreOK ==
  ASSUME GroupSets, NEW h, HostOK(h), NEW f \in EntriesOf(Group)
  PROVE  LET d == StoreEntries(h, f)
         IN  /\ HostOK(d) /\ d.num # 0 /\ d.failed = h.failed
             /\ d.pending_send_adds = h.pending_send_adds
<1> DEFINE new == Missing(h, f)
           g == [r \in Group |-> IF h.entries[r] = 0 THEN f[r] ELSE h.entries[r]]
           n == NextNum(h, f)
           k == h.num_local_entries + Cardinality(new)
           d == [h EXCEPT !.group_size = GroupSize, !.num = n, !.entries = g,
                          !.num_local_entries = k]
<1>1. f \in [Group -> Nat] /\ h.entries \in [Group -> Nat] /\ Held(f) # {}
  BY Zenon DEF EntriesOf, HostOK, HostCaches
<1>2. /\ g \in [Group -> Nat]
      /\ Held(g) = Held(h.entries) \cup new
      /\ Held(h.entries) \cap new = {}
      /\ Held(f) \subseteq Held(g)
      /\ Held(g) \subseteq Group /\ new \subseteq Group /\ Held(h.entries) \subseteq Group
  BY <1>1, StoreHolds, Zenon
<1>3. StoreEntries(h, f) = d
  BY Zenon DEF StoreEntries, HostOK, HostCaches
<1>4. k = Cardinality(Held(g))
  BY <1>2, CountDisjoint, Zenon DEF HostOK, HostCacheInv
<1>5. k \in Nat
  BY <1>2, <1>4, GroupFinite
<1>6. n \in Nat /\ n # 0
  <2>1. CASE h.num_local_entries = 0
    <3>1. Held(h.entries) = {}
      BY <2>1, <1>2, GroupFinite, Zenon DEF HostOK, HostCacheInv
    <3>2. new # {}
      BY <3>1, <1>1, Zenon DEF Missing
    <3> QED
      BY <2>1, <3>2, SMTT(30) DEF NextNum, HostOK, HostCaches
  <2>2. CASE h.num_local_entries # 0
    BY <2>2, Zenon DEF NextNum, HostOK, HostCaches, HostCacheInv
  <2> QED
    BY <2>1, <2>2, Zenon
<1> HIDE DEF g, n, k, new
<1>7. d \in HostCaches
  BY <1>2, <1>5, <1>6, Zenon DEF HostOK, HostCaches
<1>8. /\ d.group_size = GroupSize /\ d.num = n /\ d.entries = g /\ d.num_local_entries = k
      /\ d.failed = h.failed /\ d.pending_send_adds = h.pending_send_adds
  BY Zenon DEF HostOK, HostCaches
<1> HIDE DEF d
<1>9. HostCacheInv(d)
  BY <1>4, <1>6, <1>8, Zenon DEF HostCacheInv
<1> QED
  BY <1>3, <1>6, <1>7, <1>8, <1>9, Zenon DEF HostOK

\* handle_peer_cache_entries_recv on the host.
LEMMA HostAddEntriesOK ==
  ASSUME GroupSets, NEW h, HostOK(h), NEW f \in EntriesOf(Group)
  PROVE  LET d == AddEntries(h, f)
         IN  HostOK(d) /\ d.pending_send_adds = h.pending_send_adds
<1> DEFINE b == StoreEntries(h, f)
           F == Unless(\A r \in Missing(h, f) : f[r] = NextNum(h, f), "entry_seq")
           a == b.failed \cup F
           d == [b EXCEPT !.failed = a]
<1>1. HostOK(b) /\ b.pending_send_adds = h.pending_send_adds
  BY HostStoreOK, Zenon
<1>2. F \subseteq {"entry_seq"}
  BY Zenon DEF Unless
<1>3. AddEntries(h, f) = [b EXCEPT !.failed = @ \cup F]
  BY Zenon DEF AddEntries
<1> HIDE DEF b, F
<1>4. [b EXCEPT !.failed = @ \cup F] = d
  BY <1>1, Zenon DEF HostOK, HostCaches
<1>5. a \subseteq Names
  <2>1. b.failed \subseteq Names
    BY <1>1, Zenon DEF HostOK, HostCaches
  <2> QED
    BY <1>2, <2>1, Zenon DEF Names
<1> HIDE DEF a
<1>6. d \in HostCaches
  BY <1>1, <1>5, Zenon DEF HostOK, HostCaches
<1>7. /\ d.group_size = b.group_size /\ d.num = b.num /\ d.entries = b.entries
      /\ d.num_local_entries = b.num_local_entries
      /\ d.pending_send_adds = b.pending_send_adds
  BY <1>1, Zenon DEF HostOK, HostCaches
<1> HIDE DEF d
<1> QED
  BY <1>1, <1>3, <1>4, <1>6, <1>7, Zenon DEF HostOK, HostCacheInv

\* The pending entries of a process, taken together.
LEMMA HostPendingOK ==
  ASSUME GroupSets, NEW h \in HostCaches, h.pending_entries # <<>>
  PROVE  PendingEntries(h) \in EntriesOf(Group)
<1> DEFINE q == h.pending_entries
           g == [i \in DOMAIN q |-> q[i].entries]
<1>1. q \in Seq(EntriesMsgs(Group))
  BY Zenon DEF HostCaches
<1>2. DOMAIN g = 1 .. Len(q) /\ Len(q) \in Nat /\ Len(q) # 0
  BY <1>1, EmptySeq, SMTT(30)
<1>3. PendingEntries(h) = Merge(g)
  BY Zenon DEF PendingEntries
<1> HIDE DEF q
<1>4. \A i \in DOMAIN q : q[i] \in EntriesMsgs(Group)
  BY <1>1
<1>5. \A i \in DOMAIN q : q[i].entries \in EntriesOf(Group)
  BY <1>4, Zenon DEF EntriesMsgs
<1>6. g \in Seq(EntriesOf(Group)) /\ g # <<>>
  BY <1>2, <1>5, SMTT(30)
<1> HIDE DEF g
<1> QED
  BY <1>3, <1>6, MergeType, Zenon

\* revoke_group_cache on the host, with the pending entries.
LEMMA RevokeHostCacheOK ==
  ASSUME GroupSets, NEW h, HostOK(h)
  PROVE  LET d == RevokeHostCache(h)
         IN  HostOK(d) /\ d.pending_send_adds = h.pending_send_adds
<1> DEFINE d == ResetCache(h)
           z == <<>>
           e == [d EXCEPT !.pending_entries = z]
<1>1. EmptyEntries \in [Group -> Nat] /\ Held(EmptyEntries) = {} /\ Cardinality({}) = 0
  BY GroupFinite, Zenon DEF EmptyEntries, Held
<1>2. d \in HostCaches
  BY <1>1, Zenon DEF ResetCache, HostOK, HostCaches
<1>3. /\ d.num_local_entries = 0 /\ d.entries = EmptyEntries /\ d.num = h.num
      /\ d.pending_send_adds = h.pending_send_adds
  BY Zenon DEF ResetCache, HostOK, HostCaches
<1>4. RevokeHostCache(h) = IF h.pending_entries = <<>> THEN d
                           ELSE AddEntries(e, PendingEntries(h))
  BY Zenon DEF RevokeHostCache
<1> HIDE DEF d
<1>5. z \in Seq(EntriesMsgs(Group))
  OBVIOUS
<1> HIDE DEF z
<1>6. HostOK(d)
  BY <1>1, <1>2, <1>3, Zenon DEF HostOK, HostCacheInv
<1>7. e \in HostCaches
  BY <1>2, <1>5, Zenon DEF HostCaches
<1>8. /\ e.num_local_entries = 0 /\ e.entries = EmptyEntries
      /\ e.pending_send_adds = h.pending_send_adds
  BY <1>2, <1>3, Zenon DEF HostCaches
<1> HIDE DEF e
<1>9. HostOK(e)
  BY <1>1, <1>7, <1>8, Zenon DEF HostOK, HostCacheInv
<1>10. CASE h.pending_entries = <<>>
  BY <1>3, <1>4, <1>6, <1>10, Zenon
<1>11. CASE h.pending_entries # <<>>
  BY <1>4, <1>8, <1>9, <1>11, HostPendingOK, HostAddEntriesOK, SMTT(30) DEF HostOK
<1> QED
  BY <1>10, <1>11, Zenon

-----------------------------------------------------------------------------
(* Channels and meta-events *)

\* A channel whose first entry was taken.
LEMMA WithoutFirstOK ==
  ASSUME NEW q \in SP, NEW ch \in Seq(PeerMsgs(q)), ch # <<>>, Head(ch).type = "entries"
  PROVE  /\ Head(ch) \in EntriesMsgs(SpRanks(q))
         /\ WithoutFirst(ch) \in Seq(PeerMsgs(q))
<1> DEFINE rest == Only(Group \ {FirstRank(Head(ch))}, Head(ch).entries)
<1>1. Head(ch) \in PeerMsgs(q) /\ Tail(ch) \in Seq(PeerMsgs(q))
  OBVIOUS
<1>2. Head(ch) \in EntriesMsgs(SpRanks(q))
  BY <1>1, Zenon DEF PeerMsgs, SpRevokeMsgs
<1>3. Head(ch).entries \in [Group -> Nat] /\ Held(Head(ch).entries) \subseteq SpRanks(q)
  BY <1>2, Zenon DEF EntriesMsgs, EntriesOf
<1>4. rest \in [Group -> Nat] /\ Held(rest) \subseteq SpRanks(q)
  BY <1>3, Zenon DEF Only, Held
<1>5. WithoutFirst(ch) = IF Held(rest) = {} THEN Tail(ch) ELSE <<EntriesMsg(rest)>> \o Tail(ch)
  BY Zenon DEF WithoutFirst
<1> HIDE DEF rest
<1>6. Held(rest) # {} => EntriesMsg(rest) \in PeerMsgs(q)
  BY <1>4, Zenon DEF EntriesMsg, EntriesMsgs, EntriesOf, PeerMsgs
<1>7. Held(rest) # {} => <<EntriesMsg(rest)>> \o Tail(ch) \in Seq(PeerMsgs(q))
  <2> SUFFICES ASSUME Held(rest) # {}
               PROVE  <<EntriesMsg(rest)>> \o Tail(ch) \in Seq(PeerMsgs(q))
    BY Zenon
  <2>1. <<EntriesMsg(rest)>> \in Seq(PeerMsgs(q))
    BY <1>6, SMTT(30)
  <2> QED
    BY <1>1, <2>1, ConcatProperties, SMTT(30)
<1> QED
  BY <1>1, <1>2, <1>5, <1>7, Zenon

\* Entries that another SP sends are not of ranks attached to the receiver.
LEMMA FirstEntryOK ==
  ASSUME GroupSets, NEW p \in SP, NEW q \in SP, p # q, NEW m \in EntriesMsgs(SpRanks(q))
  PROVE  /\ FirstEntry(m) \in EntriesMsgs(Group \ SpRanks(p))
         /\ FirstEntry(m).entries \in EntriesOf(Group \ SpRanks(p))
<1> DEFINE r == FirstRank(m)
           f == Only({r}, m.entries)
<1>1. /\ m.entries \in [Group -> Nat] /\ Held(m.entries) # {}
      /\ Held(m.entries) \subseteq SpRanks(q) /\ Held(m.entries) \in SUBSET Nat
  BY TopologyAssumption, Zenon DEF TopologyAssumption, EntriesMsgs, EntriesOf, Held
<1>2. r \in Held(m.entries)
  BY <1>1, MinIsLeast, Zenon DEF FirstRank
<1> HIDE DEF r
<1>3. f \in [Group -> Nat] /\ Held(f) = {r}
  BY <1>1, <1>2, Zenon DEF Only, Held
<1>4. r \in Group \ SpRanks(p)
  BY <1>1, <1>2, Zenon DEF SpRanks, Held
<1>5. f \in EntriesOf(Group \ SpRanks(p))
  BY <1>3, <1>4, Zenon DEF EntriesOf
<1> QED
  BY <1>5, Zenon DEF FirstEntry, EntriesMsg, EntriesMsgs, r

\* The message of a rank that its SP takes next.
LEMMA RankMsgOK ==
  ASSUME IInv, NEW r \in Rank, fromRank[r] # <<>>,
         fromRank' = [fromRank EXCEPT ![r] = Tail(@)], UNCHANGED host
  PROVE  /\ HostPart' /\ FromPart'
         /\ Head(fromRank[r]) \in RankMsgs(r) /\ spOf[r] \in SP
<1>1. /\ fromRank[r] \in Seq(RankMsgs(r))
  BY Zenon DEF IInv, FromPart
<1>2. Head(fromRank[r]) \in RankMsgs(r) /\ Tail(fromRank[r]) \in Seq(RankMsgs(r))
  BY <1>1
<1>3. FromPart'
  BY <1>2, Zenon DEF IInv, FromPart
<1>4. HostPart'
  BY Zenon DEF IInv, HostPart
<1> QED
  BY <1>2, <1>3, <1>4, TopologyAssumption DEF TopologyAssumption

-----------------------------------------------------------------------------
(* Streams *)

\* Append adds one element.
LEMMA AppendElements ==
  ASSUME NEW S, NEW q \in Seq(S), NEW m \in S
  PROVE  Appended(q, m, Append(q, m))
<1> DEFINE a == Append(q, m)
<1>1. Len(q) + 1 \in DOMAIN a /\ a[Len(q) + 1] = m
  OBVIOUS
<1>2. /\ \A i \in DOMAIN a : i = Len(q) + 1 \/ (i \in DOMAIN q /\ a[i] = q[i])
      /\ \A i \in DOMAIN q : i \in DOMAIN a /\ a[i] = q[i]
  OBVIOUS
<1> QED
  BY <1>1, <1>2, Zenon DEF Appended

\* Streams follow one another.
LEMMA StreamConcat ==
  ASSUME NEW S, NEW a \in Seq(S), NEW b \in Seq(S), NEW lo \in Int, NEW mid \in Int, NEW hi \in Int,
         Stream(a, lo, mid), Stream(b, mid + 1, hi), lo <= mid + 1, mid <= hi
  PROVE  Stream(a \o b, lo, hi)
<1> DEFINE t == a \o b
           n == Len(a)
<1>1. /\ t \in Seq(S) /\ Len(t) = n + Len(b) /\ n \in Nat /\ Len(b) \in Nat
      /\ \A i \in 1 .. n + Len(b) : t[i] = IF i <= n THEN a[i] ELSE b[i - n]
  BY ConcatProperties
<1> HIDE DEF t
<1>2. DOMAIN t = 1 .. n + Len(b) /\ DOMAIN a = 1 .. n /\ DOMAIN b = 1 .. Len(b)
  BY <1>1
<1>3. /\ \A i \in 1 .. n : Key(a[i]) \in Nat /\ lo <= Key(a[i]) /\ Key(a[i]) <= mid
      /\ \A i, j \in 1 .. n : i < j => Key(a[i]) < Key(a[j])
      /\ \A i \in 1 .. Len(b) : Key(b[i]) \in Nat /\ mid + 1 <= Key(b[i]) /\ Key(b[i]) <= hi
      /\ \A i, j \in 1 .. Len(b) : i < j => Key(b[i]) < Key(b[j])
  BY <1>2, Zenon DEF Stream
<1> HIDE DEF n
<1>4. ASSUME NEW i \in 1 .. n + Len(b)
      PROVE  /\ i <= n => i \in 1 .. n /\ t[i] = a[i]
             /\ ~(i <= n) => i - n \in 1 .. Len(b) /\ t[i] = b[i - n]
  BY <1>1
<1>5. ASSUME NEW i \in 1 .. n + Len(b)
      PROVE  Key(t[i]) \in Nat /\ lo <= Key(t[i]) /\ Key(t[i]) <= hi
  BY <1>3, <1>4, SMTT(30)
<1>6. ASSUME NEW i \in 1 .. n + Len(b), NEW j \in 1 .. n + Len(b), i < j
      PROVE  Key(t[i]) < Key(t[j])
  <2>1. CASE j <= n
    <3>1. i <= n /\ i \in 1 .. n /\ j \in 1 .. n
      BY <2>1, <1>1, <1>6
    <3> QED
      BY <3>1, <2>1, <1>3, <1>4, <1>6, Zenon
  <2>2. CASE ~(j <= n) /\ i <= n
    <3>1. Key(t[i]) \in Nat /\ Key(t[i]) <= mid
      BY <2>2, <1>3, <1>4, Zenon
    <3>2. Key(t[j]) \in Nat /\ mid + 1 <= Key(t[j])
      BY <2>2, <1>3, <1>4, Zenon
    <3> QED
      BY <3>1, <3>2
  <2>3. CASE ~(j <= n) /\ ~(i <= n)
    <3>1. i - n \in 1 .. Len(b) /\ j - n \in 1 .. Len(b) /\ i - n < j - n
      BY <2>3, <1>1, <1>4, <1>6, SMTT(30)
    <3>2. t[i] = b[i - n] /\ t[j] = b[j - n]
      BY <2>3, <1>4
    <3> QED
      BY <3>1, <3>2, <1>3, Zenon
  <2> QED
    BY <2>1, <2>2, <2>3, Zenon
<1> QED
  BY <1>2, <1>5, <1>6, Zenon DEF Stream, t

\* The first message of a stream has the least key.
LEMMA StreamHead ==
  ASSUME NEW S, NEW a \in Seq(S), a # <<>>, NEW lo \in Int, NEW hi \in Int, Stream(a, lo, hi)
  PROVE  /\ Key(Head(a)) \in Nat /\ lo <= Key(Head(a)) /\ Key(Head(a)) <= hi
         /\ Head(a) \in S /\ Tail(a) \in Seq(S)
         /\ Stream(Tail(a), Key(Head(a)) + 1, hi)
<1> DEFINE t == Tail(a)
<1>1. /\ 1 \in DOMAIN a /\ Head(a) = a[1] /\ t \in Seq(S) /\ Head(a) \in S
      /\ \A i \in DOMAIN t : i \in Nat /\ 1 < i + 1 /\ i + 1 \in DOMAIN a /\ t[i] = a[i + 1]
      /\ \A i, j \in DOMAIN t : i < j => i + 1 < j + 1
  OBVIOUS
<1> HIDE DEF t
<1>2. Key(Head(a)) \in Nat /\ lo <= Key(Head(a)) /\ Key(Head(a)) <= hi
  BY <1>1, Zenon DEF Stream
<1>3. ASSUME NEW i \in DOMAIN t
      PROVE  Key(t[i]) \in Nat /\ Key(Head(a)) + 1 <= Key(t[i]) /\ Key(t[i]) <= hi
  <2>1. /\ Key(t[i]) \in Nat /\ Key(Head(a)) < Key(t[i]) /\ Key(t[i]) <= hi
    BY <1>1, Zenon DEF Stream
  <2> QED
    BY <1>2, <2>1
<1>4. \A i, j \in DOMAIN t : i < j => Key(t[i]) < Key(t[j])
  BY <1>1, Zenon DEF Stream
<1> QED
  BY <1>1, <1>2, <1>3, <1>4, Zenon DEF Stream, t

\* One message is a stream, and so is none.
LEMMA StreamOne ==
  ASSUME NEW m, NEW lo \in Int, NEW hi \in Int, Key(m) \in Nat, lo <= Key(m), Key(m) <= hi
  PROVE  Stream(<<m>>, lo, hi) /\ Stream(<<>>, lo, hi)
<1>1. DOMAIN <<m>> = {1} /\ <<m>>[1] = m /\ DOMAIN <<>> = {} /\ ~(1 < 1)
  OBVIOUS
<1>2. Stream(<<m>>, lo, hi)
  BY <1>1, Zenon DEF Stream
<1>3. Stream(<<>>, lo, hi)
  BY <1>1, Zenon DEF Stream
<1> QED
  BY <1>2, <1>3

-----------------------------------------------------------------------------
(* The handlers of an SP: adding entries *)

\* The fields of a cache of an SP.
LEMMA SpDomain ==
  ASSUME NEW p, NEW c, SpOK(p, c)
  PROVE  DOMAIN c = SpFields
BY Zenon DEF SpOK, SpCaches, SpFields, CommonFields

\* The number of entries is 0 in an empty cache only.
LEMMA CountIsZero ==
  ASSUME GroupSets, NEW c, c.num_local_entries = Cardinality(Held(c.entries))
  PROVE  c.num_local_entries = 0 <=> Held(c.entries) = {}
<1>1. Held(c.entries) \in SUBSET Group
  BY Zenon DEF Held
<1> QED
  BY <1>1, GroupFinite, Zenon

\* Entries of the current version, or of the one an empty cache is about to
\* start, are stored: the cache is at that version then.
LEMMA StoreVersion ==
  ASSUME GroupSets, NEW c, CacheOK(c), NEW f \in EntriesOf(Group), Uniform(f, Cur(c)), NEW d, d = StoreEntries(c, f)
  PROVE  Stored(c, f, Cur(c), d) /\ NextNum(c, f) = Cur(c)
<1>0. /\ CommonFields \subseteq DOMAIN c /\ c.entries \in [Group -> Nat]
      /\ Uniform(c.entries, c.num) /\ c.num_local_entries = Cardinality(Held(c.entries))
  BY Zenon DEF CacheOK
<1> DEFINE g == [r \in Group |-> IF c.entries[r] = 0 THEN f[r] ELSE c.entries[r]]
<1>1. f \in [Group -> Nat] /\ Held(f) # {}
  BY Zenon DEF EntriesOf
<1>2. Held(g) = Held(c.entries) \cup Held(f)
  BY <1>0, <1>1, Zenon DEF Held
<1>3. Held(c.entries) = {} => Missing(c, f) # {}
  BY <1>1, Zenon DEF Missing
<1>4. NextNum(c, f) = Cur(c)
  BY <1>0, <1>3, CountIsZero, Zenon DEF NextNum, Cur
<1>5. Uniform(g, Cur(c))
  <2> SUFFICES ASSUME NEW r \in Group, g[r] # 0 PROVE g[r] = Cur(c)
    BY Zenon DEF Uniform, Held
  <2>1. CASE c.entries[r] = 0
    BY <2>1, <1>0, <1>1, Zenon DEF Uniform, Held
  <2>2. CASE c.entries[r] # 0
    <3>1. r \in Held(c.entries) /\ g[r] = c.entries[r]
      BY <2>2, <1>0, Zenon DEF Held
    <3>2. Cur(c) = c.num
      BY <3>1, Zenon DEF Cur
    <3> QED
      BY <3>1, <3>2, <1>0, Zenon DEF Uniform
  <2> QED
    BY <2>1, <2>2, Zenon
<1> HIDE DEF g
<1>6. /\ d.entries = g /\ d.num = Cur(c) /\ DOMAIN d = DOMAIN c
      /\ \A x \in DOMAIN c \ {"group_size", "num", "entries", "num_local_entries"} :
           d[x] = c[x]
  BY <1>0, <1>4, Zenon DEF StoreEntries, CommonFields, g
<1> QED
  BY <1>1, <1>2, <1>4, <1>5, <1>6, Zenon DEF Stored

\* The same for AddEntries, whose assertion holds.
LEMMA AddVersion ==
  ASSUME GroupSets, NEW c, CacheOK(c), NEW f \in EntriesOf(Group), Uniform(f, Cur(c)), NEW d, d = AddEntries(c, f)
  PROVE  Stored(c, f, Cur(c), d)
<1> DEFINE e == StoreEntries(c, f)
           F == e.failed \cup Unless(\A r \in Missing(c, f) : f[r] = NextNum(c, f), "entry_seq")
<1>0. e = StoreEntries(c, f) /\ CommonFields \subseteq DOMAIN c
  BY Zenon DEF CacheOK
<1> HIDE DEF e
<1>1. Stored(c, f, Cur(c), e) /\ NextNum(c, f) = Cur(c)
  BY <1>0, StoreVersion, Zenon
<1>2. F = e.failed
  <2>1. \A r \in Missing(c, f) : f[r] = NextNum(c, f)
    BY <1>1, Zenon DEF Uniform, Missing
  <2> QED
    BY <2>1, Zenon DEF Unless
<1>3. d = [e EXCEPT !.failed = F] /\ DOMAIN e = DOMAIN c
  BY <1>0, <1>1, Zenon DEF AddEntries, e, CommonFields, Stored
<1> HIDE DEF F
<1>4. /\ DOMAIN d = DOMAIN c /\ \A x \in DOMAIN c : d[x] = e[x]
  BY <1>0, <1>2, <1>3, Zenon DEF CommonFields
<1>5. d.entries = e.entries /\ d.num = e.num
  BY <1>0, <1>4, Zenon DEF CommonFields
<1> QED
  BY <1>1, <1>4, <1>5, Zenon DEF Stored

-----------------------------------------------------------------------------
(* The steps of an SP *)

\* The positions of a cache are integers.
LEMMA PositionsInt ==
  ASSUME NEW p, NEW c, c.num \in Nat
  PROVE  /\ Cur(c) \in Nat /\ SpUp(p, c) \in Int /\ SpDown(c) \in Int
         /\ \A r : FromRanks(c, r) \in Nat /\ FromPeer(c, r) \in Nat
<1>1. Cur(c) \in Nat
  BY DEF Cur
<1>2. SpUp(p, c) \in Int
  BY <1>1 DEF SpUp
<1>3. SpDown(c) \in Int
  BY <1>1 DEF SpDown
<1>4. ASSUME NEW r PROVE FromRanks(c, r) \in Nat
  BY <1>1 DEF FromRanks
<1>5. ASSUME NEW r PROVE FromPeer(c, r) \in Nat
  BY <1>1, SMTT(30) DEF FromPeer
<1> QED
  BY <1>1, <1>2, <1>3, <1>4, <1>5, Zenon

\* A message with entries of version n.
LEMMA EntriesKey ==
  ASSUME GroupSets, NEW f \in [Group -> Nat], Held(f) # {}, NEW n, Uniform(f, n)
  PROVE  /\ FirstSeq(EntriesMsg(f)) = n /\ Key(EntriesMsg(f)) = 2 * n /\ n \in Nat /\ n # 0
         /\ EntriesMsg(f).type = "entries" /\ EntriesMsg(f).entries = f
<1>1. EntriesMsg(f).type = "entries" /\ EntriesMsg(f).entries = f
  BY Zenon DEF EntriesMsg
<1>2. Held(f) \in SUBSET Nat
  BY GroupFinite, Zenon DEF Held
<1>3. Min(Held(f)) \in Held(f)
  BY <1>2, MinIsLeast, Zenon
<1>4. FirstSeq(EntriesMsg(f)) = n
  BY <1>1, <1>3, Zenon DEF FirstSeq, Uniform
<1>5. n \in Nat /\ n # 0
  BY <1>3, Zenon DEF Uniform, Held
<1>6. Key(EntriesMsg(f)) = 2 * FirstSeq(EntriesMsg(f))
  BY <1>1 DEF Key
<1> QED
  BY <1>1, <1>4, <1>5, <1>6, Zenon

\* The positions depend on the version, the entries and who revoked.
LEMMA SamePositions ==
  ASSUME NEW p, NEW c, NEW d, d.num = c.num, d.entries = c.entries, d.revoked = c.revoked
  PROVE  Cur(d) = Cur(c) /\ SpUp(p, d) = SpUp(p, c) /\ SpDown(d) = SpDown(c)
BY Zenon DEF Cur, SpUp, SpDown

-----------------------------------------------------------------------------
(* Positions *)

\* Where an SP is in the stream of another one, and in its own.
LEMMA FromPeerCases ==
  ASSUME NEW c, c.num \in Nat, NEW r
  PROVE  /\ Cur(c) \in Nat /\ FromPeer(c, r) \in Nat /\ FromPeer(c, r) >= 2 * Cur(c)
         /\ r \in Held(c.entries) => FromPeer(c, r) >= 2 * Cur(c) + 1
         /\ r \in c.revoked /\ Held(c.entries) # {} => FromPeer(c, r) >= 2 * Cur(c) + 2
         /\ FromPeer(c, r) <= 2 * Cur(c)
              => r \notin Held(c.entries) /\ r \notin c.revoked
         /\ FromPeer(c, r) <= 2 * Cur(c) + 1 /\ Held(c.entries) # {}
              => /\ r \notin Pending(c) /\ r \notin c.revoked
                 /\ c.pending_revokes_from_sps = <<>>
                 /\ r \notin Held(c.entries) => FromPeer(c, r) = 2 * Cur(c)
<1>1. Cur(c) \in Nat /\ (Cur(c) = c.num \/ Cur(c) = c.num + 1)
      /\ (Held(c.entries) # {} => Cur(c) = c.num)
  BY DEF Cur
<1>2. CASE r \in Pending(c)
  <2>1. FromPeer(c, r) = 2 * c.num + 3
    BY <1>2, Zenon DEF FromPeer
  <2> QED
    BY <2>1, <1>1, <1>2, SMTT(30)
<1>3. CASE r \notin Pending(c)
  <2>1. \/ FromPeer(c, r) = 2 * Cur(c) + 2 /\ (r \in c.revoked \/ c.pending_revokes_from_sps # <<>>)
        \/ /\ FromPeer(c, r) = 2 * Cur(c) + 1 /\ r \notin c.revoked
           /\ c.pending_revokes_from_sps = <<>> /\ r \in Held(c.entries)
        \/ /\ FromPeer(c, r) = 2 * Cur(c) + 0 /\ r \notin c.revoked
           /\ c.pending_revokes_from_sps = <<>> /\ r \notin Held(c.entries)
    BY <1>3, Zenon DEF FromPeer
  <2> QED
    BY <2>1, <1>1, <1>3
<1> QED
  BY <1>2, <1>3, Zenon

\* How far an SP is in its streams, by what it holds and what is revoked.
LEMMA UpRange ==
  ASSUME NEW p, NEW c, c.num \in Nat
  PROVE  /\ Cur(c) \in Nat /\ SpUp(p, c) \in Int
         /\ 2 * Cur(c) - 1 <= SpUp(p, c) /\ SpUp(p, c) <= 2 * Cur(c) + 1
         /\ SpUp(p, c) >= 2 * Cur(c) => SpRanks(p) \subseteq c.revoked \/ SpRanks(p) \subseteq Held(c.entries)
         /\ SpUp(p, c) >= 2 * Cur(c) + 1 => SpRanks(p) \subseteq c.revoked
         /\ ~(SpRanks(p) \subseteq c.revoked) => SpUp(p, c) <= 2 * Cur(c)
<1>1. Cur(c) \in Nat
  BY DEF Cur
<1> QED
  BY <1>1 DEF SpUp

\* The same for the stream to its ranks.
LEMMA DownRange ==
  ASSUME NEW c, c.num \in Nat
  PROVE  /\ Cur(c) \in Nat /\ SpDown(c) \in Int
         /\ 2 * Cur(c) - 1 <= SpDown(c) /\ SpDown(c) <= 2 * Cur(c) + 1
         /\ SpDown(c) >= 2 * Cur(c) => c.revoked = Group \/ Held(c.entries) = Group
         /\ SpDown(c) >= 2 * Cur(c) + 1 => c.revoked = Group
<1>1. Cur(c) \in Nat
  BY DEF Cur
<1> QED
  BY <1>1 DEF SpDown

\* Nobody revokes a cache that does not hold all ranks.
LEMMA RevokedFull ==
  ASSUME NEW p, NEW c, SpVer(p, c), c.revoked # {}
  PROVE  Held(c.entries) = Group
BY Zenon DEF SpVer, SpCore

\* The position of a message is a natural number.
LEMMA KeyNat ==
  ASSUME GroupSets, NEW S, NEW m,
         m \in EntriesMsgs(S) \/ m \in SpRevokeMsgs \/ m \in AddMsgs(S) \/ m \in RankRevokeMsgs(S)
  PROVE  /\ Key(m) \in Nat
         /\ m \in EntriesMsgs(S) => /\ Key(m) = 2 * FirstSeq(m) /\ FirstSeq(m) \in Nat
                                    /\ m.entries \in [Group -> Nat] /\ Held(m.entries) # {}
                                    /\ Min(Held(m.entries)) \in Held(m.entries)
<1>1. CASE m \in EntriesMsgs(S)
  <2>1. m.entries \in [Group -> Nat] /\ Held(m.entries) # {} /\ m.type = "entries"
    BY <1>1, Zenon DEF EntriesMsgs, EntriesOf
  <2>2. Min(Held(m.entries)) \in Held(m.entries)
    <3>1. Held(m.entries) \in SUBSET Nat
      BY GroupFinite, Zenon DEF Held
    <3> QED
      BY <2>1, <3>1, MinIsLeast, Zenon
  <2>3. FirstSeq(m) \in Nat
    BY <2>1, <2>2, Zenon DEF FirstSeq, Held
  <2>4. Key(m) = 2 * FirstSeq(m)
    BY <2>1 DEF Key
  <2> QED
    BY <2>1, <2>2, <2>3, <2>4
<1>2. CASE m \in SpRevokeMsgs
  <2>1. m.type = "revoke" /\ m.seq \in Nat
    BY <1>2, Zenon DEF SpRevokeMsgs
  <2>2. m \notin EntriesMsgs(S)
    BY <2>1, Zenon DEF EntriesMsgs
  <2>3. Key(m) = 2 * m.seq + 1
    BY <2>1 DEF Key
  <2> QED
    BY <2>1, <2>2, <2>3
<1>3. CASE m \in AddMsgs(S)
  <2>1. m.type = "add" /\ m.seq \in Nat
    BY <1>3, Zenon DEF AddMsgs, Version
  <2>2. m \notin EntriesMsgs(S)
    BY <2>1, Zenon DEF EntriesMsgs
  <2>3. Key(m) = 2 * m.seq
    BY <2>1 DEF Key
  <2> QED
    BY <2>1, <2>2, <2>3
<1>4. CASE m \in RankRevokeMsgs(S)
  <2>1. m.type = "revoke" /\ m.seq \in Nat
    BY <1>4, Zenon DEF RankRevokeMsgs
  <2>2. m \notin EntriesMsgs(S)
    BY <2>1, Zenon DEF EntriesMsgs
  <2>3. Key(m) = 2 * m.seq + 1
    BY <2>1 DEF Key
  <2> QED
    BY <2>1, <2>2, <2>3, SMTT(30)
<1> QED
  BY <1>1, <1>2, <1>3, <1>4, Zenon

-----------------------------------------------------------------------------
(* The channels between an SP and its clients *)

\* Where a rank is in its stream to its SP, and in that of its SP.
LEMMA HostRange ==
  ASSUME NEW h, h.num \in Nat, h.global \in {0, 1}
  PROVE  /\ Cur(h) \in Nat /\ HostUp(h) \in Int /\ HostFrom(h) \in Nat
         /\ h.global = 1 => HostUp(h) = 2 * Cur(h) + 1
         /\ h.global = 0 /\ Held(h.entries) # {} => HostUp(h) = 2 * Cur(h)
         /\ h.global = 0 /\ Held(h.entries) = {} => HostUp(h) = 2 * Cur(h) - 1
         /\ Held(h.entries) = Group => HostFrom(h) = 2 * Cur(h) + 1
         /\ Held(h.entries) # Group => HostFrom(h) = 2 * Cur(h)
<1>1. Cur(h) \in Nat
  BY DEF Cur
<1>2. h.global = 1 => h.global > 0
  OBVIOUS
<1>3. h.global = 0 => ~(h.global > 0)
  OBVIOUS
<1>4. /\ h.global = 1 => HostUp(h) = 2 * Cur(h) + 1
      /\ h.global = 0 /\ Held(h.entries) # {} => HostUp(h) = 2 * Cur(h)
      /\ h.global = 0 /\ Held(h.entries) = {} => HostUp(h) = 2 * Cur(h) - 1
  BY <1>1, <1>2, <1>3 DEF HostUp
<1>5. /\ Held(h.entries) = Group => HostFrom(h) = 2 * Cur(h) + 1
      /\ Held(h.entries) # Group => HostFrom(h) = 2 * Cur(h)
  BY <1>1 DEF HostFrom
<1>6. HostUp(h) \in Int
  BY <1>1, <1>4
<1>7. HostFrom(h) \in Nat
  BY <1>1, <1>5
<1> QED
  BY <1>1, <1>4, <1>5, <1>6, <1>7, Zenon

-----------------------------------------------------------------------------
(* The messages of the ranks *)

\* How far an SP is in the stream of a rank of its own.
LEMMA FromRanksCases ==
  ASSUME NEW c, c.num \in Nat, NEW r
  PROVE  /\ Cur(c) \in Nat /\ FromRanks(c, r) \in Nat /\ FromRanks(c, r) >= 2 * Cur(c)
         /\ r \in Held(c.entries) => FromRanks(c, r) >= 2 * Cur(c) + 1
         /\ r \in c.revoked => FromRanks(c, r) >= 2 * Cur(c) + 2
<1>1. Cur(c) \in Nat
  BY DEF Cur
<1>2. \/ FromRanks(c, r) = 2 * Cur(c) + 3
      \/ FromRanks(c, r) = 2 * Cur(c) + 2
      \/ FromRanks(c, r) = 2 * Cur(c) + 1 /\ r \notin c.revoked
      \/ FromRanks(c, r) = 2 * Cur(c) + 0 /\ r \notin c.revoked /\ r \notin Held(c.entries)
  BY Zenon DEF FromRanks
<1> QED
  BY <1>1, <1>2

\* What the two invariants say about a rank of the group.
LEMMA RankState ==
  ASSUME IInv, VInv, NEW r \in Group
  PROVE  RankOf(r, sp[spOf[r]], host[r], fromRank[r], toRank[r])
<1>1. r \in Rank /\ spOf[r] \in SP
  BY TopologyAssumption, Zenon DEF TopologyAssumption
<1>2. /\ SpOK(spOf[r], sp[spOf[r]]) /\ HostOK(host[r])
      /\ fromRank[r] \in Seq(RankMsgs(r)) /\ toRank[r] \in Seq(HostMsgs)
  BY <1>1, Zenon DEF IInv, SpPart, HostPart, FromPart, ToPart
<1>3. SpVer(spOf[r], sp[spOf[r]]) /\ RankVer(r)
  BY <1>1, Zenon DEF VInv
<1> QED
  BY <1>2, <1>3, Zenon DEF RankOf, RankVer

\* A rank is at most one version ahead of its SP, and its SP at most one step
\* behind it.
LEMMA RankBounds ==
  ASSUME NEW r, NEW c, NEW h, NEW up, NEW down, RankOf(r, c, h, up, down)
  PROVE  /\ c.num \in Nat /\ h.num \in Nat /\ h.global \in {0, 1} /\ h.pending_send_adds \in {0, 1}
         /\ Cur(c) \in Nat /\ Cur(h) \in Nat /\ HostUp(h) \in Int /\ HostFrom(h) \in Nat
         /\ SpDown(c) \in Int /\ FromRanks(c, r) \in Nat
         /\ HostFrom(h) <= SpDown(c) + 1 /\ FromRanks(c, r) <= HostUp(h) + 1
         /\ 2 * Cur(h) <= HostFrom(h) /\ HostUp(h) <= 2 * Cur(h) + 1
         /\ SpDown(c) <= 2 * Cur(c) + 1 /\ 2 * Cur(c) <= FromRanks(c, r)
         /\ HostUp(h) >= 2 * Cur(h) + 1 => HostFrom(h) = 2 * Cur(h) + 1
<1>1. /\ c.num \in Nat /\ h.num \in Nat /\ h.global \in {0, 1} /\ h.pending_send_adds \in {0, 1}
  BY SpNumbers, Zenon DEF RankOf, HostOK, HostCaches, HostVer
<1>2. HostFrom(h) <= SpDown(c) + 1 /\ FromRanks(c, r) <= HostUp(h) + 1
  BY Zenon DEF RankOf, ToRankOK, FromRankOK
<1>3. /\ Cur(h) \in Nat /\ HostUp(h) \in Int /\ HostFrom(h) \in Nat
      /\ h.global = 1 => HostUp(h) = 2 * Cur(h) + 1
      /\ h.global = 0 /\ Held(h.entries) # {} => HostUp(h) = 2 * Cur(h)
      /\ h.global = 0 /\ Held(h.entries) = {} => HostUp(h) = 2 * Cur(h) - 1
      /\ Held(h.entries) = Group => HostFrom(h) = 2 * Cur(h) + 1
      /\ Held(h.entries) # Group => HostFrom(h) = 2 * Cur(h)
  BY <1>1, HostRange, Zenon
<1>4. /\ Cur(c) \in Nat /\ SpDown(c) \in Int /\ SpDown(c) <= 2 * Cur(c) + 1
  BY <1>1, DownRange, Zenon
<1>5. FromRanks(c, r) \in Nat /\ FromRanks(c, r) >= 2 * Cur(c)
  BY <1>1, FromRanksCases, Zenon
<1>6. h.global = 1 => Held(h.entries) = Group
  BY Zenon DEF RankOf, HostVer
<1>7. /\ 2 * Cur(h) <= HostFrom(h) /\ HostUp(h) <= 2 * Cur(h) + 1 /\ 2 * Cur(c) <= FromRanks(c, r)
      /\ HostUp(h) >= 2 * Cur(h) + 1 => HostFrom(h) = 2 * Cur(h) + 1
  BY <1>1, <1>3, <1>4, <1>5, <1>6, SMTT(30)
<1> QED
  BY <1>1, <1>2, <1>3, <1>4, <1>5, <1>7, Zenon

==============================================================================
