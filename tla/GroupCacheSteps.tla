--------------------------- MODULE GroupCacheSteps ---------------------------
(***************************************************************************)
(* Every step of GroupCache keeps the invariant IInv, for every topology,  *)
(* every number of creations and every setting of Persistent and           *)
(* EagerFree; and the invariant of a persistent cache, PInv, with the      *)
(* steps that keep it.                                                     *)
(***************************************************************************)
EXTENDS GroupCacheHandlers

-----------------------------------------------------------------------------
(* The handlers of an SP *)

\* broadcast_group_cache sends the other SPs entries of the SP's own ranks.
LEMMA BroadcastOK ==
  ASSUME GroupSets, NEW p \in SP, NEW c, SpOK(p, c), c.global = 0,
         Held(c.entries) \cap SpRanks(p) # {}
  PROVE  LET d == BroadcastCache(p, c)
         IN  SpOK(p, d) /\ d.global = 0 /\ Forward(c, d)
<1> DEFINE m == EntriesMsg(Only(SpRanks(p), c.entries))
           t == Append(c.toPeers, m)
           d == [c EXCEPT !.toPeers = t]
<1>1. m \in PeerMsgs(p)
  <2>1. Only(SpRanks(p), c.entries) \in [Group -> Nat]
    BY Zenon DEF Only, SpOK, SpCaches
  <2>2. Held(Only(SpRanks(p), c.entries)) = Held(c.entries) \cap SpRanks(p)
    BY Zenon DEF Only, Held
  <2> QED
    BY <2>1, <2>2, Zenon DEF PeerMsgs, EntriesMsg, EntriesMsgs, EntriesOf
<1> HIDE DEF m
<1>2. t \in Seq(PeerMsgs(p))
  BY <1>1 DEF SpOK, SpCaches
<1>4. BroadcastCache(p, c)
        = IF d.group_size = d.num_local_entries THEN SendCacheToHost(d) ELSE d
  BY Zenon DEF BroadcastCache, m, SpOK, SpCaches
<1> HIDE DEF t
<1>7. d \in SpCaches(p)
  BY <1>2, Zenon DEF SpOK, SpCaches
<1>3. /\ d.group_size = c.group_size /\ d.num = c.num /\ d.entries = c.entries
      /\ d.num_local_entries = c.num_local_entries /\ d.failed = c.failed
      /\ d.n_local_ranks_populated = c.n_local_ranks_populated
      /\ d.revoke_posted = c.revoke_posted /\ d.ongoing = c.ongoing /\ d.toHosts = c.toHosts
      /\ d.global = c.global
  BY Zenon DEF SpOK, SpCaches
<1> HIDE DEF d
<1>5. SpOK(p, d) /\ d.global = 0
  BY <1>7, <1>3, Zenon DEF SpOK, SpCacheInv, RevokesOf
<1>6. d.num_local_entries # 0
  BY <1>3, GroupFinite, Zenon DEF SpOK, SpCacheInv, Held
<1> QED
  <2>1. Forward(c, d)
    BY <1>3, ForwardSame, Zenon
  <2>2. CASE d.group_size = d.num_local_entries
    BY <2>1, <2>2, <1>4, <1>5, <1>6, SendCacheOK, ForwardTwice, SMTT(30)
  <2> QED
    BY <2>1, <2>2, <1>4, <1>5, Zenon

\* GROUP_CACHE_EXCHANGE keeps the cache of an SP consistent.
LEMMA ExchangeOK ==
  ASSUME GroupSets, NEW p \in SP, NEW c, SpOK(p, c), c.global = 0,
         Held(c.entries) \cap SpRanks(p) # {}
  PROVE  LET d == Exchange(p, c)
         IN  SpOK(p, d) /\ d.global = 0 /\ Forward(c, d)
BY BroadcastOK, ForwardSame, Zenon DEF Exchange

\* do_add_group_rank_recv_cb keeps the cache of an SP consistent.
LEMMA AddLocalRanksOK ==
  ASSUME GroupSets, NEW p \in SP, NEW c, SpOK(p, c), c.global = 0, NEW f \in EntriesOf(SpRanks(p))
  PROVE  SpOK(p, AddLocalRanks(p, c, f)) /\ Forward(c, AddLocalRanks(p, c, f))
<1> DEFINE e == StoreLocal(p, c, f)
           h == HandlePendingEntries(p, e)
<1>1. AddLocalRanks(p, c, f) = Exchange(p, h)
  BY Zenon DEF AddLocalRanks, StoreLocal
<1>2. SpOK(p, e) /\ e.global = 0 /\ Forward(c, e) /\ Held(e.entries) \cap SpRanks(p) # {}
  BY StoreLocalOK, Zenon
<1> HIDE DEF e
<1>3. SpOK(p, h) /\ h.global = 0 /\ Forward(e, h) /\ Held(e.entries) \subseteq Held(h.entries)
  BY <1>2, HandlePendingEntriesOK, Zenon
<1> HIDE DEF h
<1>4. Held(h.entries) \cap SpRanks(p) # {}
  BY <1>2, <1>3, Zenon
<1>5. SpOK(p, Exchange(p, h)) /\ Forward(h, Exchange(p, h))
  BY <1>3, <1>4, ExchangeOK, Zenon
<1> QED
  BY <1>1, <1>2, <1>3, <1>5, ForwardTwice, Zenon

\* handle_pending_group_cache_add_msgs keeps the cache of an SP consistent.
LEMMA HandlePendingAddsOK ==
  ASSUME GroupSets, NEW p \in SP, NEW c, SpOK(p, c), c.global = 0
  PROVE  SpOK(p, HandlePendingAdds(p, c)) /\ Forward(c, HandlePendingAdds(p, c))
<1> DEFINE e == WithoutAdds(c)
<1>1. CASE c.pending_adds = <<>>
  BY <1>1, ForwardSame, Zenon DEF HandlePendingAdds
<1>2. CASE c.pending_adds # <<>>
  <2>1. HandlePendingAdds(p, c) = AddLocalRanks(p, e, PendingAdds(c))
    BY <1>2, Zenon DEF HandlePendingAdds, WithoutAdds, AddsInOrder, PendingAdds
  <2>2. /\ PendingAdds(c) \in EntriesOf(SpRanks(p)) /\ SpOK(p, e) /\ e.global = 0
        /\ e.num = c.num /\ e.revoke_posted = c.revoke_posted
    BY <1>2, PendingAddsOK, Zenon DEF SameForInv
  <2> HIDE DEF e
  <2>3. SpOK(p, AddLocalRanks(p, e, PendingAdds(c)))
        /\ Forward(e, AddLocalRanks(p, e, PendingAdds(c)))
    BY <2>2, AddLocalRanksOK, Zenon
  <2> QED
    BY <2>1, <2>2, <2>3, Zenon DEF Forward
<1> QED
  BY <1>1, <1>2, Zenon

\* send_revoke_group_to_ranks: the final revoke is posted once per version, and
\* its assertion on the previous one holds.
LEMMA SendFinalRevokeOK ==
  ASSUME NEW p \in SP, NEW c, SpOK(p, c), c.revoke_posted < c.num
  PROVE  SpOK(p, SendFinalRevoke(c)) /\ SendFinalRevoke(c).num = c.num
<1> DEFINE m == RevokeMsg(Group, c.num)
           h == Append(c.toHosts, m)
           o == Append(c.ongoing, "revoke")
           d == [c EXCEPT !.toHosts = h, !.ongoing = o, !.revoke_posted = c.num]
<1>1. /\ c.toHosts \in Seq(HostMsgs) /\ c.ongoing \in Seq({"cache", "revoke"})
      /\ c.num \in Nat /\ c.revoke_posted \in Nat
  BY Zenon DEF SpOK, SpCaches
<1>2. /\ c.num = c.revoke_posted + 1 /\ RevokesOf(c) = {} /\ c.num_local_entries # 0
  BY <1>1, SMTT(30) DEF SpOK, SpCacheInv
<1>3. m \in HostMsgs /\ Complete(m)
  BY <1>1, Zenon DEF RevokeMsg, HostMsgs, SpRevokeMsgs, Complete
<1>4. SendFinalRevoke(c) = d
  <2>1. Unless(c.revoke_posted + 1 = c.num, "revoke_posted") = {}
    BY <1>2, Zenon DEF Unless
  <2> QED
    BY <2>1, Zenon DEF SendFinalRevoke, SpOK, SpCaches
<1> HIDE DEF m
<1>5. /\ h \in Seq(HostMsgs)
      /\ \A i \in DOMAIN h : Complete(h[i])
  BY <1>1, <1>3 DEF SpOK, SpCacheInv
<1>6. /\ o \in Seq({"cache", "revoke"})
      /\ {i \in DOMAIN o : o[i] = "revoke"} = {Len(c.ongoing) + 1}
  BY <1>1, <1>2 DEF RevokesOf
<1> HIDE DEF h, o
<1>7. d \in SpCaches(p)
  BY <1>1, <1>5, <1>6, Zenon DEF SpOK, SpCaches
<1>8. /\ d.group_size = c.group_size /\ d.num = c.num /\ d.entries = c.entries
      /\ d.num_local_entries = c.num_local_entries /\ d.failed = c.failed
      /\ d.n_local_ranks_populated = c.n_local_ranks_populated
      /\ d.revoke_posted = c.num /\ d.ongoing = o /\ d.toHosts = h
  BY Zenon DEF SpOK, SpCaches
<1> HIDE DEF d
<1>9. SpCacheInv(p, d)
  BY <1>2, <1>5, <1>6, <1>8 DEF SpOK, SpCacheInv, RevokesOf
<1> QED
  BY <1>4, <1>7, <1>8, <1>9, Zenon DEF SpOK

\* Marking ranks as having revoked the group touches nothing else.
LEMMA MarkRevokedOK ==
  ASSUME GroupSets, NEW p \in SP, NEW c, SpOK(p, c), NEW R \in SUBSET Group
  PROVE  /\ SpOK(p, MarkRevoked(c, R))
         /\ SameForInv(c, MarkRevoked(c, R))
<1> DEFINE v == c.revoked \cup R
           k == c.global + Cardinality(R \ c.revoked)
           d == [c EXCEPT !.revoked = v, !.global = k]
<1>1. v \in SUBSET Group /\ k \in Nat
  <2>1. R \ c.revoked \in SUBSET Group
    BY Zenon
  <2>2. Cardinality(R \ c.revoked) \in Nat
    BY <2>1, GroupFinite, Zenon
  <2> QED
    BY <2>2, SpNumbers
<1>2. MarkRevoked(c, R) = d
  BY Zenon DEF MarkRevoked, SpOK, SpCaches
<1> HIDE DEF v, k
<1>3. d \in SpCaches(p)
  BY <1>1, Zenon DEF SpOK, SpCaches
<1>4. SameForInv(c, d)
  BY Zenon DEF SameForInv, SpOK, SpCaches
<1> HIDE DEF d
<1> QED
  BY <1>2, <1>3, <1>4, SameForInvOK, Zenon DEF SpOK

\* HANDLE_PENDING_GROUP_REVOKE_MSGS_FROM_SPS keeps the cache of an SP consistent.
LEMMA HandlePendingRevokesOK ==
  ASSUME GroupSets, NEW p \in SP, NEW c, SpOK(p, c)
  PROVE  SpOK(p, HandlePendingRevokes(c)) /\ HandlePendingRevokes(c).num = c.num
<1> DEFINE q == c.pending_revokes_from_sps
           b == MarkRevoked(c, PendingRevokes(c))
           F == Unless(\A i \in DOMAIN q : q[i].seq = c.num, "pending_revoke_seq")
           a == b.failed \cup F
           z == <<>>
           d == [b EXCEPT !.pending_revokes_from_sps = z, !.failed = a]
<1>1. CASE q = <<>>
  BY <1>1, Zenon DEF HandlePendingRevokes
<1>2. CASE q # <<>>
  <2>1. PendingRevokes(c) \in SUBSET Group
    <3>1. q \in Seq(SpRevokeMsgs)
      BY Zenon DEF SpOK, SpCaches
    <3>2. \A i \in DOMAIN q : q[i] \in SpRevokeMsgs
      BY <3>1
    <3>3. \A i \in DOMAIN q : q[i].ranks \subseteq Group
      BY <3>2, Zenon DEF SpRevokeMsgs
    <3> QED
      BY <3>3, Zenon DEF PendingRevokes
  <2>2. SpOK(p, b) /\ b.num = c.num
    BY <2>1, MarkRevokedOK, Zenon DEF SameForInv
  <2>3. HandlePendingRevokes(c) = d
    <3>1. HandlePendingRevokes(c)
            = [b EXCEPT !.pending_revokes_from_sps = z, !.failed = @ \cup F]
      BY <1>2, Zenon DEF HandlePendingRevokes
    <3> HIDE DEF b, q, z, F
    <3> QED
      BY <2>2, <3>1, Zenon DEF SpOK, SpCaches
  <2>4. /\ z \in Seq(SpRevokeMsgs) /\ a \subseteq Names
        /\ a \cap {"cache_populated", "revoke_posted"}
             = b.failed \cap {"cache_populated", "revoke_posted"}
    <3>1. F \subseteq {"pending_revoke_seq"}
      BY Zenon DEF Unless
    <3> HIDE DEF F, b
    <3>2. b.failed \subseteq Names
      BY <2>2, Zenon DEF SpOK, SpCaches
    <3>3. a \subseteq Names
      BY <3>1, <3>2, Zenon DEF Names
    <3>4. a \cap {"cache_populated", "revoke_posted"}
             = b.failed \cap {"cache_populated", "revoke_posted"}
      BY <3>1, Zenon
    <3> QED
      BY <3>3, <3>4
  <2> HIDE DEF b, q, F
  <2> HIDE DEF z, a
  <2>5. d \in SpCaches(p)
    BY <2>2, <2>4, Zenon DEF SpOK, SpCaches
  <2>6. SameForInv(b, d)
    BY <2>2, <2>4, Zenon DEF SameForInv, SpOK, SpCaches
  <2> HIDE DEF d
  <2> QED
    BY <2>2, <2>3, <2>5, <2>6, SameForInvOK, Zenon DEF SpOK, SameForInv
<1> QED
  BY <1>1, <1>2, Zenon

\* handle_revoke_group_rank_through_list_ranks keeps the cache of an SP
\* consistent.
LEMMA HandleSpRevokeOK ==
  ASSUME GroupSets, NEW p \in SP, NEW c, SpOK(p, c), NEW m \in SpRevokeMsgs
  PROVE  SpOK(p, HandleSpRevoke(c, m)) /\ HandleSpRevoke(c, m).num = c.num
<1> DEFINE s == IF c.group_size = 0 THEN GroupSize ELSE c.group_size
           b == [c EXCEPT !.group_size = s]
           d == MarkRevoked(b, m.ranks)
           e == IF m.ranks \subseteq c.revoked \/ ~FinalRevokeDue(d) THEN d
                ELSE SendFinalRevoke(d)
           z == Append(c.pending_revokes_from_sps, m)
           w == [c EXCEPT !.pending_revokes_from_sps = z]
           x == IF c.group_size # c.num_local_entries \/ c.sp_ranks # c.local THEN w ELSE e
           F == Unless(c.n_local_ranks # 0 => m.seq = c.num, "revoke_seq")
<1>1. HandleSpRevoke(c, m) = [x EXCEPT !.failed = @ \cup F]
  <2>1. [c EXCEPT !.group_size = IF @ = 0 THEN GroupSize ELSE @] = b
    BY Zenon DEF SpOK, SpCaches
  <2>2. [c EXCEPT !.pending_revokes_from_sps = Append(@, m)] = w
    BY Zenon DEF SpOK, SpCaches
  <2> QED
    BY <2>1, <2>2, Zenon DEF HandleSpRevoke
<1>2. F \in SUBSET (Names \ {"cache_populated", "revoke_posted"})
  BY Zenon DEF Unless, Names
<1>3. SpOK(p, b) /\ b.num = c.num
  <2>1. s \in {0, GroupSize} /\ (c.num_local_entries # 0 => s = GroupSize)
    BY GroupFinite, Zenon DEF SpOK, SpCaches, SpCacheInv
  <2> HIDE DEF s
  <2>2. b \in SpCaches(p)
    BY <2>1, Zenon DEF SpOK, SpCaches
  <2>3. /\ b.group_size = s /\ b.num = c.num /\ b.entries = c.entries
        /\ b.num_local_entries = c.num_local_entries /\ b.failed = c.failed
        /\ b.n_local_ranks_populated = c.n_local_ranks_populated
        /\ b.revoke_posted = c.revoke_posted /\ b.ongoing = c.ongoing /\ b.toHosts = c.toHosts
    BY Zenon DEF SpOK, SpCaches
  <2> HIDE DEF b
  <2>4. SpCacheInv(p, b)
    BY <2>1, <2>3 DEF SpOK, SpCacheInv, RevokesOf
  <2> QED
    BY <2>2, <2>3, <2>4, Zenon DEF SpOK
<1>4. SpOK(p, d) /\ d.num = c.num
  <2>1. m.ranks \in SUBSET Group
    BY Zenon DEF SpRevokeMsgs
  <2> HIDE DEF b
  <2> QED
    BY <1>3, <2>1, MarkRevokedOK, Zenon DEF SameForInv
<1>5. SpOK(p, e) /\ e.num = c.num
  <2> HIDE DEF d
  <2> QED
    BY <1>4, SendFinalRevokeOK, Zenon DEF FinalRevokeDue
<1>6. SpOK(p, w) /\ w.num = c.num
  <2>1. z \in Seq(SpRevokeMsgs)
    BY DEF SpOK, SpCaches
  <2> HIDE DEF z
  <2>2. w \in SpCaches(p)
    BY <2>1, Zenon DEF SpOK, SpCaches
  <2>3. SameForInv(c, w)
    BY Zenon DEF SameForInv, SpOK, SpCaches
  <2> HIDE DEF w
  <2> QED
    BY <2>2, <2>3, SameForInvOK, Zenon DEF SpOK, SameForInv
<1>7. SpOK(p, x) /\ x.num = c.num
  <2> HIDE DEF e, w
  <2> QED
    BY <1>5, <1>6, Zenon
<1> HIDE DEF x, F
<1> QED
  BY <1>1, <1>2, <1>7, FailOK DEF SameForInv

\* broadcast_group_cache_revoke, then the pending revokes of the other SPs.
LEMMA LocalRevokesDoneOK ==
  ASSUME GroupSets, NEW p \in SP, NEW c, SpOK(p, c)
  PROVE  SpOK(p, LocalRevokesDone(c)) /\ LocalRevokesDone(c).num = c.num
<1> DEFINE t == Append(c.toPeers, RevokeMsg(c.revoked, c.num))
           d == [c EXCEPT !.toPeers = t]
<1>1. t \in Seq(PeerMsgs(p))
  <2>1. RevokeMsg(c.revoked, c.num) \in PeerMsgs(p)
    BY Zenon DEF RevokeMsg, PeerMsgs, SpRevokeMsgs, SpOK, SpCaches
  <2> QED
    BY <2>1 DEF SpOK, SpCaches
<1>2. LocalRevokesDone(c) = IF c.local = c.sp_ranks THEN HandlePendingRevokes(d) ELSE c
  <2>1. [c EXCEPT !.toPeers = Append(@, RevokeMsg(c.revoked, c.num))] = d
    BY Zenon DEF SpOK, SpCaches
  <2> QED
    BY <2>1, Zenon DEF LocalRevokesDone
<1> HIDE DEF t
<1>3. d \in SpCaches(p)
  BY <1>1, Zenon DEF SpOK, SpCaches
<1>4. SameForInv(c, d)
  BY Zenon DEF SameForInv, SpOK, SpCaches
<1> HIDE DEF d
<1> QED
  BY <1>2, <1>3, <1>4, SameForInvOK, HandlePendingRevokesOK, SMTT(30) DEF SpOK, SameForInv

\* handle_revoke_group_rank_through_rank_info keeps the cache of an SP
\* consistent.
LEMMA HandleRankRevokeOK ==
  ASSUME GroupSets, NEW p \in SP, NEW c, SpOK(p, c), NEW m \in RankRevokeMsgs(SpRanks(p))
  PROVE  SpOK(p, HandleRankRevoke(c, m)) /\ HandleRankRevoke(c, m).num = c.num
<1> DEFINE F == Unless(c.entries[m.rank] # 0, "revoke_in_cache")
                  \cup Unless(m.rank \notin c.revoked, "revoked_twice")
           G == Unless(m.seq = c.num, "rank_revoke_seq")
           d == [c EXCEPT !.failed = @ \cup F]
           b == [d EXCEPT !.failed = @ \cup G]
           v == b.revoked \cup {m.rank}
           l == b.local + 1
           k == b.global + 1
           x == [b EXCEPT !.revoked = v, !.local = l, !.global = k]
           e == LocalRevokesDone(x)
           z == Append(d.pending_revokes_from_ranks, m)
           w == [d EXCEPT !.pending_revokes_from_ranks = z]
<1>1. F \subseteq {"revoke_in_cache", "revoked_twice"} /\ G \subseteq {"rank_revoke_seq"}
  BY Zenon DEF Unless
<1>2. SpOK(p, d) /\ d.num = c.num
  <2>1. F \in SUBSET (Names \ {"cache_populated", "revoke_posted"})
    BY <1>1, Zenon DEF Names
  <2> HIDE DEF F
  <2> QED
    BY <2>1, FailOK, SMTT(30) DEF SameForInv
<1>3. SpOK(p, b) /\ b.num = c.num
  <2>1. G \in SUBSET (Names \ {"cache_populated", "revoke_posted"})
    BY <1>1, Zenon DEF Names
  <2> HIDE DEF G, d
  <2> QED
    BY <1>2, <2>1, FailOK, SMTT(30) DEF SameForInv
<1>4. HandleRankRevoke(c, m)
        = IF c.group_size # c.num_local_entries THEN w
          ELSE IF FinalRevokeDue(e) THEN SendFinalRevoke(e) ELSE e
  <2> DEFINE x0 == [d EXCEPT !.revoked = @ \cup {m.rank}, !.local = @ + 1, !.global = @ + 1,
                             !.failed = @ \cup G]
             w0 == [d EXCEPT !.pending_revokes_from_ranks = Append(@, m)]
  <2>0. HandleRankRevoke(c, m)
        = IF c.group_size # c.num_local_entries THEN w0
          ELSE IF FinalRevokeDue(LocalRevokesDone(x0)) THEN SendFinalRevoke(LocalRevokesDone(x0))
          ELSE LocalRevokesDone(x0)
    BY Zenon DEF HandleRankRevoke
  <2>1. x0 = x
    <3> HIDE DEF d, G
    <3> QED
      BY <1>2, ZenonT(30) DEF SpOK, SpCaches
  <2>2. w0 = w
    <3> HIDE DEF d
    <3> QED
      BY <1>2, Zenon DEF SpOK, SpCaches
  <2> QED
    <3> HIDE DEF x0, w0, x, w
    <3> QED
      BY <2>0, <2>1, <2>2, Zenon
<1> HIDE DEF d, b, F, G
<1>5. m.rank \in Group
  BY Zenon DEF RankRevokeMsgs, SpRanks
<1>6. SpOK(p, x) /\ x.num = c.num
  <2>0. b.revoked \subseteq Group /\ b.local \in Nat /\ b.global \in Nat
    BY <1>3, Zenon DEF SpOK, SpCaches
  <2>1. v \in SUBSET Group /\ l \in Nat /\ k \in Nat
    BY <2>0, <1>5
  <2> HIDE DEF v, l, k
  <2>2. x \in SpCaches(p)
    BY <1>3, <2>1, Zenon DEF SpOK, SpCaches
  <2>3. SameForInv(b, x)
    BY <1>3, Zenon DEF SameForInv, SpOK, SpCaches
  <2> HIDE DEF x
  <2> QED
    BY <1>3, <2>2, <2>3, SameForInvOK, SMTT(30) DEF SpOK, SameForInv
<1>7. SpOK(p, e) /\ e.num = c.num
  <2> HIDE DEF x
  <2> QED
    BY <1>6, LocalRevokesDoneOK, Zenon
<1>8. SpOK(p, w) /\ w.num = c.num
  <2>1. z \in Seq(RankRevokeMsgs(SpRanks(p)))
    BY <1>2 DEF SpOK, SpCaches
  <2> HIDE DEF z
  <2>2. w \in SpCaches(p)
    BY <1>2, <2>1, Zenon DEF SpOK, SpCaches
  <2>3. SameForInv(d, w)
    BY <1>2, Zenon DEF SameForInv, SpOK, SpCaches
  <2> HIDE DEF w
  <2> QED
    BY <1>2, <2>2, <2>3, SameForInvOK, SMTT(30) DEF SpOK, SameForInv
<1> HIDE DEF e, w
<1> QED
  BY <1>4, <1>7, <1>8, SendFinalRevokeOK, Zenon DEF FinalRevokeDue

\* group_cache_send_to_local_ranks_cb keeps the cache of an SP consistent.
LEMMA CacheSentOK ==
  ASSUME GroupSets, NEW p \in SP, NEW c, SpOK(p, c)
  PROVE  SpOK(p, CacheSent(c)) /\ CacheSent(c).num = c.num
<1> DEFINE n == c.num
           b == [c EXCEPT !.sent_to_host = n]
           d == HandlePendingRevokes(b)
<1>1. CacheSent(c) = IF ~(PendingRevokes(c) \subseteq c.revoked) /\ FinalRevokeDue(d)
                     THEN SendFinalRevoke(d) ELSE d
  BY Zenon DEF CacheSent
<1>2. n \in Nat
  BY Zenon DEF SpOK, SpCaches
<1> HIDE DEF n
<1>3. b \in SpCaches(p)
  BY <1>2, Zenon DEF SpOK, SpCaches
<1>4. SameForInv(c, b)
  BY Zenon DEF SameForInv, SpOK, SpCaches
<1> HIDE DEF b
<1>5. SpOK(p, d) /\ d.num = c.num
  BY <1>3, <1>4, SameForInvOK, HandlePendingRevokesOK, Zenon DEF SpOK, SameForInv
<1> HIDE DEF d
<1> QED
  BY <1>1, <1>5, SendFinalRevokeOK, Zenon DEF FinalRevokeDue

\* revoke_send_to_host_cb: the cache is reset once its final revoke completed,
\* and what waited for that is handled.
LEMMA RevokeSentOK ==
  ASSUME GroupSets, NEW p \in SP, NEW c, SpOK(p, c), c.num = c.revoke_posted, RevokesOf(c) = {}
  PROVE  SpOK(p, RevokeSent(p, c)) /\ Forward(c, RevokeSent(p, c))
<1> DEFINE d == Clean(c)
           e == HandlePendingEntries(p, d)
<1>1. RevokeSent(p, c) = HandlePendingAdds(p, e)
  BY Zenon DEF RevokeSent, RevokeSpCache, Clean
<1>2. SpOK(p, d) /\ d.global = 0 /\ d.num = c.num /\ d.revoke_posted = c.revoke_posted
  BY CleanOK, Zenon DEF Cleaned
<1> HIDE DEF d
<1>3. SpOK(p, e) /\ e.global = 0 /\ Forward(d, e)
  BY <1>2, HandlePendingEntriesOK, Zenon
<1> HIDE DEF e
<1> QED
  <2>1. SpOK(p, HandlePendingAdds(p, e)) /\ Forward(e, HandlePendingAdds(p, e))
    BY <1>3, HandlePendingAddsOK, Zenon
  <2>2. c.num \in Nat /\ e.num \in Nat /\ HandlePendingAdds(p, e).num \in Nat
    BY <1>3, <2>1, Zenon DEF SpOK, SpCaches
  <2> QED
    BY <1>1, <1>2, <1>3, <2>1, <2>2, SMTT(30) DEF Forward

-----------------------------------------------------------------------------
(* The handlers of a rank's process *)

\* do_send_add_group_rank_request: the message has a proper version.
LEMMA AddSelfOK ==
  ASSUME GroupSets, NEW h, HostOK(h), NEW r \in Group
  PROVE  LET d == AddSelf(h, r)
         IN  /\ HostOK(d) /\ AddMsg(r, d.num) \in RankMsgs(r)
             /\ d.pending_send_adds = h.pending_send_adds
<1> DEFINE n == IF h.num_local_entries = 0 THEN h.num + 1 ELSE h.num
           d == StoreEntries(h, Entry(r, n))
<1>1. n \in Nat /\ n # 0
  BY DEF HostOK, HostCaches, HostCacheInv
<1>2. AddSelf(h, r) = d
  BY Zenon DEF AddSelf
<1> HIDE DEF n
<1>3. Entry(r, n) \in EntriesOf(Group)
  BY <1>1, Zenon DEF Entry, EntriesOf, Held
<1>4. HostOK(d) /\ d.num # 0 /\ d.pending_send_adds = h.pending_send_adds
  BY <1>3, HostStoreOK, Zenon
<1> HIDE DEF d
<1>5. d.num \in Version
  BY <1>4, Zenon DEF HostOK, HostCaches, Version
<1> QED
  BY <1>2, <1>4, <1>5, Zenon DEF AddMsg, RankMsgs, AddMsgs

-----------------------------------------------------------------------------
(* Channels and meta-events *)

\* A sequence without its i-th element: where its j-th element comes from.
Shift(i, j) == IF j < i THEN j ELSE j + 1

\* What is left of a sequence without its i-th element.
LEMMA WithoutIth ==
  ASSUME NEW S, NEW s \in Seq(S), NEW i \in DOMAIN s
  PROVE  LET t == SubSeq(s, 1, i - 1) \o SubSeq(s, i + 1, Len(s))
         IN  /\ t \in Seq(S) /\ DOMAIN t \subseteq Nat
             /\ \A j \in DOMAIN t :
                  Shift(i, j) \in DOMAIN s /\ Shift(i, j) # i /\ t[j] = s[Shift(i, j)]
<1> DEFINE n == Len(s)
           a == SubSeq(s, 1, i - 1)
           b == SubSeq(s, i + 1, n)
           t == a \o b
<1>1. i \in 1 .. n /\ n \in Nat /\ DOMAIN s = 1 .. n
  OBVIOUS
<1>2. a \in Seq(S) /\ Len(a) = i - 1 /\ \A j \in 1 .. i - 1 : a[j] = s[j]
  BY <1>1
<1>3. b \in Seq(S) /\ Len(b) = n - i /\ \A j \in 1 .. n - i : b[j] = s[i + j]
  BY <1>1, SMTT(30)
<1> HIDE DEF a, b, n
<1>4. /\ t \in Seq(S) /\ Len(t) = Len(a) + Len(b)
      /\ \A j \in 1 .. Len(a) + Len(b) : t[j] = IF j <= Len(a) THEN a[j] ELSE b[j - Len(a)]
  BY <1>2, <1>3, ConcatProperties, Zenon
<1> HIDE DEF t
<1>5. DOMAIN t = 1 .. n - 1
  BY <1>1, <1>2, <1>3, <1>4, SMTT(30)
<1>6. \A j \in 1 .. n - 1 : t[j] = IF j <= i - 1 THEN a[j] ELSE b[j - (i - 1)]
  BY <1>1, <1>2, <1>3, <1>4, SMTT(30)
<1>7. ASSUME NEW j \in 1 .. n - 1
      PROVE  Shift(i, j) \in DOMAIN s /\ Shift(i, j) # i /\ t[j] = s[Shift(i, j)]
  <2>1. CASE j < i
    BY <2>1, <1>1, <1>2, <1>6, SMTT(30) DEF Shift
  <2>2. CASE ~(j < i)
    <3> DEFINE l == j - (i - 1)
    <3>1. l \in 1 .. n - i /\ i + l = j + 1 /\ t[j] = b[l]
      BY <2>2, <1>1, <1>6, SMTT(30)
    <3> HIDE DEF l
    <3>2. t[j] = s[j + 1]
      BY <3>1, <1>3, Zenon
    <3> QED
      BY <2>2, <3>2, <1>1, SMTT(30) DEF Shift
  <2> QED
    BY <2>1, <2>2, Zenon
<1>8. t \in Seq(S) /\ DOMAIN t \subseteq Nat
  BY <1>1, <1>4, <1>5, SMTT(30)
<1> QED
  BY <1>5, <1>7, <1>8, Zenon DEF t, a, b, n

\* When a meta-event completes, the cache stays consistent; when it was that of
\* the final revoke, no other final revoke is ongoing.
LEMMA CompleteOK ==
  ASSUME NEW p \in SP, NEW c, SpOK(p, c), NEW i \in DOMAIN c.ongoing
  PROVE  LET d == [c EXCEPT !.ongoing = SubSeq(@, 1, i - 1) \o SubSeq(@, i + 1, Len(@))]
         IN  /\ SpOK(p, d) /\ d.num = c.num /\ d.revoke_posted = c.revoke_posted
             /\ c.ongoing[i] # "cache" => d.num = d.revoke_posted /\ RevokesOf(d) = {}
<1> DEFINE S == {"cache", "revoke"}
           o == c.ongoing
           t == SubSeq(o, 1, i - 1) \o SubSeq(o, i + 1, Len(o))
           d == [c EXCEPT !.ongoing = t]
           T == {j \in DOMAIN t : t[j] = "revoke"}
<1>1. o \in Seq(S) /\ i \in DOMAIN o
  BY Zenon DEF SpOK, SpCaches
<1>2. [c EXCEPT !.ongoing = SubSeq(@, 1, i - 1) \o SubSeq(@, i + 1, Len(@))] = d
  BY Zenon DEF SpOK, SpCaches
<1> HIDE DEF t
<1>3. /\ t \in Seq(S) /\ DOMAIN t \subseteq Nat
      /\ \A j \in DOMAIN t : Shift(i, j) \in DOMAIN o /\ Shift(i, j) # i /\ t[j] = o[Shift(i, j)]
  <2> HIDE DEF o, S
  <2> QED
    BY <1>1, WithoutIth, Zenon DEF t
<1>4. \A j \in T : Shift(i, j) \in RevokesOf(c) /\ j \in Nat
  BY <1>3, Zenon DEF RevokesOf
<1>5. \A j, k \in T : j = k
  <2> SUFFICES ASSUME NEW j \in T, NEW k \in T PROVE j = k
    BY SMTT(30)
  <2>1. Shift(i, j) = Shift(i, k)
    BY <1>4, Zenon DEF SpOK, SpCacheInv
  <2>2. i \in Nat
    BY <1>1, SMTT(30)
  <2> QED
    BY <1>4, <2>1, <2>2, SMTT(30) DEF Shift
<1>6. o[i] # "cache" => T = {} /\ c.num = c.revoke_posted
  <2> SUFFICES ASSUME o[i] # "cache" PROVE T = {} /\ c.num = c.revoke_posted
    BY Zenon
  <2>1. i \in RevokesOf(c)
    BY <1>1, SMTT(30) DEF RevokesOf
  <2>2. \A j \in T : Shift(i, j) = i
    BY <1>4, <2>1, Zenon DEF SpOK, SpCacheInv
  <2>3. \A j \in T : Shift(i, j) # i
    BY <1>3, Zenon
  <2> QED
    BY <2>1, <2>2, <2>3, Zenon DEF SpOK, SpCacheInv
<1>7. T # {} => RevokesOf(c) # {}
  BY <1>4, Zenon
<1>8. d \in SpCaches(p)
  BY <1>3, Zenon DEF SpOK, SpCaches
<1>9. /\ d.group_size = c.group_size /\ d.num = c.num /\ d.entries = c.entries
      /\ d.num_local_entries = c.num_local_entries /\ d.failed = c.failed
      /\ d.n_local_ranks_populated = c.n_local_ranks_populated
      /\ d.revoke_posted = c.revoke_posted /\ d.ongoing = t /\ d.toHosts = c.toHosts
  BY Zenon DEF SpOK, SpCaches
<1>10. RevokesOf(d) = T
  BY <1>9, Zenon DEF RevokesOf
<1> HIDE DEF d, T
<1>11. SpCacheInv(p, d)
  BY <1>5, <1>7, <1>9, <1>10, SMTT(30) DEF SpOK, SpCacheInv
<1> QED
  BY <1>2, <1>6, <1>8, <1>9, <1>10, <1>11, Zenon DEF SpOK

-----------------------------------------------------------------------------
(* The inductive invariant: TypeOK and LifecycleInv, arranged by variable. *)

\* The two invariants follow from it.
LEMMA IInvImplies == IInv => TypeOK /\ LifecycleInv
BY Zenon DEF IInv, SpPart, HostPart, FromPart, ToPart, PeersOK, SpOK, HostOK, TypeOK, LifecycleInv

\* What VersionStep says of one SP.
Step(c, d) == d.num # c.num => d.num = c.num + 1 /\ c.revoke_posted = c.num

\* Going forward, or staying, is such a step.
LEMMA ForwardIsStep ==
  ASSUME NEW p, NEW c, NEW d, SpOK(p, c), SpOK(p, d), Forward(c, d) \/ d.num = c.num
  PROVE  Step(c, d)
<1>1. c.num \in Nat /\ d.num \in Nat /\ c.revoke_posted \in Nat /\ d.revoke_posted \in Nat
  BY Zenon DEF SpOK, SpCaches
<1> QED
  BY <1>1, SMTT(30) DEF SpOK, SpCacheInv, Forward, Step

SpSteps == \A p \in SP : Step(sp[p], sp'[p])

\* Running a handler on SP p that leaves the cache d.
LEMMA CommitOK ==
  ASSUME IInv, NEW p \in SP, NEW d, SpOK(p, d), Step(sp[p], d), Commit(p, d)
  PROVE  SpPart' /\ ToPart' /\ SpSteps
<1> DEFINE z == <<>>
           e == [d EXCEPT !.toPeers = z, !.toHosts = z]
<1>1. /\ z \in Seq(PeerMsgs(p)) /\ z \in Seq(HostMsgs)
      /\ \A i \in DOMAIN z : Complete(z[i])
  OBVIOUS
<1>2. sp' = [sp EXCEPT ![p] = e]
  BY Zenon DEF Commit
<1> HIDE DEF z
<1>3. e \in SpCaches(p)
  BY <1>1, Zenon DEF SpOK, SpCaches
<1>4. /\ e.group_size = d.group_size /\ e.num = d.num /\ e.entries = d.entries
      /\ e.num_local_entries = d.num_local_entries /\ e.failed = d.failed
      /\ e.n_local_ranks_populated = d.n_local_ranks_populated
      /\ e.revoke_posted = d.revoke_posted /\ e.ongoing = d.ongoing /\ e.toHosts = z
      /\ e.toPeers = z
  BY Zenon DEF SpOK, SpCaches
<1> HIDE DEF e
<1>5. SpCacheInv(p, e)
  BY <1>1, <1>4, SMTT(30) DEF SpOK, SpCacheInv, RevokesOf
<1>6. SpOK(p, e) /\ e.toPeers = <<>> /\ e.toHosts = <<>> /\ Step(sp[p], e)
  BY <1>3, <1>4, <1>5, Zenon DEF SpOK, Step, z
<1>7. SpPart'
  BY <1>2, <1>6, Zenon DEF IInv, SpPart
<1>8. SpSteps
  BY <1>2, <1>6, Zenon DEF IInv, SpPart, SpSteps, Step
<1>9. ToPart'
  <2>1. d.toHosts \in Seq(HostMsgs) /\ \A i \in DOMAIN d.toHosts : Complete(d.toHosts[i])
    BY Zenon DEF SpOK, SpCaches, SpCacheInv
  <2>2. ASSUME NEW r \in Rank
        PROVE  /\ toRank[r] \o d.toHosts \in Seq(HostMsgs)
               /\ \A i \in DOMAIN (toRank[r] \o d.toHosts) : Complete((toRank[r] \o d.toHosts)[i])
    <3> DEFINE a == toRank[r]
               b == d.toHosts
               t == a \o b
    <3>1. a \in Seq(HostMsgs) /\ \A i \in DOMAIN a : Complete(a[i])
      BY Zenon DEF IInv, ToPart
    <3> HIDE DEF a, b
    <3>2. b \in Seq(HostMsgs) /\ \A i \in DOMAIN b : Complete(b[i])
      BY <2>1, Zenon DEF b
    <3>3. /\ t \in Seq(HostMsgs) /\ Len(t) = Len(a) + Len(b)
          /\ \A i \in 1 .. Len(a) + Len(b) : t[i] = IF i <= Len(a) THEN a[i] ELSE b[i - Len(a)]
      BY <3>1, <3>2, ConcatProperties
    <3> HIDE DEF t
    <3>4. ASSUME NEW i \in DOMAIN t PROVE Complete(t[i])
      <4>1. CASE i <= Len(a)
        BY <4>1, <3>1, <3>3, SMTT(30)
      <4>2. CASE ~(i <= Len(a))
        <5>1. i - Len(a) \in DOMAIN b /\ t[i] = b[i - Len(a)]
          BY <4>2, <3>1, <3>2, <3>3, SMTT(30)
        <5> QED
          BY <5>1, <3>2, Zenon
      <4> QED
        BY <4>1, <4>2, Zenon
    <3> QED
      BY <3>3, <3>4, Zenon DEF t, a, b
  <2>3. toRank' = [r \in Rank |-> IF r \in Clients(p) THEN toRank[r] \o d.toHosts ELSE toRank[r]]
    BY Zenon DEF Commit
  <2>4. ASSUME NEW r \in Rank
        PROVE  /\ toRank'[r] \in Seq(HostMsgs)
               /\ \A i \in DOMAIN (toRank'[r]) : Complete(toRank'[r][i])
    <3>1. CASE r \in Clients(p)
      <4>1. toRank'[r] = toRank[r] \o d.toHosts
        BY <3>1, <2>3, Zenon
      <4> QED
        BY <4>1, <2>2, Zenon
    <3>2. CASE r \notin Clients(p)
      <4>1. toRank'[r] = toRank[r]
        BY <3>2, <2>3
      <4> QED
        BY <4>1, Zenon DEF IInv, ToPart
    <3> QED
      BY <3>1, <3>2, Zenon
  <2>5. DOMAIN toRank' = Rank
    BY <2>3, Zenon
  <2> QED
    BY <2>4, <2>5, SMTT(30) DEF ToPart
<1> QED
  BY <1>7, <1>8, <1>9, Zenon

\* Messages to all the other SPs, sent on well-formed channels.
LEMMA SendToPeersOK ==
  ASSUME NEW p \in SP, NEW d, SpOK(p, d), NEW net, PeersOK(net), SendToPeers(p, d, net)
  PROVE  PeersOK(peer)'
<1> DEFINE row == [q \in SP |-> IF q = p THEN net[p][q] ELSE net[p][q] \o d.toPeers]
<1>1. peer' = [net EXCEPT ![p] = row]
  BY Zenon DEF SendToPeers
<1>2. d.toPeers \in Seq(PeerMsgs(p))
  BY Zenon DEF SpOK, SpCaches
<1>3. \A q \in SP : net[p][q] \o d.toPeers \in Seq(PeerMsgs(p))
  BY <1>2, ConcatProperties, SMTT(30) DEF PeersOK
<1>4. /\ DOMAIN row = SP /\ row[p] = <<>>
      /\ \A q \in SP : row[q] \in Seq(PeerMsgs(p))
  BY <1>3, Zenon DEF PeersOK
<1> HIDE DEF row
<1> QED
  BY <1>1, <1>4, Zenon DEF PeersOK

-----------------------------------------------------------------------------
(* One lemma per action *)

Good == IInv' /\ SpSteps

\* An action that leaves the SPs alone.
LEMMA NoSpStep ==
  ASSUME IInv, UNCHANGED sp
  PROVE  SpPart' /\ SpSteps
BY Zenon DEF IInv, SpPart, SpSteps, Step

\* Before the group is first created nothing is cached, queued or in flight.
LEMMA InitOK ==
  ASSUME GroupSets, Init
  PROVE  IInv
<1>1. EmptyEntries \in [Group -> Nat] /\ Held(EmptyEntries) = {} /\ Cardinality({}) = 0
  BY GroupFinite, Zenon DEF EmptyEntries, Held
<1>2. HostOK(NewHostCache) /\ NewHostCache.pending_send_adds = 0
  BY <1>1, SMTT(30) DEF HostOK, HostCaches, HostCacheInv, NewHostCache
<1>3. ASSUME NEW p \in SP
      PROVE  SpOK(p, NewSpCache) /\ NewSpCache.toPeers = <<>> /\ NewSpCache.toHosts = <<>>
  <2>1. NewSpCache \in SpCaches(p)
    BY <1>1 DEF SpCaches, NewSpCache
  <2>2. Held(EmptyEntries) \cap SpRanks(p) = {}
    BY <1>1, Zenon
  <2>3. /\ NewSpCache.num = 0 /\ NewSpCache.revoke_posted = 0
        /\ NewSpCache.entries = EmptyEntries /\ NewSpCache.num_local_entries = 0
        /\ NewSpCache.n_local_ranks_populated = 0 /\ NewSpCache.failed = {}
        /\ DOMAIN NewSpCache.ongoing = {} /\ DOMAIN NewSpCache.toHosts = {}
    BY DEF NewSpCache
  <2>4. RevokesOf(NewSpCache) = {}
    BY <2>3, Zenon DEF RevokesOf
  <2>5. SpCacheInv(p, NewSpCache)
    <3> HIDE DEF NewSpCache, RevokesOf
    <3> QED
      BY <1>1, <2>2, <2>3, <2>4, SMTT(30) DEF SpCacheInv
  <2> QED
    BY <2>1, <2>5, Zenon DEF SpOK, NewSpCache
<1>4. SpPart
  BY <1>3, Zenon DEF Init, SpPart
<1>5. HostPart
  BY <1>2, Zenon DEF Init, HostPart
<1>6. FromPart /\ ToPart /\ PeersOK(peer)
  BY DEF Init, FromPart, ToPart, PeersOK
<1> QED
  BY <1>4, <1>5, <1>6 DEF IInv

\* send_add_group_rank_request: adding oneself, or waiting for the final revoke.
LEMMA CreateOK ==
  ASSUME GroupSets, IInv, NEW r \in Rank, Create(r)
  PROVE  Good
<1> DEFINE n == host[r].creates + 1
           h == [host[r] EXCEPT !.creates = n]
           k == host[r].pending_send_adds + 1
           w == [h EXCEPT !.pending_send_adds = k]
<1>1. HostOK(host[r]) /\ r \in Group
  BY Zenon DEF IInv, HostPart, Create
<1>2. [host[r] EXCEPT !.creates = @ + 1] = h
  BY <1>1, Zenon DEF HostOK, HostCaches
<1>3. n \in Nat /\ k \in Nat
  <2>1. host[r].creates \in Nat /\ host[r].pending_send_adds \in Nat
    BY <1>1, Zenon DEF HostOK, HostCaches
  <2> QED
    BY <2>1
<1> HIDE DEF n
<1>4. h \in HostCaches
  BY <1>1, <1>3, Zenon DEF HostOK, HostCaches
<1>5. /\ h.num = host[r].num /\ h.entries = host[r].entries /\ h.group_size = host[r].group_size
      /\ h.num_local_entries = host[r].num_local_entries
      /\ h.pending_send_adds = host[r].pending_send_adds
  BY <1>1, Zenon DEF HostOK, HostCaches
<1>6. [h EXCEPT !.pending_send_adds = @ + 1] = w
  BY <1>4, <1>5, Zenon DEF HostCaches
<1> HIDE DEF h, k
<1>7. HostOK(h)
  BY <1>1, <1>4, <1>5, Zenon DEF HostOK, HostCacheInv
<1>8. w \in HostCaches
  BY <1>4, <1>3, Zenon DEF HostCaches
<1>9. /\ w.num = h.num /\ w.entries = h.entries /\ w.group_size = h.group_size
      /\ w.num_local_entries = h.num_local_entries
  BY <1>4, Zenon DEF HostCaches
<1> HIDE DEF w
<1>10. HostOK(w)
  BY <1>7, <1>8, <1>9, Zenon DEF HostOK, HostCacheInv
<1>11. HostOK(AddSelf(h, r)) /\ AddMsg(r, AddSelf(h, r).num) \in RankMsgs(r)
  BY <1>1, <1>7, AddSelfOK, Zenon
<1>12. \/ /\ host' = [host EXCEPT ![r] = AddSelf(h, r)]
          /\ fromRank' = [fromRank EXCEPT ![r] = Append(@, AddMsg(r, AddSelf(h, r).num))]
       \/ host' = [host EXCEPT ![r] = w] /\ fromRank' = fromRank
  <2> DEFINE h0 == [host[r] EXCEPT !.creates = @ + 1]
             w0 == [h0 EXCEPT !.pending_send_adds = @ + 1]
  <2>1. \/ /\ host' = [host EXCEPT ![r] = AddSelf(h0, r)]
           /\ fromRank' = [fromRank EXCEPT ![r] = Append(@, AddMsg(r, AddSelf(h0, r).num))]
        \/ host' = [host EXCEPT ![r] = w0] /\ fromRank' = fromRank
    BY Zenon DEF Create
  <2>2. h0 = h
    BY <1>2, Zenon
  <2> HIDE DEF h0
  <2> QED
    BY <2>1, <2>2, <1>6, Zenon
<1>13. HostPart'
  BY <1>1, <1>10, <1>11, <1>12, SMTT(30) DEF IInv, HostPart
<1>14. FromPart'
  <2>1. Append(fromRank[r], AddMsg(r, AddSelf(h, r).num)) \in Seq(RankMsgs(r))
    BY <1>11 DEF IInv, FromPart
  <2> QED
    BY <1>12, <2>1, Zenon DEF IInv, FromPart
<1>15. SpPart' /\ SpSteps /\ ToPart' /\ PeersOK(peer)'
  BY NoSpStep, Zenon DEF Create, IInv, ToPart, PeersOK
<1> QED
  BY <1>13, <1>14, <1>15, Zenon DEF Good, IInv

\* send_revoke_group_rank_request_through_rank_info.
LEMMA FreeOK ==
  ASSUME IInv, NEW r \in Rank, Free(r)
  PROVE  Good
<1> DEFINE n == host[r].frees + 1
           l == host[r].local + 1
           k == host[r].global + 1
           a == [host[r] EXCEPT !.frees = n]
           b == [host[r] EXCEPT !.frees = n, !.local = l, !.global = k]
           m == RankRevokeMsg(r, host[r].num)
<1>1. HostOK(host[r]) /\ r \in Group /\ DOMAIN host = Rank
  BY Zenon DEF IInv, HostPart, Free
<1>2. n \in Nat /\ l \in Nat /\ k \in Nat /\ host[r].num \in Nat
  BY <1>1, SMTT(30) DEF HostOK, HostCaches
<1>3. m \in RankMsgs(r)
  BY <1>1, <1>2, Zenon DEF RankRevokeMsg, RankMsgs, RankRevokeMsgs
<1>4. \/ host' = [host EXCEPT ![r] = a] /\ fromRank' = fromRank
      \/ host' = [host EXCEPT ![r] = b] /\ fromRank' = [fromRank EXCEPT ![r] = Append(@, m)]
  BY <1>1, Zenon DEF Free, HostOK, HostCaches
<1> HIDE DEF n, l, k, m
<1>5. a \in HostCaches /\ b \in HostCaches
  BY <1>1, <1>2, Zenon DEF HostOK, HostCaches
<1>6. \A x \in {a, b} :
        /\ x.num = host[r].num /\ x.entries = host[r].entries
        /\ x.group_size = host[r].group_size
        /\ x.num_local_entries = host[r].num_local_entries
  BY <1>1, Zenon DEF HostOK, HostCaches
<1> HIDE DEF a, b
<1>7. HostOK(a) /\ HostOK(b)
  BY <1>1, <1>5, <1>6, Zenon DEF HostOK, HostCacheInv
<1>8. HostPart'
  BY <1>1, <1>4, <1>7, Zenon DEF IInv, HostPart
<1>9. FromPart'
  <2>1. Append(fromRank[r], m) \in Seq(RankMsgs(r))
    BY <1>3 DEF IInv, FromPart
  <2> QED
    BY <1>4, <2>1, Zenon DEF IInv, FromPart
<1>10. SpPart' /\ SpSteps /\ ToPart' /\ PeersOK(peer)'
  BY NoSpStep, Zenon DEF Free, IInv, ToPart, PeersOK
<1> QED
  BY <1>8, <1>9, <1>10 DEF Good, IInv

\* add_group_rank_recv_cb.
LEMMA RecvAddOK ==
  ASSUME GroupSets, IInv, NEW r \in Rank, RecvAdd(r)
  PROVE  Good
<1> DEFINE p == spOf[r]
           m == Head(fromRank[r])
           F == Unless(m.seq >= sp[p].num, "add_seq")
           c == [sp[p] EXCEPT !.failed = @ \cup F]
           x == Append(c.pending_adds, m)
           q == [c EXCEPT !.pending_adds = x]
           d == IF c.global > 0 THEN q ELSE AddLocalRanks(p, c, Entry(r, m.seq))
<1>1. HostPart' /\ FromPart' /\ m \in RankMsgs(r) /\ p \in SP
  BY RankMsgOK, Zenon DEF RecvAdd
<1>2. r \in SpRanks(p) /\ m \in AddMsgs(SpRanks(p)) /\ m.seq \in Nat /\ m.seq # 0
  <2>1. m.type = "add"
    BY Zenon DEF RecvAdd
  <2>2. m \in AddMsgs({r} \cap Group)
    BY <1>1, <2>1, Zenon DEF RankMsgs, RankRevokeMsgs
  <2>3. r \in Group
    BY <2>2, Zenon DEF AddMsgs
  <2> QED
    BY <2>2, <2>3, Zenon DEF SpRanks, AddMsgs, Version
<1>3. Entry(r, m.seq) \in EntriesOf(SpRanks(p))
  BY <1>2, Zenon DEF Entry, EntriesOf, Held, SpRanks
<1>4. SpOK(p, sp[p])
  BY <1>1, Zenon DEF IInv, SpPart
<1>5. F \in SUBSET (Names \ {"cache_populated", "revoke_posted"})
  BY Zenon DEF Unless, Names
<1>6. Commit(p, d) /\ SendToPeers(p, d, peer)
  <2> DEFINE d0 == IF c.global > 0 THEN [c EXCEPT !.pending_adds = Append(@, m)]
                   ELSE AddLocalRanks(p, c, Entry(r, m.seq))
  <2>1. Commit(p, d0) /\ SendToPeers(p, d0, peer)
    BY Zenon DEF RecvAdd
  <2>2. SpOK(p, c)
    <3> HIDE DEF p, F
    <3> QED
      BY <1>1, <1>4, <1>5, FailOK, SMTT(30)
  <2> HIDE DEF c
  <2>3. [c EXCEPT !.pending_adds = Append(@, m)] = q
    BY <2>2, Zenon DEF SpOK, SpCaches
  <2> QED
    BY <2>1, <2>3, Zenon
<1> HIDE DEF p, F
<1>7. SpOK(p, c) /\ c.num = sp[p].num /\ c.revoke_posted = sp[p].revoke_posted
  BY <1>1, <1>4, <1>5, FailOK, SMTT(30) DEF SameForInv
<1> HIDE DEF c, m
<1>8. SpOK(p, q) /\ q.num = c.num
  <2>1. x \in Seq(AddMsgs(SpRanks(p)))
    BY <1>2, <1>7 DEF SpOK, SpCaches
  <2> HIDE DEF x
  <2>2. q \in SpCaches(p)
    BY <1>7, <2>1, Zenon DEF SpOK, SpCaches
  <2>3. SameForInv(c, q)
    BY <1>7, Zenon DEF SameForInv, SpOK, SpCaches
  <2> HIDE DEF q
  <2> QED
    BY <1>7, <2>2, <2>3, SameForInvOK, Zenon DEF SpOK, SameForInv
<1>9. c.global \in Nat
  BY <1>7, Zenon DEF SpOK, SpCaches
<1>10. SpOK(p, d) /\ (Forward(sp[p], d) \/ d.num = sp[p].num)
  <2> HIDE DEF q
  <2>1. CASE c.global > 0
    BY <2>1, <1>7, <1>8, Zenon
  <2>2. CASE ~(c.global > 0)
    <3>1. c.global = 0
      BY <2>2, <1>9, SMTT(30)
    <3>2. SpOK(p, AddLocalRanks(p, c, Entry(r, m.seq)))
          /\ Forward(c, AddLocalRanks(p, c, Entry(r, m.seq)))
      BY <3>1, <1>1, <1>3, <1>7, AddLocalRanksOK, SMTT(30)
    <3> QED
      BY <2>2, <3>2, <1>7, Zenon DEF Forward
  <2> QED
    BY <2>1, <2>2, Zenon
<1> HIDE DEF d
<1>11. Step(sp[p], d)
  BY <1>4, <1>10, ForwardIsStep, SMTT(30)
<1>12. SpPart' /\ ToPart' /\ SpSteps
  BY <1>1, <1>6, <1>10, <1>11, CommitOK, SMTT(30)
<1>13. PeersOK(peer)'
  BY <1>1, <1>6, <1>10, SendToPeersOK, SMTT(30) DEF IInv
<1> QED
  BY <1>1, <1>12, <1>13, Zenon DEF Good, IInv

\* revoke_group_from_rank_recv_cb.
LEMMA RecvRankRevokeOK ==
  ASSUME GroupSets, IInv, NEW r \in Rank, RecvRankRevoke(r)
  PROVE  Good
<1> DEFINE p == spOf[r]
           m == Head(fromRank[r])
           d == HandleRankRevoke(sp[p], m)
<1>1. HostPart' /\ FromPart' /\ m \in RankMsgs(r) /\ p \in SP
  BY RankMsgOK, Zenon DEF RecvRankRevoke
<1>2. m \in RankRevokeMsgs(SpRanks(p))
  <2>1. m.type = "revoke"
    BY Zenon DEF RecvRankRevoke
  <2>2. m \in RankRevokeMsgs({r} \cap Group)
    BY <1>1, <2>1, Zenon DEF RankMsgs, AddMsgs
  <2> QED
    BY <2>2, Zenon DEF SpRanks, RankRevokeMsgs
<1>3. SpOK(p, sp[p])
  BY <1>1, Zenon DEF IInv, SpPart
<1>4. Commit(p, d) /\ SendToPeers(p, d, peer)
  BY Zenon DEF RecvRankRevoke
<1> HIDE DEF p, m
<1>5. SpOK(p, d) /\ d.num = sp[p].num
  BY <1>1, <1>2, <1>3, HandleRankRevokeOK, SMTT(30)
<1> HIDE DEF d
<1>6. Step(sp[p], d)
  BY <1>3, <1>5, ForwardIsStep, Zenon
<1>7. SpPart' /\ ToPart' /\ SpSteps
  BY <1>1, <1>4, <1>5, <1>6, CommitOK, SMTT(30)
<1>8. PeersOK(peer)'
  BY <1>1, <1>4, <1>5, SendToPeersOK, SMTT(30) DEF IInv
<1> QED
  BY <1>1, <1>7, <1>8, Zenon DEF Good, IInv

\* peer_cache_entries_recv_cb on an SP.
LEMMA RecvPeerEntriesOK ==
  ASSUME GroupSets, IInv, NEW p \in SP, NEW q \in SP, RecvPeerEntries(p, q)
  PROVE  Good
<1> DEFINE m == FirstEntry(Head(peer[q][p]))
           F == Unless(FirstSeq(m) >= sp[p].num, "entries_seq")
           c == CheckEntriesSeq(sp[p], m)
           x == Append(c.pending_entries, m)
           w == [c EXCEPT !.pending_entries = x]
           d == IF MustQueueEntries(c, m) THEN QueueEntries(c, m)
                ELSE HandlePeerEntries(p, c, m.entries)
           net == [peer EXCEPT ![q][p] = WithoutFirst(@)]
<1>1. peer[q][p] # <<>> /\ Head(peer[q][p]).type = "entries"
      /\ Commit(p, d) /\ SendToPeers(p, d, net) /\ UNCHANGED <<host, fromRank>>
  BY Zenon DEF RecvPeerEntries
<1>2. p # q /\ peer[q][p] \in Seq(PeerMsgs(q)) /\ DOMAIN peer = SP /\ DOMAIN peer[q] = SP
  BY <1>1, Zenon DEF IInv, PeersOK
<1>3. /\ Head(peer[q][p]) \in EntriesMsgs(SpRanks(q))
      /\ WithoutFirst(peer[q][p]) \in Seq(PeerMsgs(q))
  BY <1>1, <1>2, WithoutFirstOK, Zenon
<1>4. m \in EntriesMsgs(Group \ SpRanks(p)) /\ m.entries \in EntriesOf(Group \ SpRanks(p))
  BY <1>2, <1>3, FirstEntryOK, Zenon
<1>5. PeersOK(net)
  BY <1>2, <1>3, Zenon DEF IInv, PeersOK
<1>6. SpOK(p, sp[p])
  BY Zenon DEF IInv, SpPart
<1>7. F \in SUBSET (Names \ {"cache_populated", "revoke_posted"})
  BY Zenon DEF Unless, Names
<1>8. c = [sp[p] EXCEPT !.failed = @ \cup F]
  BY Zenon DEF CheckEntriesSeq
<1> HIDE DEF F, m, net
<1>9. SpOK(p, c) /\ c.num = sp[p].num /\ c.revoke_posted = sp[p].revoke_posted
  <2> HIDE DEF c
  <2> QED
    BY <1>6, <1>7, <1>8, FailOK, SMTT(30) DEF SameForInv
<1> HIDE DEF c
<1>10. QueueEntries(c, m) = w
  BY <1>9, Zenon DEF QueueEntries, SpOK, SpCaches
<1>11. SpOK(p, w) /\ w.num = c.num
  <2>1. x \in Seq(EntriesMsgs(Group \ SpRanks(p)))
    BY <1>4, <1>9 DEF SpOK, SpCaches
  <2> HIDE DEF x
  <2>2. w \in SpCaches(p)
    BY <1>9, <2>1, Zenon DEF SpOK, SpCaches
  <2>3. SameForInv(c, w)
    BY <1>9, Zenon DEF SameForInv, SpOK, SpCaches
  <2> HIDE DEF w
  <2> QED
    BY <1>9, <2>2, <2>3, SameForInvOK, Zenon DEF SpOK, SameForInv
<1>12. c.global \in Nat
  BY <1>9, Zenon DEF SpOK, SpCaches
<1>13. SpOK(p, d) /\ (Forward(sp[p], d) \/ d.num = sp[p].num)
  <2> HIDE DEF w
  <2>1. CASE MustQueueEntries(c, m)
    BY <2>1, <1>9, <1>10, <1>11, SMTT(30)
  <2>2. CASE ~MustQueueEntries(c, m)
    <3>1. c.global = 0
      BY <2>2, <1>12, SMTT(30) DEF MustQueueEntries
    <3>2. SpOK(p, HandlePeerEntries(p, c, m.entries))
          /\ Forward(c, HandlePeerEntries(p, c, m.entries))
      BY <3>1, <1>4, <1>9, HandlePeerEntriesOK, SMTT(30)
    <3> QED
      BY <2>2, <3>2, <1>9, SMTT(30) DEF Forward
  <2> QED
    BY <2>1, <2>2, Zenon
<1> HIDE DEF d
<1>14. Step(sp[p], d)
  BY <1>6, <1>13, ForwardIsStep, SMTT(30)
<1>15. SpPart' /\ ToPart' /\ SpSteps
  BY <1>1, <1>13, <1>14, CommitOK, SMTT(30)
<1>16. PeersOK(peer)'
  BY <1>1, <1>5, <1>13, SendToPeersOK, SMTT(30)
<1>17. HostPart' /\ FromPart'
  BY <1>1, Zenon DEF IInv, HostPart, FromPart
<1> QED
  BY <1>15, <1>16, <1>17, SMTT(30) DEF Good, IInv

\* revoke_group_from_sp_recv_cb on an SP.
LEMMA RecvSpRevokeOK ==
  ASSUME GroupSets, IInv, NEW p \in SP, NEW q \in SP, RecvSpRevoke(p, q)
  PROVE  Good
<1> DEFINE m == Head(peer[q][p])
           d == HandleSpRevoke(sp[p], m)
           net == [peer EXCEPT ![q][p] = Tail(@)]
<1>1. peer[q][p] # <<>> /\ m.type = "revoke"
      /\ Commit(p, d) /\ SendToPeers(p, d, net) /\ UNCHANGED <<host, fromRank>>
  BY Zenon DEF RecvSpRevoke
<1>2. p # q /\ peer[q][p] \in Seq(PeerMsgs(q)) /\ DOMAIN peer = SP /\ DOMAIN peer[q] = SP
  BY <1>1, Zenon DEF IInv, PeersOK
<1>3. m \in PeerMsgs(q) /\ Tail(peer[q][p]) \in Seq(PeerMsgs(q))
  BY <1>1, <1>2, SMTT(30)
<1>4. m \in SpRevokeMsgs
  BY <1>1, <1>3, SMTT(30) DEF PeerMsgs, EntriesMsgs
<1>5. PeersOK(net)
  BY <1>2, <1>3, Zenon DEF IInv, PeersOK
<1>6. SpOK(p, sp[p])
  BY Zenon DEF IInv, SpPart
<1> HIDE DEF m, net
<1>7. SpOK(p, d) /\ d.num = sp[p].num
  BY <1>4, <1>6, HandleSpRevokeOK, Zenon
<1> HIDE DEF d
<1>8. Step(sp[p], d)
  BY <1>6, <1>7, ForwardIsStep, Zenon
<1>9. SpPart' /\ ToPart' /\ SpSteps
  BY <1>1, <1>7, <1>8, CommitOK, SMTT(30)
<1>10. PeersOK(peer)'
  BY <1>1, <1>5, <1>7, SendToPeersOK, SMTT(30)
<1>11. HostPart' /\ FromPart'
  BY <1>1, Zenon DEF IInv, HostPart, FromPart
<1> QED
  BY <1>9, <1>10, <1>11, Zenon DEF Good, IInv

\* The completion callbacks of the meta-events.
LEMMA MetaEventCompletedOK ==
  ASSUME GroupSets, IInv, NEW p \in SP, NEW i \in DOMAIN sp[p].ongoing, MetaEventCompleted(p, i)
  PROVE  Good
<1> DEFINE c == [sp[p] EXCEPT !.ongoing = SubSeq(@, 1, i - 1) \o SubSeq(@, i + 1, Len(@))]
           d == IF sp[p].ongoing[i] = "cache" THEN CacheSent(c) ELSE RevokeSent(p, c)
<1>1. Commit(p, d) /\ SendToPeers(p, d, peer) /\ UNCHANGED <<host, fromRank>>
  BY Zenon DEF MetaEventCompleted
<1>2. SpOK(p, sp[p])
  BY Zenon DEF IInv, SpPart
<1>3. /\ SpOK(p, c) /\ c.num = sp[p].num /\ c.revoke_posted = sp[p].revoke_posted
      /\ sp[p].ongoing[i] # "cache" => c.num = c.revoke_posted /\ RevokesOf(c) = {}
  BY <1>2, CompleteOK, Zenon
<1> HIDE DEF c
<1>4. SpOK(p, d) /\ (Forward(sp[p], d) \/ d.num = sp[p].num)
  <2>1. CASE sp[p].ongoing[i] = "cache"
    BY <2>1, <1>3, CacheSentOK, Zenon
  <2>2. CASE sp[p].ongoing[i] # "cache"
    BY <2>2, <1>3, RevokeSentOK, Zenon DEF Forward
  <2> QED
    BY <2>1, <2>2, Zenon
<1> HIDE DEF d
<1>5. Step(sp[p], d)
  BY <1>2, <1>4, ForwardIsStep, Zenon
<1>6. SpPart' /\ ToPart' /\ SpSteps
  BY <1>1, <1>4, <1>5, CommitOK, Zenon
<1>7. PeersOK(peer)'
  BY <1>1, <1>4, SendToPeersOK, SMTT(30) DEF IInv
<1>8. HostPart' /\ FromPart'
  BY <1>1, Zenon DEF IInv, HostPart, FromPart
<1> QED
  BY <1>6, <1>7, <1>8, SMTT(30) DEF Good, IInv

\* The message that a rank takes next.
LEMMA HostMsgOK ==
  ASSUME IInv, NEW r \in Rank, toRank[r] # <<>>,
         toRank' = [toRank EXCEPT ![r] = Tail(@)], UNCHANGED <<sp, peer>>
  PROVE  /\ ToPart' /\ SpPart' /\ SpSteps /\ PeersOK(peer)'
         /\ Head(toRank[r]) \in HostMsgs
<1> DEFINE q == toRank[r]
<1>1. q \in Seq(HostMsgs) /\ \A i \in DOMAIN q : Complete(q[i])
  BY Zenon DEF IInv, ToPart
<1>2. q # <<>> /\ toRank' = [toRank EXCEPT ![r] = Tail(q)]
  BY SMTT(30)
<1> HIDE DEF q
<1>3. /\ Head(q) \in HostMsgs /\ Tail(q) \in Seq(HostMsgs)
      /\ \A i \in DOMAIN Tail(q) : Complete(Tail(q)[i])
  <2>1. \A i \in DOMAIN Tail(q) : i + 1 \in DOMAIN q /\ Tail(q)[i] = q[i + 1]
    BY <1>1, <1>2, SMTT(30)
  <2> QED
    BY <2>1, <1>1, <1>2, SMTT(30)
<1>4. ToPart'
  BY <1>2, <1>3, Zenon DEF IInv, ToPart
<1>5. SpPart' /\ SpSteps /\ PeersOK(peer)'
  BY NoSpStep, Zenon DEF IInv, PeersOK
<1> QED
  BY <1>3, <1>4, <1>5, Zenon DEF q

\* peer_cache_entries_recv_cb on the host.
LEMMA RecvCacheOK ==
  ASSUME GroupSets, IInv, NEW r \in Rank, RecvCache(r)
  PROVE  Good
<1> DEFINE m == Head(toRank[r])
           F == Unless(FirstSeq(m) >= host[r].num, "entries_seq")
           a == host[r].failed \cup F
           h == [host[r] EXCEPT !.failed = a]
           x == Append(h.pending_entries, m)
           w == [h EXCEPT !.pending_entries = x]
           d == IF MustQueueEntries(h, m) THEN w ELSE AddEntries(h, m.entries)
<1>1. ToPart' /\ SpPart' /\ SpSteps /\ PeersOK(peer)' /\ m \in HostMsgs
  BY HostMsgOK, Zenon DEF RecvCache
<1>2. HostOK(host[r])
  BY Zenon DEF IInv, HostPart
<1>3. m \in EntriesMsgs(Group) /\ m.entries \in EntriesOf(Group)
  <2>1. m.type = "entries"
    BY Zenon DEF RecvCache
  <2> QED
    BY <1>1, <2>1, Zenon DEF HostMsgs, SpRevokeMsgs, EntriesMsgs
<1>4. CheckEntriesSeq(host[r], m) = h
  BY <1>2, Zenon DEF CheckEntriesSeq, HostOK, HostCaches
<1>5. a \subseteq Names
  <2>1. F \subseteq {"entries_seq"}
    BY Zenon DEF Unless
  <2>2. host[r].failed \subseteq Names
    BY <1>2, Zenon DEF HostOK, HostCaches
  <2> QED
    BY <2>1, <2>2, Zenon DEF Names
<1>6. host' = [host EXCEPT ![r] = IF MustQueueEntries(h, m) THEN QueueEntries(h, m)
                                  ELSE AddEntries(h, m.entries)]
  <2> DEFINE h0 == CheckEntriesSeq(host[r], m)
  <2>1. host' = [host EXCEPT ![r] = IF MustQueueEntries(h0, m) THEN QueueEntries(h0, m)
                                    ELSE AddEntries(h0, m.entries)]
    BY Zenon DEF RecvCache
  <2> HIDE DEF h0, h, m
  <2>2. h0 = h
    BY <1>4, Zenon DEF h0, h
  <2> QED
    BY <2>1, <2>2, Zenon
<1> HIDE DEF a, m
<1>7. h \in HostCaches
  BY <1>2, <1>5, Zenon DEF HostOK, HostCaches
<1>8. /\ h.num = host[r].num /\ h.entries = host[r].entries /\ h.group_size = host[r].group_size
      /\ h.num_local_entries = host[r].num_local_entries
      /\ h.pending_send_adds = host[r].pending_send_adds
  BY <1>2, Zenon DEF HostOK, HostCaches
<1> HIDE DEF h
<1>9. HostOK(h)
  BY <1>2, <1>7, <1>8, SMTT(30) DEF HostOK, HostCacheInv
<1>10. QueueEntries(h, m) = w
  BY <1>7, Zenon DEF QueueEntries, HostCaches
<1>11. x \in Seq(EntriesMsgs(Group))
  BY <1>3, <1>7 DEF HostCaches
<1> HIDE DEF x
<1>12. w \in HostCaches
  BY <1>7, <1>11, Zenon DEF HostCaches
<1>13. /\ w.num = h.num /\ w.entries = h.entries /\ w.group_size = h.group_size
       /\ w.num_local_entries = h.num_local_entries
       /\ w.pending_send_adds = h.pending_send_adds
  BY <1>7, Zenon DEF HostCaches
<1> HIDE DEF w
<1>14. HostOK(w)
  BY <1>9, <1>12, <1>13, Zenon DEF HostOK, HostCacheInv
<1>15. HostOK(d) /\ d.pending_send_adds = host[r].pending_send_adds
  BY <1>3, <1>8, <1>9, <1>13, <1>14, HostAddEntriesOK, Zenon
<1>16. host' = [host EXCEPT ![r] = d]
  BY <1>6, <1>10, Zenon
<1> HIDE DEF d
<1>17. HostPart'
  BY <1>15, <1>16, Zenon DEF IInv, HostPart
<1>18. FromPart'
  BY Zenon DEF RecvCache, IInv, FromPart
<1> QED
  BY <1>1, <1>17, <1>18, SMTT(30) DEF Good, IInv

\* revoke_group_from_sp_recv_cb on the host, with the add that waited for it.
LEMMA RecvFinalRevokeOK ==
  ASSUME GroupSets, IInv, NEW r \in Rank, RecvFinalRevoke(r)
  PROVE  Good
<1> DEFINE h == RevokeHostCache(host[r])
           k == h.pending_send_adds - 1
           w == [h EXCEPT !.pending_send_adds = k]
           a == AddSelf(w, r)
<1>1. ToPart' /\ SpPart' /\ SpSteps /\ PeersOK(peer)'
  BY HostMsgOK, Zenon DEF RecvFinalRevoke
<1>2. HostOK(host[r]) /\ (host[r].pending_send_adds # 0 => r \in Group)
  BY Zenon DEF IInv, HostPart
<1>3. HostOK(h) /\ h.pending_send_adds = host[r].pending_send_adds
  BY <1>2, RevokeHostCacheOK, Zenon
<1>4. IF h.pending_send_adds > 0
      THEN LET b == AddSelf([h EXCEPT !.pending_send_adds = @ - 1], r)
           IN  /\ host' = [host EXCEPT ![r] = b]
               /\ fromRank' = [fromRank EXCEPT ![r] = Append(@, AddMsg(r, b.num))]
      ELSE host' = [host EXCEPT ![r] = h] /\ fromRank' = fromRank
  BY Zenon DEF RecvFinalRevoke
<1> HIDE DEF h
<1>5. CASE h.pending_send_adds > 0
  <2>1. k \in Nat /\ r \in Group
    <3>1. h.pending_send_adds \in Nat
      BY <1>3, Zenon DEF HostOK, HostCaches
    <3> QED
      BY <3>1, <1>2, <1>3, <1>5, SMTT(30)
  <2>2. [h EXCEPT !.pending_send_adds = @ - 1] = w
    BY <1>3, Zenon DEF HostOK, HostCaches
  <2>3. /\ host' = [host EXCEPT ![r] = a]
        /\ fromRank' = [fromRank EXCEPT ![r] = Append(@, AddMsg(r, a.num))]
    <3> DEFINE w0 == [h EXCEPT !.pending_send_adds = @ - 1]
    <3>1. /\ host' = [host EXCEPT ![r] = AddSelf(w0, r)]
          /\ fromRank' = [fromRank EXCEPT ![r] = Append(@, AddMsg(r, AddSelf(w0, r).num))]
      BY <1>4, <1>5, Zenon
    <3>2. w0 = w
      BY <2>2, Zenon
    <3> HIDE DEF w0, w
    <3> QED
      BY <3>1, <3>2, Zenon
  <2> HIDE DEF k
  <2>4. w \in HostCaches
    BY <1>3, <2>1, Zenon DEF HostOK, HostCaches
  <2>5. /\ w.num = h.num /\ w.entries = h.entries /\ w.group_size = h.group_size
        /\ w.num_local_entries = h.num_local_entries
    BY <1>3, Zenon DEF HostOK, HostCaches
  <2> HIDE DEF w
  <2>6. HostOK(w)
    BY <1>3, <2>4, <2>5, SMTT(30) DEF HostOK, HostCacheInv
  <2>7. HostOK(a) /\ AddMsg(r, a.num) \in RankMsgs(r)
    BY <2>1, <2>6, AddSelfOK, SMTT(30)
  <2> HIDE DEF a
  <2>8. HostPart'
    BY <2>1, <2>3, <2>7, SMTT(30) DEF IInv, HostPart
  <2>9. Append(fromRank[r], AddMsg(r, a.num)) \in Seq(RankMsgs(r))
    BY <2>7 DEF IInv, FromPart
  <2>10. FromPart'
    BY <2>3, <2>9, Zenon DEF IInv, FromPart
  <2> QED
    BY <1>1, <2>8, <2>10, Zenon DEF Good, IInv
<1>6. CASE ~(h.pending_send_adds > 0)
  <2>1. host' = [host EXCEPT ![r] = h] /\ fromRank' = fromRank
    BY <1>4, <1>6, Zenon
  <2>2. HostPart'
    BY <1>2, <1>3, <2>1, Zenon DEF IInv, HostPart
  <2>3. FromPart'
    BY <2>1, Zenon DEF IInv, FromPart
  <2> QED
    BY <1>1, <2>2, <2>3, Zenon DEF Good, IInv
<1> QED
  BY <1>5, <1>6, Zenon

\* Every step, and every stuttering step, preserves the invariant and is a
\* proper step of the versions.
LEMMA NextOK ==
  ASSUME GroupSets, IInv, [Next]_vars
  PROVE  Good
<1>1. CASE UNCHANGED vars
  BY <1>1, Zenon DEF vars, Good, IInv, SpPart, HostPart, FromPart, ToPart, PeersOK, SpSteps, Step
<1>2. CASE Library
  BY <1>2, RecvAddOK, RecvRankRevokeOK, RecvCacheOK, RecvFinalRevokeOK, RecvPeerEntriesOK,
     RecvSpRevokeOK, MetaEventCompletedOK, SMTT(30) DEF Library
<1>3. CASE \E r \in Rank : Application(r)
  BY <1>3, CreateOK, FreeOK, Zenon DEF Application
<1> QED
  BY <1>1, <1>2, <1>3, Zenon DEF Next, Idle

-----------------------------------------------------------------------------
(* A persistent cache: the inductive invariant.  Nothing is ever revoked, *)
(* so that all entries and messages are of the first version, nothing is  *)
(* put off, and entries are only ever added.                              *)

\* The entries, messages and adds of the first version.
FirstEntries == [Group -> {0, 1}]
FirstMsgs == [type : {"entries"}, entries : FirstEntries]
FirstAdds == [type : {"add"}, rank : Rank, seq : {1}]

\* A cache of an SP or a rank is empty or at the first version.
FirstVersion(c) ==
  /\ c.entries \in FirstEntries
  /\ c.num = IF Held(c.entries) = {} THEN 0 ELSE 1
  /\ c.global = 0 /\ c.pending_entries = <<>> /\ c.failed = {}

SpFirst(c) ==
  /\ FirstVersion(c)
  /\ c.pending_revokes_from_sps = <<>> /\ c.ongoing \in Seq({"cache"})
  /\ c.toPeers \in Seq(FirstMsgs) /\ c.toHosts \in Seq(FirstMsgs)
PeersFirst(net) == \A p, q \in SP : net[p][q] \in Seq(FirstMsgs)
PInv ==
  /\ \A p \in SP : SpFirst(sp[p])
  /\ \A r \in Rank : FirstVersion(host[r])
  /\ \A r \in Rank : fromRank[r] \in Seq(FirstAdds)
  /\ \A r \in Rank : toRank[r] \in Seq(FirstMsgs)
  /\ PeersFirst(peer)

-----------------------------------------------------------------------------
(* A persistent cache: the handlers *)

\* An SP's handler turns the cache c into d: entries are only added.
SpGrows(c, d) ==
  DOMAIN d = SpFields /\ SpFirst(d) /\ Held(c.entries) \subseteq Held(d.entries)

\* Entries of the first version, of some ranks.
SomeFirst(f) == f \in FirstEntries /\ Held(f) # {}

\* A cache with no entries is one whose count is 0.
LEMMA CountsNone ==
  ASSUME GroupSets, NEW c, c.num_local_entries = Cardinality(Held(c.entries))
  PROVE  c.num_local_entries = 0 <=> Held(c.entries) = {}
<1>1. Held(c.entries) \in SUBSET Group
  BY Zenon DEF Held
<1> QED
  BY <1>1, GroupFinite, Zenon

\* StoreEntries, of entries of the first version, in a cache that is empty or
\* at the first version: the cache is at the first version then.
LEMMA StoreFirst ==
  ASSUME GroupSets, NEW c, CommonFields \subseteq DOMAIN c, FirstVersion(c),
         c.num_local_entries = Cardinality(Held(c.entries)), NEW f, SomeFirst(f),
         NEW d, d = StoreEntries(c, f)
  PROVE  /\ FirstVersion(d) /\ d.num = 1 /\ NextNum(c, f) = 1 /\ DOMAIN d = DOMAIN c
         /\ Held(c.entries) \subseteq Held(d.entries)
         /\ \A r \in Missing(c, f) : f[r] = 1
         /\ \A x \in DOMAIN c \ {"group_size", "num", "entries", "num_local_entries"} :
              d[x] = c[x]
<1> DEFINE g == [r \in Group |-> IF c.entries[r] = 0 THEN f[r] ELSE c.entries[r]]
<1>1. f \in [Group -> {0, 1}] /\ c.entries \in [Group -> {0, 1}] /\ Held(f) # {}
  BY Zenon DEF FirstVersion, FirstEntries, SomeFirst
<1>2. g \in [Group -> {0, 1}]
  BY <1>1, Zenon
<1>3. /\ Held(c.entries) \subseteq Held(g) /\ Held(f) \subseteq Held(g)
      /\ Held(c.entries) = {} => Missing(c, f) # {}
  BY <1>1, Zenon DEF Held, Missing
<1>4. \A r \in Missing(c, f) : f[r] = 1
  BY <1>1, Zenon DEF Held, Missing
<1>5. NextNum(c, f) = 1
  <2>2. c.num_local_entries = 0 <=> Held(c.entries) = {}
    BY CountsNone, Zenon
  <2>3. c.num = IF Held(c.entries) = {} THEN 0 ELSE 1
    BY Zenon DEF FirstVersion
  <2>4. CASE Held(c.entries) = {}
    <3>1. NextNum(c, f) = c.num + 1 /\ c.num = 0
      BY <2>2, <2>3, <2>4, <1>3, Zenon DEF NextNum
    <3> QED
      BY <3>1
  <2>5. CASE Held(c.entries) # {}
    BY <2>2, <2>3, <2>5, Zenon DEF NextNum
  <2> QED
    BY <2>4, <2>5, Zenon
<1> HIDE DEF g
<1>6. /\ d.entries = g /\ d.num = 1 /\ DOMAIN d = DOMAIN c
      /\ \A x \in DOMAIN c \ {"group_size", "num", "entries", "num_local_entries"} :
           d[x] = c[x]
  BY <1>5, Zenon DEF StoreEntries, CommonFields, g
<1>7. d.global = c.global /\ d.pending_entries = c.pending_entries /\ d.failed = c.failed
  BY <1>6, Zenon DEF CommonFields
<1>8. FirstVersion(d)
  BY <1>1, <1>2, <1>3, <1>6, <1>7, Zenon DEF FirstVersion, FirstEntries
<1> QED
  BY <1>3, <1>4, <1>5, <1>6, <1>8, Zenon

\* The same for AddEntries, whose assertion holds.
LEMMA AddFirst ==
  ASSUME GroupSets, NEW c, CommonFields \subseteq DOMAIN c, FirstVersion(c),
         c.num_local_entries = Cardinality(Held(c.entries)), NEW f, SomeFirst(f),
         NEW d, d = AddEntries(c, f)
  PROVE  /\ FirstVersion(d) /\ DOMAIN d = DOMAIN c
         /\ Held(c.entries) \subseteq Held(d.entries)
         /\ \A x \in DOMAIN c \ {"group_size", "num", "entries", "num_local_entries", "failed"} :
              d[x] = c[x]
<1> DEFINE e == StoreEntries(c, f)
           F == e.failed \cup Unless(\A r \in Missing(c, f) : f[r] = NextNum(c, f), "entry_seq")
<1>0. e = StoreEntries(c, f)
  OBVIOUS
<1> HIDE DEF e
<1>1. /\ FirstVersion(e) /\ NextNum(c, f) = 1 /\ DOMAIN e = DOMAIN c
      /\ Held(c.entries) \subseteq Held(e.entries)
      /\ \A r \in Missing(c, f) : f[r] = 1
      /\ \A x \in DOMAIN c \ {"group_size", "num", "entries", "num_local_entries"} :
           e[x] = c[x]
  BY <1>0, StoreFirst, SMTT(30)
<1>2. F = {}
  BY <1>1, Zenon DEF Unless, FirstVersion
<1>3. d = [e EXCEPT !.failed = F]
  BY <1>1, Zenon DEF AddEntries, e, CommonFields
<1> HIDE DEF F
<1>4. /\ DOMAIN d = DOMAIN c /\ d.failed = {} /\ d.entries = e.entries /\ d.num = e.num
      /\ d.global = e.global /\ d.pending_entries = e.pending_entries
      /\ \A x \in DOMAIN c \ {"group_size", "num", "entries", "num_local_entries", "failed"} :
              d[x] = c[x]
  BY <1>1, <1>2, <1>3, Zenon DEF CommonFields
<1> QED
  BY <1>1, <1>4, Zenon DEF FirstVersion

\* send_gp_cache_to_host.
LEMMA SendFirst ==
  ASSUME NEW c, DOMAIN c = SpFields, SpFirst(c), c.group_size = c.num_local_entries
  PROVE  SpGrows(c, SendCacheToHost(c))
<1> DEFINE m == EntriesMsg(c.entries)
           h == Append(c.toHosts, m)
           o == Append(c.ongoing, "cache")
           d == [c EXCEPT !.toHosts = h, !.ongoing = o]
<1>1. m \in FirstMsgs
  BY Zenon DEF SpFirst, FirstVersion, FirstMsgs, EntriesMsg
<1> HIDE DEF m
<1>2. c.toHosts \in Seq(FirstMsgs) /\ c.ongoing \in Seq({"cache"})
  BY Zenon DEF SpFirst
<1>3. h \in Seq(FirstMsgs) /\ o \in Seq({"cache"})
  BY <1>1, <1>2
<1>4. Unless(Populated(c), "cache_populated") = {}
  BY Zenon DEF Unless, Populated, SpFirst, FirstVersion
<1>5. c.failed = {} /\ {} \cup {} = {}
  BY Zenon DEF SpFirst, FirstVersion
<1>6. CASE c.sent_to_host < c.num
  <2>1. SendCacheToHost(c) = [c EXCEPT !.toHosts = h, !.ongoing = o, !.failed = {}]
    BY <1>4, <1>5, <1>6, Zenon DEF SendCacheToHost, m, SpFields, CommonFields
  <2> DEFINE e == [c EXCEPT !.toHosts = h, !.ongoing = o, !.failed = {}]
  <2> HIDE DEF h, o
  <2>2. /\ DOMAIN e = SpFields /\ e.toHosts = h /\ e.ongoing = o /\ e.failed = {}
        /\ e.entries = c.entries /\ e.num = c.num /\ e.global = c.global
        /\ e.pending_entries = c.pending_entries /\ e.toPeers = c.toPeers
        /\ e.pending_revokes_from_sps = c.pending_revokes_from_sps
    BY Zenon DEF SpFields, CommonFields
  <2> HIDE DEF e
  <2>3. SpGrows(c, e)
    BY <1>3, <2>2, Zenon DEF SpGrows, SpFirst, FirstVersion
  <2> QED
    BY <2>1, <2>3, Zenon DEF e
<1>7. CASE ~(c.sent_to_host < c.num)
  BY <1>7, Zenon DEF SendCacheToHost, SpGrows
<1> QED
  BY <1>6, <1>7, Zenon

\* handle_peer_cache_entries_recv on an SP.
LEMMA HandlePeerFirst ==
  ASSUME GroupSets, NEW p \in SP, NEW c, DOMAIN c = SpFields, SpFirst(c),
         c.num_local_entries = Cardinality(Held(c.entries)), NEW f, SomeFirst(f)
  PROVE  SpGrows(c, HandlePeerEntries(p, c, f))
<1> DEFINE a == AddEntries(c, f)
<1>1. /\ FirstVersion(a) /\ DOMAIN a = DOMAIN c
      /\ Held(c.entries) \subseteq Held(a.entries)
      /\ \A x \in DOMAIN c \ {"group_size", "num", "entries", "num_local_entries", "failed"} :
              a[x] = c[x]
  <2>1. CommonFields \subseteq DOMAIN c /\ FirstVersion(c)
    BY Zenon DEF SpFields, SpFirst
  <2> QED
    BY <2>1, AddFirst, Zenon
<1> HIDE DEF a
<1>2. /\ a.pending_revokes_from_sps = c.pending_revokes_from_sps /\ a.ongoing = c.ongoing
      /\ a.toPeers = c.toPeers /\ a.toHosts = c.toHosts
  BY <1>1, Zenon DEF SpFields
<1>3. SpGrows(c, a) /\ SpFirst(a) /\ DOMAIN a = SpFields
  BY <1>1, <1>2, Zenon DEF SpGrows, SpFirst
<1>4. HandlePeerEntries(p, c, f)
        = IF /\ Missing(c, f) # {} /\ a.num_local_entries = a.group_size
             /\ ~AllRanksAreLocal(p, a)
          THEN SendCacheToHost(a) ELSE a
  BY Zenon DEF HandlePeerEntries, a
<1>5. CASE a.num_local_entries = a.group_size
  <2>1. SpGrows(a, SendCacheToHost(a))
    BY <1>3, <1>5, SendFirst, Zenon
  <2>2. SpGrows(c, SendCacheToHost(a))
    BY <2>1, <1>3, Zenon DEF SpGrows
  <2> QED
    BY <2>2, <1>3, <1>4, Zenon
<1>6. CASE a.num_local_entries # a.group_size
  BY <1>3, <1>4, <1>6, Zenon
<1> QED
  BY <1>5, <1>6, Zenon

\* broadcast_group_cache, in GROUP_CACHE_EXCHANGE.
LEMMA ExchangeFirst ==
  ASSUME NEW p \in SP, NEW c, DOMAIN c = SpFields, SpFirst(c)
  PROVE  SpGrows(c, Exchange(p, c))
<1> DEFINE m == EntriesMsg(Only(SpRanks(p), c.entries))
           t == Append(c.toPeers, m)
           d == [c EXCEPT !.toPeers = t]
<1>1. m \in FirstMsgs
  BY Zenon DEF SpFirst, FirstVersion, FirstMsgs, FirstEntries, EntriesMsg, Only
<1>2. d = [c EXCEPT !.toPeers = Append(@, EntriesMsg(Only(SpRanks(p), c.entries)))]
  BY Zenon DEF SpFields
<1> HIDE DEF m
<1>3. c.toPeers \in Seq(FirstMsgs)
  BY Zenon DEF SpFirst
<1>4. t \in Seq(FirstMsgs)
  BY <1>1, <1>3
<1>5. BroadcastCache(p, c) = IF d.group_size = d.num_local_entries THEN SendCacheToHost(d) ELSE d
  BY <1>2, Zenon DEF BroadcastCache
<1> HIDE DEF t
<1>6. /\ DOMAIN d = SpFields /\ d.toPeers = t /\ d.failed = c.failed
      /\ d.entries = c.entries /\ d.num = c.num /\ d.global = c.global
      /\ d.pending_entries = c.pending_entries /\ d.toHosts = c.toHosts /\ d.ongoing = c.ongoing
      /\ d.pending_revokes_from_sps = c.pending_revokes_from_sps
  BY Zenon DEF SpFields, CommonFields
<1> HIDE DEF d
<1>7. SpGrows(c, d) /\ SpFirst(d)
  BY <1>4, <1>6, Zenon DEF SpGrows, SpFirst, FirstVersion
<1>8. d.group_size = d.num_local_entries => SpGrows(c, SendCacheToHost(d))
  BY <1>6, <1>7, SendFirst, Zenon DEF SpGrows
<1>9. SpGrows(c, BroadcastCache(p, c))
  BY <1>5, <1>7, <1>8, Zenon
<1> QED
  BY <1>9, Zenon DEF Exchange, SpGrows

\* do_add_group_rank_recv_cb: no entries are pending.
LEMMA AddLocalFirst ==
  ASSUME GroupSets, NEW p \in SP, NEW c, DOMAIN c = SpFields, SpFirst(c),
         c.num_local_entries = Cardinality(Held(c.entries)), NEW f, SomeFirst(f)
  PROVE  SpGrows(c, AddLocalRanks(p, c, f))
<1> DEFINE d == StoreEntries(c, f)
           e == IF Missing(c, f) = {} THEN d
                ELSE [d EXCEPT
                       !.n_local_ranks = IF @ = 0 THEN Cardinality(HostRanks(p)) ELSE @,
                       !.n_local_ranks_populated = @ + Cardinality(Missing(c, f)),
                       !.sp_ranks = IF @ = 0 THEN Cardinality(SpRanks(p)) ELSE @]
<1>0. d = StoreEntries(c, f)
  OBVIOUS
<1>1. AddLocalRanks(p, c, f) = Exchange(p, HandlePendingEntries(p, e))
  BY Zenon DEF AddLocalRanks
<1> HIDE DEF d
<1>2. /\ FirstVersion(d) /\ DOMAIN d = SpFields
      /\ Held(c.entries) \subseteq Held(d.entries)
      /\ \A x \in SpFields \ {"group_size", "num", "entries", "num_local_entries"} : d[x] = c[x]
  <2>1. CommonFields \subseteq DOMAIN c /\ FirstVersion(c)
    BY Zenon DEF SpFields, SpFirst
  <2> QED
    BY <1>0, <2>1, StoreFirst, SMTT(30)
<1>3. /\ d.pending_revokes_from_sps = c.pending_revokes_from_sps /\ d.ongoing = c.ongoing
      /\ d.toPeers = c.toPeers /\ d.toHosts = c.toHosts
  BY <1>2, Zenon DEF SpFields
<1>4. /\ DOMAIN e = SpFields /\ e.toPeers = d.toPeers /\ e.failed = d.failed
      /\ e.entries = d.entries /\ e.num = d.num /\ e.global = d.global
      /\ e.pending_entries = d.pending_entries /\ e.toHosts = d.toHosts /\ e.ongoing = d.ongoing
      /\ e.pending_revokes_from_sps = d.pending_revokes_from_sps
  <2>1. CASE Missing(c, f) = {}
    BY <2>1, <1>2, Zenon
  <2>2. CASE Missing(c, f) # {}
    BY <2>2, <1>2, Zenon DEF SpFields, CommonFields
  <2> QED
    BY <2>1, <2>2, Zenon
<1> HIDE DEF e
<1>5. SpGrows(c, e) /\ DOMAIN e = SpFields /\ SpFirst(e)
  BY <1>2, <1>3, <1>4, Zenon DEF SpGrows, SpFirst, FirstVersion
<1>6. HandlePendingEntries(p, e) = e
  BY <1>5, Zenon DEF HandlePendingEntries, SpFirst, FirstVersion
<1>7. SpGrows(e, Exchange(p, e))
  BY <1>5, ExchangeFirst, Zenon
<1> QED
  BY <1>1, <1>5, <1>6, <1>7, Zenon DEF SpGrows

\* group_cache_send_to_local_ranks_cb: no revokes are pending.
LEMMA CacheSentFirst ==
  ASSUME NEW c, DOMAIN c = SpFields, SpFirst(c)
  PROVE  SpGrows(c, CacheSent(c))
<1> DEFINE e == [c EXCEPT !.sent_to_host = c.num]
<1>1. /\ DOMAIN e = SpFields /\ e.toPeers = c.toPeers /\ e.failed = c.failed
      /\ e.entries = c.entries /\ e.num = c.num /\ e.global = c.global
      /\ e.pending_entries = c.pending_entries /\ e.toHosts = c.toHosts /\ e.ongoing = c.ongoing
      /\ e.pending_revokes_from_sps = c.pending_revokes_from_sps
  BY Zenon DEF SpFields, CommonFields
<1>2. c.pending_revokes_from_sps = <<>>
  BY Zenon DEF SpFirst
<1>3. PendingRevokes(c) \subseteq c.revoked
  BY <1>2 DEF PendingRevokes
<1>4. HandlePendingRevokes(e) = e
  <2> HIDE DEF e
  <2> QED
    BY <1>1, <1>2, Zenon DEF HandlePendingRevokes
<1>5. CacheSent(c) = e
  BY <1>3, <1>4, Zenon DEF CacheSent
<1> HIDE DEF e
<1> QED
  BY <1>1, <1>5, Zenon DEF SpGrows, SpFirst, FirstVersion

-----------------------------------------------------------------------------
(* A persistent cache: steps *)

\* What a step of a persistent cache does: it keeps the invariant, and no cache
\* loses an entry.
SpsGrow == \A p \in SP : SpFirst(sp'[p]) /\ Held(sp[p].entries) \subseteq Held(sp'[p].entries)
HostsGrow ==
  \A r \in Rank : FirstVersion(host'[r]) /\ Held(host[r].entries) \subseteq Held(host'[r].entries)
FromFirst == \A r \in Rank : fromRank[r] \in Seq(FirstAdds)
ToFirst == \A r \in Rank : toRank[r] \in Seq(FirstMsgs)
Grows == SpsGrow /\ HostsGrow /\ FromFirst' /\ ToFirst' /\ PeersFirst(peer)'

\* The invariant by variable.
LEMMA PInvParts ==
  ASSUME PInv
  PROVE  /\ \A p \in SP : SpFirst(sp[p])
         /\ \A r \in Rank : FirstVersion(host[r])
         /\ FromFirst /\ ToFirst /\ PeersFirst(peer)
BY Zenon DEF PInv, FromFirst, ToFirst

\* The caches are records whose entries are counted.
LEMMA SpShape ==
  ASSUME IInv, NEW p \in SP
  PROVE  /\ DOMAIN sp = SP /\ DOMAIN sp[p] = SpFields
         /\ sp[p].num_local_entries = Cardinality(Held(sp[p].entries))
<1>1. DOMAIN sp = SP /\ sp[p] \in SpCaches(p) /\ SpCacheInv(p, sp[p])
  BY Zenon DEF IInv, SpPart, SpOK
<1>2. DOMAIN sp[p] = SpFields
  BY <1>1, Zenon DEF SpCaches, SpFields, CommonFields
<1> QED
  BY <1>1, <1>2, Zenon DEF SpCacheInv

\* The same for the caches of the ranks.
LEMMA HostShape ==
  ASSUME IInv, NEW r \in Rank
  PROVE  /\ DOMAIN host = Rank
         /\ DOMAIN host[r] = CommonFields \cup {"pending_send_adds", "creates", "frees"}
         /\ host[r].num_local_entries = Cardinality(Held(host[r].entries))
<1>1. DOMAIN host = Rank /\ host[r] \in HostCaches /\ HostCacheInv(host[r])
  BY Zenon DEF IInv, HostPart, HostOK
<1>2. DOMAIN host[r] = CommonFields \cup {"pending_send_adds", "creates", "frees"}
  BY <1>1, Zenon DEF HostCaches, CommonFields
<1> QED
  BY <1>1, <1>2, Zenon DEF HostCacheInv

\* A handler ran on SP p and left the cache d.
LEMMA CommitFirst ==
  ASSUME IInv, PInv, NEW p \in SP, NEW d, SpGrows(sp[p], d), Commit(p, d)
  PROVE  SpsGrow /\ ToFirst'
<1> DEFINE z == <<>>
           e == [d EXCEPT !.toPeers = z, !.toHosts = z]
<1>1. z \in Seq(FirstMsgs)
  OBVIOUS
<1>2. sp' = [sp EXCEPT ![p] = e]
  BY Zenon DEF Commit
<1> HIDE DEF z
<1>3. DOMAIN d = SpFields
  BY Zenon DEF SpGrows
<1>4. /\ e.toPeers = z /\ e.failed = d.failed
      /\ e.entries = d.entries /\ e.num = d.num /\ e.global = d.global
      /\ e.pending_entries = d.pending_entries /\ e.toHosts = z /\ e.ongoing = d.ongoing
      /\ e.pending_revokes_from_sps = d.pending_revokes_from_sps
  BY <1>3, Zenon DEF SpFields, CommonFields
<1> HIDE DEF e
<1>5. SpFirst(e) /\ Held(sp[p].entries) \subseteq Held(e.entries)
  BY <1>1, <1>4, Zenon DEF SpGrows, SpFirst, FirstVersion
<1>6. SpsGrow
  BY <1>2, <1>5, SpShape, PInvParts, Zenon DEF SpsGrow
<1>7. d.toHosts \in Seq(FirstMsgs)
  BY Zenon DEF SpGrows, SpFirst
<1>8. \A r \in Rank : toRank[r] \in Seq(FirstMsgs)
  BY PInvParts, Zenon DEF ToFirst
<1>9. \A r \in Rank : toRank[r] \o d.toHosts \in Seq(FirstMsgs)
  BY <1>7, <1>8, ConcatProperties, Zenon
<1>10. \A r \in Rank : toRank'[r] \in {toRank[r] \o d.toHosts, toRank[r]}
  BY Zenon DEF Commit
<1>11. ToFirst'
  BY <1>8, <1>9, <1>10, Zenon DEF ToFirst
<1> QED
  BY <1>6, <1>11, Zenon

\* It sent what it had to send.
LEMMA SendPeersFirst ==
  ASSUME NEW p \in SP, NEW c, NEW d, SpGrows(c, d), NEW net, PeersOK(net), PeersFirst(net),
         SendToPeers(p, d, net)
  PROVE  PeersFirst(peer)'
<1> DEFINE row == [q \in SP |-> IF q = p THEN net[p][q] ELSE net[p][q] \o d.toPeers]
<1>1. peer' = [net EXCEPT ![p] = row]
  BY Zenon DEF SendToPeers
<1>2. d.toPeers \in Seq(FirstMsgs)
  BY Zenon DEF SpGrows, SpFirst
<1>3. \A q \in SP : net[p][q] \o d.toPeers \in Seq(FirstMsgs)
  BY <1>2, ConcatProperties, Zenon DEF PeersFirst
<1>4. \A q \in SP : row[q] \in Seq(FirstMsgs)
  BY <1>3, Zenon DEF PeersFirst
<1> HIDE DEF row
<1> QED
  BY <1>1, <1>4, Zenon DEF PeersFirst, PeersOK

\* Entries of the first version never have to wait, and pass their assertion.
LEMMA EntriesReady ==
  ASSUME GroupSets, NEW c, FirstVersion(c), CommonFields \subseteq DOMAIN c,
         NEW m, SomeFirst(m.entries)
  PROVE  LET d == CheckEntriesSeq(c, m)
         IN  /\ ~MustQueueEntries(d, m) /\ FirstVersion(d) /\ DOMAIN d = DOMAIN c
             /\ \A x \in DOMAIN c : d[x] = c[x]
<1> DEFINE s == FirstSeq(m)
           F == c.failed \cup Unless(s >= c.num, "entries_seq")
           d == [c EXCEPT !.failed = F]
<1>1. m.entries \in [Group -> {0, 1}] /\ Held(m.entries) # {} /\ Held(m.entries) \in SUBSET Group
  BY Zenon DEF SomeFirst, FirstEntries, Held
<1>2. Min(Held(m.entries)) \in Held(m.entries)
  BY <1>1, MinIsLeast, GroupFinite, Zenon
<1>3. s = 1
  BY <1>1, <1>2, Zenon DEF FirstSeq, Held
<1> HIDE DEF s
<1>4. c.num \in {0, 1} /\ c.global = 0 /\ c.failed = {}
  BY Zenon DEF FirstVersion
<1>5. s >= c.num
  BY <1>3, <1>4
<1>6. F = {}
  BY <1>4, <1>5, Zenon DEF Unless
<1>7. CheckEntriesSeq(c, m) = d
  BY Zenon DEF CheckEntriesSeq, s
<1> HIDE DEF F
<1>8. DOMAIN d = DOMAIN c /\ \A x \in DOMAIN c : d[x] = c[x]
  BY <1>4, <1>6, Zenon DEF CommonFields
<1>9. /\ d.num = c.num /\ d.entries = c.entries /\ d.global = c.global
      /\ d.pending_entries = c.pending_entries /\ d.failed = {}
  BY <1>6, Zenon DEF CommonFields
<1> HIDE DEF d
<1>10. ~MustQueueEntries(d, m)
  <2>1. ~(d.global > 0) /\ IsGroupReady(d, s)
    BY <1>3, <1>4, <1>9 DEF IsGroupReady
  <2> QED
    BY <2>1, Zenon DEF MustQueueEntries, s
<1> QED
  BY <1>7, <1>8, <1>9, <1>10, Zenon DEF FirstVersion

\* add_group_rank_recv_cb.
LEMMA RecvAddFirst ==
  ASSUME GroupSets, IInv, PInv, NEW r \in Rank, RecvAdd(r)
  PROVE  Grows
<1> DEFINE p == spOf[r]
           m == Head(fromRank[r])
           F == sp[p].failed \cup Unless(m.seq >= sp[p].num, "add_seq")
           c == [sp[p] EXCEPT !.failed = F]
           d == AddLocalRanks(p, c, Entry(r, 1))
<1>1. p \in SP
  BY TopologyAssumption, Zenon DEF TopologyAssumption
<1>2. fromRank[r] \in Seq(FirstAdds) /\ fromRank[r] # <<>>
  BY PInvParts, Zenon DEF FromFirst, RecvAdd
<1>3. m \in FirstAdds /\ Tail(fromRank[r]) \in Seq(FirstAdds)
  BY <1>2
<1>4. r \in Group
  <2>1. fromRank[r] \in Seq(RankMsgs(r))
    BY Zenon DEF IInv, FromPart
  <2>2. m \in RankMsgs(r)
    BY <1>2, <2>1
  <2> QED
    BY <2>2, Zenon DEF RankMsgs, AddMsgs, RankRevokeMsgs
<1>5. m.seq = 1
  BY <1>3, Zenon DEF FirstAdds
<1>6. SpFirst(sp[p]) /\ DOMAIN sp[p] = SpFields
      /\ sp[p].num_local_entries = Cardinality(Held(sp[p].entries))
  BY <1>1, PInvParts, SpShape, Zenon
<1>7. F = {}
  <2>1. sp[p].num \in {0, 1} /\ sp[p].failed = {}
    BY <1>6, Zenon DEF SpFirst, FirstVersion
  <2>2. m.seq >= sp[p].num
    BY <1>5, <2>1
  <2> QED
    BY <2>1, <2>2, Zenon DEF Unless
<1>8. /\ DOMAIN c = SpFields /\ c.toPeers = sp[p].toPeers /\ c.failed = {}
      /\ c.entries = sp[p].entries /\ c.num = sp[p].num /\ c.global = sp[p].global
      /\ c.pending_entries = sp[p].pending_entries /\ c.toHosts = sp[p].toHosts
      /\ c.ongoing = sp[p].ongoing /\ c.num_local_entries = sp[p].num_local_entries
      /\ c.pending_revokes_from_sps = sp[p].pending_revokes_from_sps
  BY <1>6, <1>7, Zenon DEF SpFields, CommonFields
<1>9. Commit(p, d) /\ SendToPeers(p, d, peer)
  <2> DEFINE c0 == [sp[p] EXCEPT !.failed = @ \cup Unless(m.seq >= sp[p].num, "add_seq")]
             d0 == IF c0.global > 0 THEN [c0 EXCEPT !.pending_adds = Append(@, m)]
                   ELSE AddLocalRanks(p, c0, Entry(r, m.seq))
  <2>1. Commit(p, d0) /\ SendToPeers(p, d0, peer)
    BY Zenon DEF RecvAdd
  <2>2. c0 = c
    BY <1>6, Zenon DEF SpFields, CommonFields
  <2> HIDE DEF c0, c
  <2>3. c.global = 0
    BY <1>6, <1>8, Zenon DEF SpFirst, FirstVersion
  <2>4. ~(c.global > 0)
    BY <2>3
  <2>5. d0 = d
    BY <2>2, <2>4, <1>5, Zenon
  <2> HIDE DEF d0, d
  <2> QED
    BY <2>1, <2>5, Zenon
<1> HIDE DEF c
<1>10. SpFirst(c) /\ c.num_local_entries = Cardinality(Held(c.entries))
  BY <1>6, <1>8, Zenon DEF SpFirst, FirstVersion
<1>11. SomeFirst(Entry(r, 1))
  <2>1. Entry(r, 1) \in FirstEntries
    BY Zenon DEF FirstEntries, Entry
  <2>2. Entry(r, 1)[r] = 1 /\ 1 # 0
    BY <1>4 DEF Entry
  <2> QED
    BY <1>4, <2>1, <2>2, Zenon DEF SomeFirst, Held
<1>12. SpGrows(c, d)
  BY <1>1, <1>8, <1>10, <1>11, AddLocalFirst, ZenonT(30)
<1> HIDE DEF d
<1>13. SpGrows(sp[p], d)
  BY <1>8, <1>12, Zenon DEF SpGrows
<1>14. SpsGrow /\ ToFirst'
  BY <1>1, <1>9, <1>13, CommitFirst, Zenon
<1>15. PeersFirst(peer)'
  BY <1>1, <1>9, <1>13, PInvParts, SendPeersFirst, Zenon DEF IInv
<1>16. FromFirst'
  BY <1>3, PInvParts, Zenon DEF RecvAdd, FromFirst, IInv, FromPart
<1>17. HostsGrow
  BY PInvParts, Zenon DEF RecvAdd, HostsGrow
<1> QED
  BY <1>14, <1>15, <1>16, <1>17, Zenon DEF Grows

\* peer_cache_entries_recv_cb on an SP.
LEMMA RecvPeerEntriesFirst ==
  ASSUME GroupSets, IInv, PInv, NEW p \in SP, NEW q \in SP, RecvPeerEntries(p, q)
  PROVE  Grows
<1> DEFINE ch == peer[q][p]
           m == FirstEntry(Head(ch))
           c == CheckEntriesSeq(sp[p], m)
           d == HandlePeerEntries(p, c, m.entries)
           net == [peer EXCEPT ![q][p] = WithoutFirst(@)]
           d0 == IF MustQueueEntries(c, m) THEN QueueEntries(c, m) ELSE d
<1>1. /\ ch # <<>> /\ Head(ch).type = "entries"
      /\ Commit(p, d0) /\ SendToPeers(p, d0, net) /\ UNCHANGED <<host, fromRank>>
  BY Zenon DEF RecvPeerEntries
<1>2. p # q /\ ch \in Seq(PeerMsgs(q)) /\ DOMAIN peer = SP /\ DOMAIN peer[q] = SP
  BY <1>1, Zenon DEF IInv, PeersOK
<1>3. Head(ch) \in EntriesMsgs(SpRanks(q)) /\ WithoutFirst(ch) \in Seq(PeerMsgs(q))
  BY <1>1, <1>2, WithoutFirstOK, Zenon
<1>4. m.entries \in EntriesOf(Group \ SpRanks(p))
  BY <1>2, <1>3, FirstEntryOK, Zenon
<1>5. ch \in Seq(FirstMsgs)
  BY PInvParts, ZenonT(30) DEF PeersFirst
<1>6. Head(ch) \in FirstMsgs /\ Tail(ch) \in Seq(FirstMsgs)
  BY <1>1, <1>5
<1>7. SomeFirst(m.entries)
  BY <1>4, <1>6, Zenon DEF SomeFirst, EntriesOf, FirstEntry, EntriesMsg, Only, FirstMsgs, FirstEntries
<1>8. WithoutFirst(ch) \in Seq(FirstMsgs)
  <2> DEFINE rest == Only(Group \ {FirstRank(Head(ch))}, Head(ch).entries)
             one == <<EntriesMsg(rest)>>
  <2>1. EntriesMsg(rest) \in FirstMsgs
    BY <1>6, Zenon DEF EntriesMsg, FirstMsgs, FirstEntries, Only
  <2>2. WithoutFirst(ch) = IF Held(rest) = {} THEN Tail(ch) ELSE one \o Tail(ch)
    BY Zenon DEF WithoutFirst
  <2> HIDE DEF rest
  <2>3. one \in Seq(FirstMsgs)
    BY <2>1
  <2> HIDE DEF one
  <2> QED
    BY <1>6, <2>2, <2>3, ConcatProperties, Zenon
<1>9. PeersOK(net) /\ PeersFirst(net)
  <2>1. PeersOK(net)
    BY <1>2, <1>3, Zenon DEF IInv, PeersOK
  <2>2. PeersFirst(net)
    BY <1>2, <1>8, PInvParts, Zenon DEF PeersFirst, IInv, PeersOK
  <2> QED
    BY <2>1, <2>2, Zenon
<1>10. SpFirst(sp[p]) /\ DOMAIN sp[p] = SpFields
       /\ sp[p].num_local_entries = Cardinality(Held(sp[p].entries))
  BY PInvParts, SpShape, Zenon
<1> HIDE DEF m, net, ch
<1>11. /\ ~MustQueueEntries(c, m) /\ FirstVersion(c) /\ DOMAIN c = DOMAIN sp[p]
       /\ \A x \in DOMAIN sp[p] : c[x] = sp[p][x]
  BY <1>7, <1>10, EntriesReady, Zenon DEF SpFirst, SpFields
<1> HIDE DEF c
<1>12. /\ SpFirst(c) /\ DOMAIN c = SpFields
       /\ c.num_local_entries = Cardinality(Held(c.entries)) /\ c.entries = sp[p].entries
  <2>1. /\ c.num_local_entries = sp[p].num_local_entries /\ c.entries = sp[p].entries
        /\ c.pending_revokes_from_sps = sp[p].pending_revokes_from_sps
        /\ c.ongoing = sp[p].ongoing /\ c.toPeers = sp[p].toPeers /\ c.toHosts = sp[p].toHosts
    BY <1>10, <1>11, Zenon DEF SpFields, CommonFields
  <2> QED
    BY <1>10, <1>11, <2>1, Zenon DEF SpFirst
<1>13. SpGrows(c, d)
  BY <1>7, <1>12, HandlePeerFirst, Zenon
<1>14. d0 = d
  BY <1>11, Zenon
<1> HIDE DEF d, d0
<1>15. SpGrows(sp[p], d)
  BY <1>12, <1>13, Zenon DEF SpGrows
<1>16. SpsGrow /\ ToFirst'
  BY <1>1, <1>14, <1>15, CommitFirst, Zenon
<1>17. PeersFirst(peer)'
  BY <1>1, <1>9, <1>14, <1>15, SendPeersFirst, Zenon
<1>18. FromFirst' /\ HostsGrow
  BY <1>1, PInvParts, Zenon DEF FromFirst, HostsGrow
<1> QED
  BY <1>16, <1>17, <1>18, Zenon DEF Grows

\* The completion of a meta-event: it is that of a cache that was sent.
LEMMA MetaEventFirst ==
  ASSUME IInv, PInv, NEW p \in SP, NEW i \in DOMAIN sp[p].ongoing, MetaEventCompleted(p, i)
  PROVE  Grows
<1> DEFINE s == sp[p].ongoing
           t == SubSeq(s, 1, i - 1) \o SubSeq(s, i + 1, Len(s))
           c == [sp[p] EXCEPT !.ongoing = t]
           d == CacheSent(c)
<1>1. SpFirst(sp[p]) /\ DOMAIN sp[p] = SpFields
  BY PInvParts, SpShape, Zenon
<1>2. s \in Seq({"cache"}) /\ i \in DOMAIN s
  BY <1>1, Zenon DEF SpFirst
<1>3. s[i] = "cache"
  BY <1>2
<1>4. t \in Seq({"cache"})
  <2> HIDE DEF s
  <2> QED
    BY <1>2, WithoutIth, Zenon
<1>5. Commit(p, d) /\ SendToPeers(p, d, peer) /\ UNCHANGED <<host, fromRank>>
  BY <1>1, <1>3, Zenon DEF MetaEventCompleted, SpFields
<1> HIDE DEF t
<1>6. /\ DOMAIN c = SpFields /\ c.toPeers = sp[p].toPeers /\ c.failed = sp[p].failed
      /\ c.entries = sp[p].entries /\ c.num = sp[p].num /\ c.global = sp[p].global
      /\ c.pending_entries = sp[p].pending_entries /\ c.toHosts = sp[p].toHosts
      /\ c.ongoing = t
      /\ c.pending_revokes_from_sps = sp[p].pending_revokes_from_sps
  BY <1>1, Zenon DEF SpFields, CommonFields
<1> HIDE DEF c
<1>7. SpFirst(c)
  BY <1>1, <1>4, <1>6, Zenon DEF SpFirst, FirstVersion
<1>8. SpGrows(sp[p], d)
  BY <1>6, <1>7, CacheSentFirst, Zenon DEF SpGrows
<1> HIDE DEF d
<1>9. SpsGrow /\ ToFirst'
  BY <1>5, <1>8, CommitFirst, Zenon
<1>10. PeersFirst(peer)'
  BY <1>5, <1>8, PInvParts, SendPeersFirst, Zenon DEF IInv
<1>11. FromFirst' /\ HostsGrow
  BY <1>5, PInvParts, Zenon DEF FromFirst, HostsGrow
<1> QED
  BY <1>9, <1>10, <1>11, Zenon DEF Grows

\* peer_cache_entries_recv_cb in the process of a rank.
LEMMA RecvCacheFirst ==
  ASSUME GroupSets, IInv, PInv, NEW r \in Rank, RecvCache(r)
  PROVE  Grows
<1> DEFINE m == Head(toRank[r])
           h == CheckEntriesSeq(host[r], m)
           d == AddEntries(h, m.entries)
<1>1. /\ toRank[r] # <<>> /\ m.type = "entries"
      /\ host' = [host EXCEPT ![r] = IF MustQueueEntries(h, m) THEN QueueEntries(h, m) ELSE d]
      /\ toRank' = [toRank EXCEPT ![r] = Tail(@)] /\ UNCHANGED <<sp, fromRank, peer>>
  BY Zenon DEF RecvCache
<1>2. toRank[r] \in Seq(FirstMsgs) /\ toRank[r] \in Seq(HostMsgs) /\ DOMAIN toRank = Rank
  BY PInvParts, Zenon DEF ToFirst, IInv, ToPart
<1>3. m \in FirstMsgs /\ m \in HostMsgs /\ Tail(toRank[r]) \in Seq(FirstMsgs)
  BY <1>1, <1>2
<1>4. SomeFirst(m.entries)
  BY <1>1, <1>3, Zenon DEF SomeFirst, FirstMsgs, HostMsgs, EntriesMsgs, EntriesOf, SpRevokeMsgs
<1>5. /\ DOMAIN host = Rank /\ FirstVersion(host[r]) /\ CommonFields \subseteq DOMAIN host[r]
      /\ host[r].num_local_entries = Cardinality(Held(host[r].entries))
  BY HostShape, PInvParts, Zenon
<1> HIDE DEF m
<1>6. /\ ~MustQueueEntries(h, m) /\ FirstVersion(h) /\ DOMAIN h = DOMAIN host[r]
      /\ \A x \in DOMAIN host[r] : h[x] = host[r][x]
  BY <1>4, <1>5, EntriesReady, Zenon
<1> HIDE DEF h
<1>7. h.num_local_entries = Cardinality(Held(h.entries)) /\ h.entries = host[r].entries
  BY <1>5, <1>6, Zenon DEF CommonFields
<1>8. d = AddEntries(h, m.entries) /\ CommonFields \subseteq DOMAIN h
  BY <1>5, <1>6, Zenon
<1>9. host' = [host EXCEPT ![r] = d]
  BY <1>1, <1>6, Zenon
<1>10. FirstVersion(d) /\ Held(host[r].entries) \subseteq Held(d.entries)
  <2>1. FirstVersion(d) /\ Held(h.entries) \subseteq Held(d.entries)
    BY <1>4, <1>6, <1>7, <1>8, AddFirst, Zenon
  <2> QED
    BY <2>1, <1>7, Zenon
<1> HIDE DEF d
<1>11. HostsGrow
  BY <1>5, <1>9, <1>10, PInvParts, Zenon DEF HostsGrow
<1>12. ToFirst'
  BY <1>1, <1>2, <1>3, PInvParts, Zenon DEF ToFirst
<1>13. SpsGrow /\ FromFirst' /\ PeersFirst(peer)'
  BY <1>1, PInvParts, Zenon DEF SpsGrow, FromFirst, PeersFirst
<1> QED
  BY <1>11, <1>12, <1>13, Zenon DEF Grows

\* send_add_group_rank_request: the cache is never being revoked.
LEMMA CreateFirst ==
  ASSUME GroupSets, IInv, PInv, NEW r \in Rank, Create(r)
  PROVE  Grows
<1> DEFINE k == host[r].creates + 1
           h == [host[r] EXCEPT !.creates = k]
           n == IF h.num_local_entries = 0 THEN h.num + 1 ELSE h.num
           d == AddSelf(h, r)
<1>1. /\ DOMAIN host = Rank /\ FirstVersion(host[r])
      /\ DOMAIN host[r] = CommonFields \cup {"pending_send_adds", "creates", "frees"}
      /\ host[r].num_local_entries = Cardinality(Held(host[r].entries)) /\ r \in Group
  BY HostShape, PInvParts, Zenon DEF Create
<1>2. /\ DOMAIN h = DOMAIN host[r] /\ h.num = host[r].num /\ h.entries = host[r].entries
      /\ h.global = host[r].global /\ h.pending_entries = host[r].pending_entries
      /\ h.failed = host[r].failed /\ h.num_local_entries = host[r].num_local_entries
  BY <1>1, Zenon DEF CommonFields
<1>3. h.global = 0 => /\ host' = [host EXCEPT ![r] = d]
                      /\ fromRank' = [fromRank EXCEPT ![r] = Append(fromRank[r], AddMsg(r, d.num))]
  <2> DEFINE h0 == [host[r] EXCEPT !.creates = @ + 1]
             d0 == AddSelf(h0, r)
  <2>1. h0.global = 0 => /\ host' = [host EXCEPT ![r] = d0]
                         /\ fromRank' = [fromRank EXCEPT ![r] = Append(@, AddMsg(r, d0.num))]
    BY Zenon DEF Create
  <2>2. h0 = h
    BY <1>1, Zenon DEF CommonFields
  <2> HIDE DEF h0, h
  <2>3. d0 = d
    BY <2>2, Zenon
  <2> HIDE DEF d0, d
  <2> QED
    BY <2>1, <2>2, <2>3, Zenon DEF IInv, FromPart
<1>4. UNCHANGED <<sp, peer, toRank>>
  BY Zenon DEF Create
<1> HIDE DEF h
<1>5. /\ FirstVersion(h) /\ CommonFields \subseteq DOMAIN h /\ h.global = 0
      /\ h.num_local_entries = Cardinality(Held(h.entries))
  BY <1>1, <1>2, Zenon DEF FirstVersion
<1>6. n = 1
  <2>2. h.num_local_entries = 0 <=> Held(h.entries) = {}
    BY <1>5, CountsNone, Zenon
  <2>3. h.num = IF Held(h.entries) = {} THEN 0 ELSE 1
    BY <1>5, Zenon DEF FirstVersion
  <2> QED
    BY <2>2, <2>3
<1>7. d = StoreEntries(h, Entry(r, n))
  BY Zenon DEF AddSelf
<1>8. SomeFirst(Entry(r, n))
  <2> HIDE DEF n
  <2>1. Entry(r, n) \in FirstEntries
    BY <1>6, Zenon DEF FirstEntries, Entry
  <2>2. Entry(r, n)[r] = 1 /\ 1 # 0
    BY <1>1, <1>6 DEF Entry
  <2> QED
    BY <1>1, <2>1, <2>2, Zenon DEF SomeFirst, Held
<1> HIDE DEF d, n
<1>9. FirstVersion(d) /\ d.num = 1 /\ Held(h.entries) \subseteq Held(d.entries)
  BY <1>5, <1>7, <1>8, StoreFirst, SMTT(30)
<1>10. HostsGrow
  BY <1>1, <1>2, <1>3, <1>5, <1>9, PInvParts, Zenon DEF HostsGrow
<1>11. FromFirst'
  <2>1. AddMsg(r, d.num) \in FirstAdds
    BY <1>9, Zenon DEF AddMsg, FirstAdds
  <2>2. fromRank[r] \in Seq(FirstAdds)
    BY PInvParts, Zenon DEF FromFirst
  <2>3. Append(fromRank[r], AddMsg(r, d.num)) \in Seq(FirstAdds)
    BY <2>1, <2>2
  <2>4. fromRank' = [fromRank EXCEPT ![r] = Append(fromRank[r], AddMsg(r, d.num))]
    BY <1>3, <1>5, Zenon
  <2> QED
    BY <2>3, <2>4, PInvParts, Zenon DEF FromFirst, IInv, FromPart
<1>12. SpsGrow /\ ToFirst' /\ PeersFirst(peer)'
  BY <1>4, PInvParts, Zenon DEF SpsGrow, ToFirst, PeersFirst
<1> QED
  BY <1>10, <1>11, <1>12, Zenon DEF Grows

\* send_revoke_group_rank_request_through_rank_info returns before it does anything.
LEMMA FreeFirst ==
  ASSUME Persistent, IInv, PInv, NEW r \in Rank, Free(r)
  PROVE  Grows
<1> DEFINE n == host[r].frees + 1
           h == [host[r] EXCEPT !.frees = n]
<1>1. /\ DOMAIN host = Rank /\ FirstVersion(host[r])
      /\ DOMAIN host[r] = CommonFields \cup {"pending_send_adds", "creates", "frees"}
  BY HostShape, PInvParts, Zenon
<1>2. /\ h.num = host[r].num /\ h.entries = host[r].entries
      /\ h.global = host[r].global /\ h.pending_entries = host[r].pending_entries
      /\ h.failed = host[r].failed
  BY <1>1, Zenon DEF CommonFields
<1>3. host' = [host EXCEPT ![r] = h] /\ UNCHANGED <<fromRank, sp, peer, toRank>>
  BY <1>1, Zenon DEF Free
<1> HIDE DEF h
<1>4. FirstVersion(h) /\ Held(host[r].entries) \subseteq Held(h.entries)
  BY <1>1, <1>2, Zenon DEF FirstVersion
<1>5. HostsGrow
  BY <1>1, <1>3, <1>4, PInvParts, Zenon DEF HostsGrow
<1> QED
  BY <1>3, <1>5, PInvParts, Zenon DEF Grows, SpsGrow, FromFirst, ToFirst, PeersFirst

\* Nobody ever sends a revoke.
LEMMA NoRevokes ==
  ASSUME PInv
  PROVE  /\ \A r \in Rank : ~RecvRankRevoke(r) /\ ~RecvFinalRevoke(r)
         /\ \A p, q \in SP : ~RecvSpRevoke(p, q)
<1>1. ASSUME NEW r \in Rank, RecvRankRevoke(r) PROVE FALSE
  <2>1. fromRank[r] \in Seq(FirstAdds) /\ fromRank[r] # <<>>
    BY <1>1, PInvParts, Zenon DEF FromFirst, RecvRankRevoke
  <2>2. Head(fromRank[r]) \in FirstAdds
    BY <2>1
  <2> QED
    BY <1>1, <2>2, Zenon DEF FirstAdds, RecvRankRevoke
<1>2. ASSUME NEW r \in Rank, RecvFinalRevoke(r) PROVE FALSE
  <2>1. toRank[r] \in Seq(FirstMsgs) /\ toRank[r] # <<>>
    BY <1>2, PInvParts, Zenon DEF ToFirst, RecvFinalRevoke
  <2>2. Head(toRank[r]) \in FirstMsgs
    BY <2>1
  <2> QED
    BY <1>2, <2>2, Zenon DEF FirstMsgs, RecvFinalRevoke
<1>3. ASSUME NEW p \in SP, NEW q \in SP, RecvSpRevoke(p, q) PROVE FALSE
  <2>1. peer[q][p] \in Seq(FirstMsgs) /\ peer[q][p] # <<>>
    BY <1>3, PInvParts, Zenon DEF PeersFirst, RecvSpRevoke
  <2>2. Head(peer[q][p]) \in FirstMsgs
    BY <2>1
  <2> QED
    BY <1>3, <2>2, Zenon DEF FirstMsgs, RecvSpRevoke
<1> QED
  BY <1>1, <1>2, <1>3, Zenon

\* Initially all caches and channels are empty.
LEMMA PersistentInit ==
  ASSUME Init
  PROVE  PInv
<1>1. EmptyEntries \in FirstEntries /\ Held(EmptyEntries) = {}
  BY Zenon DEF EmptyEntries, FirstEntries, Held
<1>2. <<>> \in Seq(FirstMsgs) /\ <<>> \in Seq(FirstAdds) /\ <<>> \in Seq({"cache"})
  OBVIOUS
<1>3. SpFirst(NewSpCache)
  BY <1>1, <1>2, Zenon DEF NewSpCache, SpFirst, FirstVersion
<1>4. FirstVersion(NewHostCache)
  BY <1>1, Zenon DEF NewHostCache, FirstVersion
<1> QED
  BY <1>2, <1>3, <1>4, Zenon DEF Init, PInv, PeersFirst

\* Every step of a persistent cache keeps the invariant and every entry.
LEMMA PersistentNext ==
  ASSUME Persistent, GroupSets, IInv, PInv, [Next]_vars
  PROVE  Grows
<1>1. CASE UNCHANGED vars
  BY <1>1, PInvParts, Zenon DEF vars, Grows, SpsGrow, HostsGrow, FromFirst, ToFirst, PeersFirst
<1>2. CASE Library
  BY <1>2, NoRevokes, RecvAddFirst, RecvCacheFirst, RecvPeerEntriesFirst, MetaEventFirst, Zenon
     DEF Library
<1>3. CASE \E r \in Rank : Application(r)
  BY <1>3, CreateFirst, FreeFirst, Zenon DEF Application
<1> QED
  BY <1>1, <1>2, <1>3, Zenon DEF Next, Idle

\* The invariant holds after such a step,
LEMMA GrowsInv ==
  ASSUME Grows
  PROVE  PInv'
BY Zenon DEF Grows, SpsGrow, HostsGrow, FromFirst, ToFirst, PInv

\* and it implies that no assertion fails and that all entries have the version
\* of their cache.
LEMMA PInvImplies ==
  ASSUME PInv
  PROVE  AssertionsHold /\ EntriesOfOneVersion
<1>1. AssertionsHold
  BY Zenon DEF PInv, SpFirst, FirstVersion, AssertionsHold
<1>2. ASSUME NEW c, FirstVersion(c), NEW r \in SetEntries(c)
      PROVE  c.entries[r] = c.num
  BY <1>2, Zenon DEF FirstVersion, FirstEntries, SetEntries, Held
<1> QED
  BY <1>1, <1>2, Zenon DEF EntriesOfOneVersion, PInv, SpFirst

==============================================================================
