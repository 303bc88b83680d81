------------------------- MODULE GroupCacheInvariant -------------------------
(***************************************************************************)
(* The invariants of the proofs about GroupCache, and the definitions that *)
(* several modules of proofs share.                                        *)
(*                                                                         *)
(* IInv is inductive for every topology, every number of creations and     *)
(* every setting of Persistent and EagerFree: the types of the caches and  *)
(* channels, and the local invariants of the caches (SpCacheInv,           *)
(* HostCacheInv).                                                          *)
(*                                                                         *)
(* VInv is inductive, with IInv, for a cache that is revoked, on one or    *)
(* two SPs with two ranks or more of the group each (TwoSps).  It says     *)
(* which version every cache is at and which messages are on the way.      *)
(* Version n of the group makes two messages on each channel: its entries, *)
(* whose key is 2n, and its revoke, whose key is 2n+1.  A channel then     *)
(* holds, in increasing order, the keys from the one its receiver waits    *)
(* for to the last one its sender has sent; both follow from the caches at *)
(* its two ends.                                                           *)
(*                                                                         *)
(* OInv is inductive with them: it says the same of the clients of an SP   *)
(* that are not in the group, which get its messages all the same.         *)
(***************************************************************************)
EXTENDS GroupCache

-----------------------------------------------------------------------------
(* Sets of ranks and entries *)

\* What the proofs use of finite sets and least elements.  It is a hypothesis of
\* the lemmas of this module, and GroupCacheProofs proves it.
GroupSets ==
  /\ IsFiniteSet(Group) /\ GroupSize \in Nat /\ GroupSize # 0
  /\ \A S \in SUBSET Group : /\ IsFiniteSet(S) /\ Cardinality(S) \in Nat
                             /\ S \subseteq Nat
                             /\ Cardinality(S) = 0 <=> S = {}
                             /\ Cardinality(S) = GroupSize <=> S = Group
  /\ \A S, T \in SUBSET Group :
       S \cap T = {} => Cardinality(S \cup T) = Cardinality(S) + Cardinality(T)
  /\ \A r \in Group : Cardinality({r}) = 1
  /\ \A S \in SUBSET Nat : S # {} => Min(S) \in S /\ \A x \in S : Min(S) <= x

-----------------------------------------------------------------------------
(* The handlers of an SP *)

\* The fields of a cache, and those that ranks and SPs have in common.
CommonFields == {"num", "group_size", "entries", "num_local_entries", "local", "global",
                 "pending_entries", "failed"}
SpFields == CommonFields \cup
  {"sent_to_host", "revoke_posted", "revoked", "n_local_ranks", "n_local_ranks_populated",
   "sp_ranks", "pending_revokes_from_sps", "pending_revokes_from_ranks", "pending_adds",
   "ongoing", "toPeers", "toHosts"}
SpOK(p, c) == c \in SpCaches(p) /\ SpCacheInv(p, c)

\* A handler that adds entries posts no revoke and never goes back to an
\* earlier version; the others stay at the version they find.
Forward(c, d) == d.revoke_posted = c.revoke_posted /\ d.num >= c.num

\* What the local invariant of an SP's cache depends on.
SameForInv(c, d) ==
  /\ d.num = c.num /\ d.entries = c.entries /\ d.group_size = c.group_size
  /\ d.num_local_entries = c.num_local_entries
  /\ d.n_local_ranks_populated = c.n_local_ranks_populated
  /\ d.revoke_posted = c.revoke_posted /\ d.ongoing = c.ongoing
  /\ d.failed \cap {"cache_populated", "revoke_posted"}
       = c.failed \cap {"cache_populated", "revoke_posted"}
  /\ d.toHosts = c.toHosts

\* The part of do_add_group_rank_recv_cb that stores the ranks and counts them.
StoreLocal(p, c, f) ==
  IF Missing(c, f) = {} THEN StoreEntries(c, f)
  ELSE [StoreEntries(c, f) EXCEPT
          !.n_local_ranks = IF @ = 0 THEN Cardinality(HostRanks(p)) ELSE @,
          !.n_local_ranks_populated = @ + Cardinality(Missing(c, f)),
          !.sp_ranks = IF @ = 0 THEN Cardinality(SpRanks(p)) ELSE @]

\* The pending adds of an SP, taken together, and its cache without them.
PendingAdds(c) ==
  Merge([i \in DOMAIN c.pending_adds |->
           Entry(c.pending_adds[i].rank, c.pending_adds[i].seq)])
AddsInOrder(c) ==
  \A i \in DOMAIN c.pending_adds :
    c.pending_adds[i].seq >= IF i = 1 THEN c.num ELSE NextNum(c, PendingAdds(c))
WithoutAdds(c) ==
  [c EXCEPT !.pending_adds = <<>>, !.failed = @ \cup Unless(AddsInOrder(c), "add_seq")]

\* The cache of an SP after revoke_group_cache.
Clean(c) ==
  [ResetCache(c) EXCEPT !.revoked = {}, !.n_local_ranks = 0,
                        !.n_local_ranks_populated = 0, !.sp_ranks = 0]
Cleaned(c, d) ==
  /\ DOMAIN d = SpFields /\ d.entries = EmptyEntries /\ d.revoked = {}
  /\ \A x \in {"group_size", "num_local_entries", "local", "global", "n_local_ranks",
               "n_local_ranks_populated", "sp_ranks"} : d[x] = 0
  /\ \A x \in {"num", "pending_entries", "failed", "sent_to_host", "revoke_posted",
               "pending_revokes_from_sps", "pending_revokes_from_ranks", "pending_adds",
               "ongoing", "toPeers", "toHosts"} : d[x] = c[x]

-----------------------------------------------------------------------------
(* The handlers of a rank's process *)

\* The type and the local invariant of a rank's cache.
HostOK(h) == h \in HostCaches /\ HostCacheInv(h)

-----------------------------------------------------------------------------
(* The inductive invariant: TypeOK and LifecycleInv, arranged by variable. *)

SpPart ==
  /\ DOMAIN sp = SP
  /\ \A p \in SP : SpOK(p, sp[p]) /\ sp[p].toPeers = <<>> /\ sp[p].toHosts = <<>>
HostPart ==
  /\ DOMAIN host = Rank
  /\ \A r \in Rank : HostOK(host[r]) /\ (host[r].pending_send_adds # 0 => r \in Group)
FromPart == DOMAIN fromRank = Rank /\ \A r \in Rank : fromRank[r] \in Seq(RankMsgs(r))
ToPart ==
  /\ DOMAIN toRank = Rank
  /\ \A r \in Rank : /\ toRank[r] \in Seq(HostMsgs)
                     /\ \A i \in DOMAIN toRank[r] : Complete(toRank[r][i])

PeersOK(net) ==
  /\ DOMAIN net = SP
  /\ \A p \in SP : /\ DOMAIN net[p] = SP /\ net[p][p] = <<>>
                   /\ \A q \in SP : net[p][q] \in Seq(PeerMsgs(p))
IInv == SpPart /\ HostPart /\ FromPart /\ ToPart /\ PeersOK(peer)

-----------------------------------------------------------------------------
(* The invariant on versions *)

\* The version a cache is at: the one of its entries, or the one an empty cache
\* is about to start.
Cur(c) == IF Held(c.entries) = {} THEN c.num + 1 ELSE c.num

\* The ranks of the group on the other SPs, and those whose entries, or whose
\* add, are put off.
Others(p) == Group \ SpRanks(p)
Pending(c) == UNION {Held(c.pending_entries[i].entries) : i \in DOMAIN c.pending_entries}
Added(c) == {c.pending_adds[i].rank : i \in DOMAIN c.pending_adds}

\* All entries of a cache or of a message are of version n.
Uniform(f, n) == \A r \in Held(f) : f[r] = n

\* The messages of version n have the keys 2n (it is complete) and 2n+1 (it is
\* revoked): a channel is a stream of messages with increasing keys, between lo
\* and hi.
Key(m) == IF m.type = "add" THEN 2 * m.seq
          ELSE IF m.type = "revoke" THEN 2 * m.seq + 1
          ELSE 2 * FirstSeq(m)
Stream(ch, lo, hi) ==
  /\ \A i \in DOMAIN ch : Key(ch[i]) \in Nat /\ lo <= Key(ch[i]) /\ Key(ch[i]) <= hi
  /\ \A i, j \in DOMAIN ch : i < j => Key(ch[i]) < Key(ch[j])

\* The last key that an SP has sent to the other SPs and to its ranks, and the
\* next one that it waits for from one of its ranks and for a rank of another SP.
SpUp(p, c) == 2 * Cur(c) + (IF SpRanks(p) \subseteq c.revoked THEN 1
                            ELSE IF SpRanks(p) \subseteq Held(c.entries) THEN 0 ELSE -1)
SpDown(c)  == 2 * Cur(c) + (IF c.revoked = Group THEN 1
                            ELSE IF Held(c.entries) = Group THEN 0 ELSE -1)
FromRanks(c, r) == 2 * Cur(c) + (IF r \in Added(c) THEN 3
                                 ELSE IF r \in c.revoked THEN 2
                                 ELSE IF r \in Held(c.entries) THEN 1 ELSE 0)
FromPeer(c, r) == IF r \in Pending(c) THEN 2 * c.num + 3
                  ELSE 2 * Cur(c) + (IF r \in c.revoked \/ c.pending_revokes_from_sps # <<>> THEN 2
                                     ELSE IF r \in Held(c.entries) THEN 1 ELSE 0)

\* The last key that a rank's process has sent, and the next one it waits for.
HostUp(h) == 2 * Cur(h) + (IF h.global > 0 THEN 1
                           ELSE IF Held(h.entries) # {} THEN 0 ELSE -1)
HostFrom(h) == 2 * Cur(h) + (IF Held(h.entries) = Group THEN 1 ELSE 0)

\* The SP counts the ranks attached to it when it adds the first of them.
RanksCounted(p, c) ==
  c.sp_ranks = IF Held(c.entries) \cap SpRanks(p) = {} THEN 0 ELSE Cardinality(SpRanks(p))

\* The cache of SP p: one version, no assertion has failed, a revoke only of a
\* cache that is complete, and the ranks of the other SPs revoked together.
SpCore(p, c) ==
  /\ Uniform(c.entries, c.num) /\ c.failed = {}
  /\ c.global = Cardinality(c.revoked)
  /\ c.local = Cardinality(c.revoked \cap SpRanks(p))
  /\ c.revoked # {} => Held(c.entries) = Group
  /\ Held(c.entries) # {} => (c.num = c.revoke_posted <=> c.revoked = Group)
  /\ c.revoked \cap Others(p) = {} \/ Others(p) \subseteq c.revoked
  /\ RanksCounted(p, c)
  /\ c.pending_revokes_from_ranks = <<>>

\* What an SP puts off: adds of the next version once the current one is revoked
\* everywhere, entries of the next version once a rank has revoked the current
\* one, and one revoke of all ranks of the other SP, once the cache is complete.
AddsVer(c) ==
  \A i \in DOMAIN c.pending_adds : c.pending_adds[i].seq = c.num + 1 /\ c.revoked = Group
EntriesVer(c) ==
  \A i \in DOMAIN c.pending_entries :
    /\ Uniform(c.pending_entries[i].entries, c.num + 1) /\ c.num # 0
    /\ Held(c.entries) = {} \/ c.revoked # {}

RevokesVer(p, c) ==
  \A i \in DOMAIN c.pending_revokes_from_sps :
    LET m == c.pending_revokes_from_sps[i]
    IN  /\ i = 1 /\ m.seq = c.num /\ Held(c.entries) = Group
        /\ Others(p) # {} /\ Others(p) \cap c.revoked = {}
        /\ Others(p) \subseteq m.ranks /\ m.ranks \subseteq Others(p) \cup c.revoked

\* All of this together.
SpVer(p, c) == SpCore(p, c) /\ AddsVer(c) /\ EntriesVer(c) /\ RevokesVer(p, c)

\* A message of an SP that is about rank r.
About(m, r) == m.type = "revoke" \/ m.entries[r] # 0

\* A revoke of the other SP covers all its ranks, and besides them only ranks
\* that are revoked here already; entries are of one version.
PeerMsgVer(p, c, m) ==
  IF m.type = "revoke" THEN Others(p) \subseteq m.ranks /\ m.ranks \subseteq Others(p) \cup c.revoked
  ELSE Uniform(m.entries, FirstSeq(m))

\* Every message about r from key lo, the next one that is waited for, to key hi,
\* the last one sent, is in the channel, and no earlier one.
RankStream(ch, r, lo, hi) ==
  /\ \A i \in DOMAIN ch : About(ch[i], r) => lo <= Key(ch[i])
  /\ \A k \in lo .. hi : \E i \in DOMAIN ch : Key(ch[i]) = k /\ About(ch[i], r)
  /\ lo <= hi + 1

\* The channel from SP q, whose cache is b, to SP p, whose cache is c.
PeerOK(p, q, ch, c, b) ==
  /\ Stream(ch, 0, SpUp(q, b))
  /\ \A i \in DOMAIN ch : PeerMsgVer(p, c, ch[i])
  /\ \A r \in SpRanks(q) : RankStream(ch, r, FromPeer(c, r), SpUp(q, b))
PeerVer(p, q) == PeerOK(p, q, peer[q][p], sp[p], sp[q])

\* The cache of rank r: one version, with its own entry only or complete; it
\* revokes a cache that is complete, once per version.
HostVer(r, h) ==
  /\ Uniform(h.entries, h.num) /\ h.failed = {} /\ h.pending_entries = <<>>
  /\ h.global \in {0, 1} /\ h.pending_send_adds \in {0, 1}
  /\ Held(h.entries) # {} => r \in Held(h.entries)
  /\ h.global = 1 => Held(h.entries) = Group
  /\ h.pending_send_adds = 1 => h.global = 1
  /\ Held(h.entries) # {} => Held(h.entries) = {r} \/ Held(h.entries) = Group
  /\ h.frees = IF Held(h.entries) # {} /\ h.global = 0 THEN h.num - 1 ELSE h.num
  /\ h.creates = h.num + h.pending_send_adds

\* The channels of a rank of the group, from it and to it: what the receiver waits
\* for is the first message, or follows the last one sent.
FromRankOK(r, ch, c, h) ==
  Stream(ch, FromRanks(c, r), HostUp(h)) /\ FromRanks(c, r) <= HostUp(h) + 1
ToRankOK(ch, c, h) ==
  Stream(ch, HostFrom(h), SpDown(c)) /\ HostFrom(h) <= SpDown(c) + 1
RankVer(r) ==
  /\ HostVer(r, host[r]) /\ FromRankOK(r, fromRank[r], sp[spOf[r]], host[r])
  /\ ToRankOK(toRank[r], sp[spOf[r]], host[r])

\* The messages to any client of an SP, in the group or not.
ToOK(ch, c) ==
  \A i \in DOMAIN ch : /\ ch[i].type = "entries" => Uniform(ch[i].entries, FirstSeq(ch[i]))
                       /\ Key(ch[i]) <= SpDown(c)
ToVer(r) == ToOK(toRank[r], sp[spOf[r]])

\* The invariant on versions.
VInv == /\ \A p \in SP : SpVer(p, sp[p])
        /\ \A p, q \in SP : p # q => PeerVer(p, q)
        /\ \A r \in Group : RankVer(r)
        /\ \A r \in Rank : ToVer(r)

-----------------------------------------------------------------------------
(* Clients outside the group *)

\* The next key that a client outside the group waits for.  It takes the first
\* version as it comes.  Since is_group_cache_ready_for compares the version of an
\* empty cache with the one of the entries, it puts the entries of all later
\* versions off until they are revoked.
OutFrom(h) == IF h.pending_entries # <<>> THEN 2 * h.num + 3
              ELSE IF h.num = 1 /\ Held(h.entries) = Group THEN 3 ELSE 2 * h.num + 2

\* Its cache: of one version, complete or empty, and at most one message is put off.
OutCache(h) ==
  /\ Uniform(h.entries, h.num) /\ h.failed = {} /\ h.global = 0 /\ h.pending_send_adds = 0
  /\ \/ Held(h.entries) = {} /\ h.num \in {0, 1}
     \/ Held(h.entries) = Group /\ h.num # 0
  /\ h.pending_entries # <<>> =>
       /\ h.num # 0 /\ (h.num = 1 => Held(h.entries) = {})
       /\ Len(h.pending_entries) = 1 /\ Held(h.pending_entries[1].entries) = Group
       /\ Uniform(h.pending_entries[1].entries, h.num + 1)

\* The channel to it has every key, and all clients of an SP get the same messages.
Consecutive(ch, n) == \A i \in DOMAIN ch : Key(ch[i]) = n + (i - 1)
OutVer(r) ==
  /\ OutCache(host[r]) /\ Consecutive(toRank[r], OutFrom(host[r]))
  /\ \A s \in SpRanks(spOf[r]) :
       OutFrom(host[r]) + Len(toRank[r]) = HostFrom(host[s]) + Len(toRank[s])
OInv == \A r \in Rank \ Group : OutVer(r)

\* A rank of the group has got all messages of its SP but the one it waits for.
Waits(r) ==
  /\ HostFrom(host[r]) \in Nat /\ Len(toRank[r]) \in {0, 1}
  /\ \A i \in DOMAIN toRank[r] : Key(toRank[r][i]) = HostFrom(host[r])
MembersWait == \A r \in Group : Waits(r)

-----------------------------------------------------------------------------
(* Streams *)

\* The elements of a sequence and those of the sequence with one more.
Appended(q, m, a) ==
  /\ \A i \in DOMAIN a : a[i] = m \/ (i \in DOMAIN q /\ a[i] = q[i])
  /\ \A i \in DOMAIN q : i \in DOMAIN a /\ a[i] = q[i]
  /\ \E i \in DOMAIN a : a[i] = m

-----------------------------------------------------------------------------
(* The handlers of an SP: adding entries *)

\* A cache whose entries are of the version it is at, and counted.
CacheOK(c) ==
  /\ CommonFields \subseteq DOMAIN c /\ c.entries \in [Group -> Nat]
  /\ Uniform(c.entries, c.num) /\ c.num_local_entries = Cardinality(Held(c.entries))

\* d is the cache c with the entries f of version n added.
Stored(c, f, n, d) ==
  /\ d.num = n /\ Uniform(d.entries, n)
  /\ Held(d.entries) = Held(c.entries) \cup Held(f) /\ Held(d.entries) # {}
  /\ DOMAIN d = DOMAIN c
  /\ \A x \in DOMAIN c \ {"group_size", "num", "entries", "num_local_entries"} : d[x] = c[x]

-----------------------------------------------------------------------------
(* The steps of an SP *)

\* What a step that turns the cache c of SP p into d may send to the other SPs:
\* the next message of its stream.
UpMsg(p, c, m) ==
  IF m.type = "revoke"
  THEN /\ m.seq = c.num /\ Held(c.entries) # {} /\ SpRanks(p) \subseteq m.ranks
       /\ m.ranks \subseteq SpRanks(p) \/ Others(p) \subseteq c.revoked
  ELSE Held(m.entries) = SpRanks(p) /\ Uniform(m.entries, FirstSeq(m))

SendsUp(p, c, d) ==
  \/ d.toPeers = <<>> /\ SpUp(p, d) = SpUp(p, c)
  \/ /\ SpUp(p, d) = SpUp(p, c) + 1
     /\ \E m : d.toPeers = <<m>> /\ Key(m) = SpUp(p, d) /\ UpMsg(p, c, m)

\* What it may send to the clients: a message that is later in their streams.
SendsDown(c, d) ==
  \/ d.toHosts = <<>> /\ SpDown(c) <= SpDown(d)
  \/ /\ SpDown(c) < SpDown(d)
     /\ \E m : /\ d.toHosts = <<m>> /\ Key(m) = SpDown(d)
               /\ m.type = "entries" => Uniform(m.entries, FirstSeq(m))

\* A step of SP p, which takes a message of the ranks R or about the ranks Q of
\* another SP; n is the position it is then at in their streams.
SpStep(p, c, d, R, Q, n) ==
  /\ \A r \in R : FromRanks(d, r) = n
  /\ \A r \in Q : FromPeer(d, r) = n
  /\ SpVer(p, d) /\ SendsUp(p, c, d) /\ SendsDown(c, d)
  /\ c.revoked \subseteq d.revoked \/ c.revoked = Group
  /\ \A r \in SpRanks(p) \ R : FromRanks(d, r) = FromRanks(c, r)
  /\ \A r \in Others(p) \ Q : FromPeer(d, r) = FromPeer(c, r)

\* peer_cache_entries_recv_cb.
PeerEntriesRecv(p, c, m) ==
  LET e == CheckEntriesSeq(c, m)
  IN  IF MustQueueEntries(e, m) THEN QueueEntries(e, m) ELSE HandlePeerEntries(p, e, m.entries)

-----------------------------------------------------------------------------
(* The handlers of an SP: revokes *)

\* A revoke of another SP that is in turn.
RevokeInTurn(p, c, m) ==
  /\ m \in SpRevokeMsgs /\ m.seq = c.num
  /\ Others(p) \subseteq m.ranks /\ m.ranks \subseteq Others(p) \cup c.revoked
  /\ Others(p) # {} /\ Others(p) \cap c.revoked = {} /\ Others(p) \cap Pending(c) = {}
  /\ c.pending_revokes_from_sps = <<>>

-----------------------------------------------------------------------------
(* A step of an SP *)

\* There are at most two SPs, and each has at least two ranks of the group.
TwoSps ==
  /\ \A p, q, o \in SP : p # q => o \in {p, q}
  /\ \A p \in SP : \E r, s \in SpRanks(p) : r # s

-----------------------------------------------------------------------------
(* The messages of the ranks *)

\* What is known of a rank of the group, of its SP and of the channels between them.
RankOf(r, c, h, up, down) ==
  /\ r \in Group /\ SpOK(spOf[r], c) /\ SpVer(spOf[r], c) /\ HostOK(h) /\ HostVer(r, h)
  /\ up \in Seq(RankMsgs(r)) /\ down \in Seq(HostMsgs)
  /\ FromRankOK(r, up, c, h) /\ ToRankOK(down, c, h)

-----------------------------------------------------------------------------
(* Handlers that take a message in turn *)

\* The cache of an SP between two steps.
SpReady(p, c) == SpOK(p, c) /\ SpVer(p, c) /\ c.toPeers = <<>> /\ c.toHosts = <<>>

\* add_group_rank_recv_cb.
AddRecv(p, c, r, m) ==
  LET e == [c EXCEPT !.failed = @ \cup Unless(m.seq >= c.num, "add_seq")]
  IN  IF e.global > 0 THEN [e EXCEPT !.pending_adds = Append(@, m)]
      ELSE AddLocalRanks(p, e, Entry(r, m.seq))

\* The callback of a meta-event, which ends.
Completed(p, c, i) ==
  LET e == [c EXCEPT !.ongoing = SubSeq(@, 1, i - 1) \o SubSeq(@, i + 1, Len(@))]
  IN  IF c.ongoing[i] = "cache" THEN CacheSent(e) ELSE RevokeSent(p, e)

\* What the handlers do with a message that their SP waits for, and the callbacks
\* at any time: they keep the type of the cache and make a step of the SP.
AddsInTurn ==
  \A p \in SP : \A r \in SpRanks(p) : \A m \in AddMsgs({r}) : \A c :
    /\ SpReady(p, c) /\ m.seq >= c.num
    /\ \/ m.seq = Cur(c) /\ r \notin Held(c.entries)
       \/ m.seq = Cur(c) + 1 /\ c.revoked = Group
    => SpOK(p, AddRecv(p, c, r, m)) /\ SpStep(p, c, AddRecv(p, c, r, m), {r}, {}, 2 * m.seq + 1)
RankRevokesInTurn ==
  \A p \in SP : \A r \in SpRanks(p) : \A m \in RankRevokeMsgs(SpRanks(p)) : \A c :
    /\ SpReady(p, c) /\ m.rank = r /\ m.seq = c.num
    /\ Held(c.entries) = Group /\ r \notin c.revoked
    => SpOK(p, HandleRankRevoke(c, m)) /\ SpStep(p, c, HandleRankRevoke(c, m), {r}, {}, 2 * c.num + 2)
EntriesInTurn ==
  \A p \in SP : \A r \in Others(p) : \A f \in [Group -> Nat] : \A c :
    /\ SpReady(p, c) /\ Held(f) = {r} /\ SpOK(p, PeerEntriesRecv(p, c, EntriesMsg(f)))
    /\ \/ f[r] = Cur(c) /\ r \notin Held(c.entries)
       \/ f[r] = Cur(c) + 1 /\ c.revoked # {}
    => SpStep(p, c, PeerEntriesRecv(p, c, EntriesMsg(f)), {}, {r}, 2 * f[r] + 1)
SpRevokesInTurn ==
  \A p \in SP : \A c, m :
    SpReady(p, c) /\ Held(c.entries) = Group /\ RevokeInTurn(p, c, m)
    => SpOK(p, HandleSpRevoke(c, m)) /\ SpStep(p, c, HandleSpRevoke(c, m), {}, Others(p), 2 * c.num + 2)
CallbacksInTurn ==
  \A p \in SP : \A c : \A i \in DOMAIN c.ongoing :
    SpReady(p, c) => SpOK(p, Completed(p, c, i)) /\ SpStep(p, c, Completed(p, c, i), {}, {}, 2 * c.num + 2)
HandlersInTurn ==
  AddsInTurn /\ RankRevokesInTurn /\ EntriesInTurn /\ SpRevokesInTurn /\ CallbacksInTurn

\* A step of an SP, which the clients only see by the messages it sends them.
SpActs == \E p \in SP : \E d : SpOK(p, d) /\ Commit(p, d) /\ UNCHANGED host

==============================================================================
