------------------------------ MODULE GroupCache ------------------------------
(***************************************************************************)
(* The endpoint cache of one group (a sub-communicator identified by its   *)
(* group UID) as it is created, populated, revoked and created again.      *)
(*                                                                         *)
(* Every rank runs in its own process with its own copy of the cache and   *)
(* talks to one service process (SP); the SPs talk to each other.          *)
(*   create:  a rank adds itself locally and sends "add" to its SP; an SP  *)
(*            with all its ranks broadcasts their entries to the other     *)
(*            SPs; an SP whose cache is full sends it to its clients.      *)
(*   revoke:  a rank sends "revoke" to its SP; an SP whose ranks all       *)
(*            revoked broadcasts that; an SP that knows every rank revoked *)
(*            sends a final revoke to its clients and resets its cache.    *)
(* Messages and cache entries carry the group's sequence number, i.e. its  *)
(* version, and what arrives at the wrong time is put on pending lists.    *)
(*                                                                         *)
(* The world group is already populated: every SP is connected to every    *)
(* other one and to its clients.  A channel delivers in order.  The build  *)
(* is the default one (NDEBUG): an assertion stops nothing, and `failed`   *)
(* collects the assertions that would not have held.                       *)
(***************************************************************************)
EXTENDS Integers, Sequences, FiniteSets, FiniteSetsExt

CONSTANTS
  Rank,         \* the ranks connected to the SPs, by their world rank
  SP,           \* the service processes
  Group,        \* the ranks of the group
  spOf,         \* the SP a rank is connected to (its shadow SP)
  hostOf,       \* the host an SP serves
  MaxCreates,   \* bound: how often a rank creates the group
  Persistent,   \* engine->settings.persistent_endpoint_cache
  EagerFree     \* may the application free a group not yet populated?

ASSUME TopologyAssumption ==
  /\ Rank \subseteq Nat /\ IsFiniteSet(Rank) /\ Group \subseteq Rank /\ Group # {}
  /\ spOf \in [Rank -> SP]
  /\ MaxCreates \in Nat
  /\ Persistent \in BOOLEAN /\ EagerFree \in BOOLEAN

VARIABLES
  sp,        \* [SP -> the group cache of the SP, with its ongoing meta-events]
  host,      \* [Rank -> the group cache in the rank's process]
  fromRank,  \* [Rank -> messages on their way from the rank to its SP]
  peer,      \* [SP -> [SP -> messages between two SPs]]
  toRank     \* [Rank -> messages on their way from its SP to the rank]

vars == <<sp, host, fromRank, peer, toRank>>

GroupSize == Cardinality(Group)

\* The ranks whose SP is p: all its clients, and those in the group (sp_ranks).
Clients(p) == {r \in Rank : spOf[r] = p}
SpRanks(p) == {r \in Group : spOf[r] = p}

\* The ranks of the group on the host that p serves (rank_info.n_local_ranks).
HostRanks(p) == {r \in Group : hostOf[spOf[r]] = hostOf[p]}
SpsPerDpu(p) == Cardinality({q \in SP : hostOf[q] = hostOf[p]})

-----------------------------------------------------------------------------
(* Messages *)

AddMsg(r, n)       == [type |-> "add", rank |-> r, seq |-> n]
RankRevokeMsg(r, n) == [type |-> "revoke", rank |-> r, seq |-> n]
EntriesMsg(f)      == [type |-> "entries", entries |-> f]
RevokeMsg(R, n)    == [type |-> "revoke", ranks |-> R, seq |-> n]

\* Entries, in a cache and in a message: the version a rank was added with, 0
\* for a rank that is not set or not in the message.  Held: the ranks that are.
EmptyEntries == [r \in Group |-> 0]
Held(f) == {r \in Group : f[r] # 0}
Only(R, f) == [r \in Group |-> IF r \in R THEN f[r] ELSE 0]
Entry(r, n) == [s \in Group |-> IF s = r THEN n ELSE 0]

\* entries[0].peer.proc_info.group_seq_num
FirstSeq(m) == m.entries[Min(Held(m.entries))]

\* Assertions that do not hold are collected by name.
Unless(cond, name) == IF cond THEN {} ELSE {name}

-----------------------------------------------------------------------------
(* The part of a group cache that ranks and SPs have in common. *)

Populated(c) == c.global = 0 /\ c.group_size = c.num_local_entries

IsGroupReady(c, seq) ==
  c.num > 0 => /\ ~(c.num = seq + 1 /\ c.num_local_entries = 0)
               /\ c.num = seq

\* The ranks of the entries f that are not in the cache yet, and the version
\* the group switches to when the first of them is added.
Missing(c, f) == Held(f) \ Held(c.entries)
\* (A wrong NextNum: every addition is a new version.)
AlwaysNext(c, f) == IF Missing(c, f) # {} THEN c.num + 1 ELSE c.num
NextNum(c, f) ==
  IF Missing(c, f) # {} /\ c.num_local_entries = 0 THEN c.num + 1 ELSE c.num

\* (A wrong StoreEntries: what is already there is counted again.)
CountsDuplicates(c, f) ==
  [c EXCEPT !.group_size = GroupSize,
            !.num = NextNum(c, f),
            !.entries = [r \in Group |-> IF c.entries[r] = 0 THEN f[r] ELSE c.entries[r]],
            !.num_local_entries = @ + Cardinality(Held(f))]

\* Store the entries f of the ranks that are not in the cache.
StoreEntries(c, f) ==
  [c EXCEPT !.group_size = GroupSize,
            !.num = NextNum(c, f),
            !.entries = [r \in Group |-> IF c.entries[r] = 0 THEN f[r] ELSE c.entries[r]],
            !.num_local_entries = @ + Cardinality(Missing(c, f))]

\* handle_peer_cache_entries_recv up to the end of its loop.
AddEntries(c, f) ==
  [StoreEntries(c, f) EXCEPT
     !.failed = @ \cup Unless(\A r \in Missing(c, f) : f[r] = NextNum(c, f), "entry_seq")]

\* A list of entries taken one after the other: a rank gets the first, since
\* later ones find it in the cache.
Merge(q) ==
  [r \in Group |-> LET I == {i \in DOMAIN q : q[i][r] # 0}
                   IN  IF I = {} THEN 0 ELSE q[Min(I)][r]]

PendingEntries(c) ==
  Merge([i \in DOMAIN c.pending_entries |-> c.pending_entries[i].entries])

\* peer_cache_entries_recv_cb, up to the handling of the entries: they are put
\* off while the group is being revoked or at another version.
\* (A wrong MustQueueEntries: entries are handled as they come.)
NeverQueues(c, m) == FALSE
MustQueueEntries(c, m) == c.global > 0 \/ ~IsGroupReady(c, FirstSeq(m))
QueueEntries(c, m) == [c EXCEPT !.pending_entries = Append(@, m)]
CheckEntriesSeq(c, m) ==
  [c EXCEPT !.failed = @ \cup Unless(FirstSeq(m) >= c.num, "entries_seq")]

\* RESET_GROUP_CACHE: everything but the persistent part.
ResetCache(c) ==
  [c EXCEPT !.group_size = 0, !.entries = EmptyEntries,
            !.num_local_entries = 0, !.local = 0, !.global = 0]

-----------------------------------------------------------------------------
(* The group cache of an SP.  toPeers and toHosts are what the handler     *)
(* being run sends to all the other SPs and to all the clients.            *)

NewSpCache ==
  [num |-> 0, group_size |-> 0, entries |-> EmptyEntries,
   num_local_entries |-> 0, local |-> 0, global |-> 0,
   pending_entries |-> <<>>, failed |-> {},
   sent_to_host |-> 0, revoke_posted |-> 0, revoked |-> {},
   n_local_ranks |-> 0, n_local_ranks_populated |-> 0, sp_ranks |-> 0,
   pending_revokes_from_sps |-> <<>>, pending_revokes_from_ranks |-> <<>>,
   pending_adds |-> <<>>,
   ongoing |-> <<>>, toPeers |-> <<>>, toHosts |-> <<>>]

\* send_gp_cache_to_host: sent_to_host changes when the sends complete.
SendCacheToHost(c) ==
  IF c.sent_to_host < c.num
  THEN [c EXCEPT !.toHosts = Append(@, EntriesMsg(c.entries)),
                 !.ongoing = Append(@, "cache"),
                 !.failed = @ \cup Unless(Populated(c), "cache_populated")]
  ELSE c

AllRanksAreLocal(p, c) == SpsPerDpu(p) = 1 /\ c.group_size = c.n_local_ranks

\* (A wrong HandlePeerEntries: the full cache is not sent.)
NeverSends(p, c, f) == AddEntries(c, f)

\* handle_peer_cache_entries_recv on an SP.
HandlePeerEntries(p, c, f) ==
  LET d == AddEntries(c, f)
  IN  IF /\ Missing(c, f) # {}
         /\ d.num_local_entries = d.group_size
         /\ ~AllRanksAreLocal(p, d)
      THEN SendCacheToHost(d)
      ELSE d

\* HANDLE_PENDING_CACHE_ENTRIES on an SP.
HandlePendingEntries(p, c) ==
  IF c.pending_entries = <<>> THEN c
  ELSE HandlePeerEntries(p, [c EXCEPT !.pending_entries = <<>>], PendingEntries(c))

\* (A wrong BroadcastCache: entries of other SPs' ranks are passed on.)
PassesOn(p, c) ==
  LET d == [c EXCEPT !.toPeers = Append(@, EntriesMsg(c.entries))]
  IN  IF d.group_size = d.num_local_entries THEN SendCacheToHost(d) ELSE d
\* broadcast_group_cache: the entries of the ranks attached to p, then the
\* whole cache to the clients if it is full.
BroadcastCache(p, c) ==
  LET d == [c EXCEPT !.toPeers = Append(@, EntriesMsg(Only(SpRanks(p), c.entries)))]
  IN  IF d.group_size = d.num_local_entries THEN SendCacheToHost(d) ELSE d

\* GROUP_CACHE_EXCHANGE for a sub-communicator.
Exchange(p, c) ==
  IF c.sp_ranks = c.n_local_ranks_populated THEN BroadcastCache(p, c) ELSE c

\* do_add_group_rank_recv_cb, once the group is not being revoked, for the
\* ranks of f with the versions they were sent with.
AddLocalRanks(p, c, f) ==
  LET new == Missing(c, f)
      d   == StoreEntries(c, f)
      e   == IF new = {} THEN d
             ELSE [d EXCEPT
                    !.n_local_ranks = IF @ = 0 THEN Cardinality(HostRanks(p)) ELSE @,
                    !.n_local_ranks_populated = @ + Cardinality(new),
                    !.sp_ranks = IF @ = 0 THEN Cardinality(SpRanks(p)) ELSE @]
  IN  Exchange(p, HandlePendingEntries(p, e))

\* handle_pending_group_cache_add_msgs.  The adds are handled together: only
\* the last of them can complete the ranks attached to p.
HandlePendingAdds(p, c) ==
  LET q == c.pending_adds
      f == Merge([i \in DOMAIN q |-> Entry(q[i].rank, q[i].seq)])
      InOrderOfVersions == \A i \in DOMAIN q :
                             q[i].seq >= IF i = 1 THEN c.num ELSE NextNum(c, f)
  IN  IF q = <<>> THEN c
      ELSE AddLocalRanks(p, [c EXCEPT !.pending_adds = <<>>,
                                      !.failed = @ \cup Unless(InOrderOfVersions, "add_seq")],
                         f)

\* send_revoke_group_to_ranks.
SendFinalRevoke(c) ==
  [c EXCEPT !.toHosts = Append(@, RevokeMsg(Group, c.num)),
            !.ongoing = Append(@, "revoke"),
            !.failed = @ \cup Unless(c.revoke_posted + 1 = c.num, "revoke_posted"),
            !.revoke_posted = c.num]

\* (A wrong FinalRevokeDue: not all ranks revoked.)
DueEarly(c) == c.revoke_posted < c.num
FinalRevokeDue(c) == c.global = c.group_size /\ c.revoke_posted < c.num

\* Mark the ranks R as having revoked the group.
MarkRevoked(c, R) ==
  [c EXCEPT !.revoked = @ \cup R,
            !.global = @ + Cardinality(R \ c.revoked)]

\* HANDLE_PENDING_GROUP_REVOKE_MSGS_FROM_SPS.
PendingRevokes(c) ==
  UNION {c.pending_revokes_from_sps[i].ranks : i \in DOMAIN c.pending_revokes_from_sps}
\* (A wrong HandlePendingRevokes: the list is dropped.)
DropsRevokes(c) == [c EXCEPT !.pending_revokes_from_sps = <<>>]
HandlePendingRevokes(c) ==
  LET q == c.pending_revokes_from_sps
  IN  IF q = <<>> THEN c
      ELSE [MarkRevoked(c, PendingRevokes(c)) EXCEPT
             !.pending_revokes_from_sps = <<>>,
             !.failed = @ \cup Unless(\A i \in DOMAIN q : q[i].seq = c.num,
                                      "pending_revoke_seq")]

\* handle_revoke_group_rank_through_list_ranks on an SP: a revoke of another SP.
HandleSpRevoke(c, m) ==
  LET d == MarkRevoked([c EXCEPT !.group_size = IF @ = 0 THEN GroupSize ELSE @], m.ranks)
      e == IF m.ranks \subseteq c.revoked \/ ~FinalRevokeDue(d) THEN d
           ELSE SendFinalRevoke(d)
  IN  [ IF c.group_size # c.num_local_entries \/ c.sp_ranks # c.local
        THEN [c EXCEPT !.pending_revokes_from_sps = Append(@, m)]
        ELSE e
      EXCEPT !.failed = @ \cup Unless(c.n_local_ranks # 0 => m.seq = c.num, "revoke_seq") ]

\* The last part of handle_revoke_group_rank_through_rank_info, when all the
\* ranks attached to the SP revoked the group: tell the other SPs, then take
\* what the other SPs said in the meantime into account.
LocalRevokesDone(c) ==
  IF c.local = c.sp_ranks
  THEN HandlePendingRevokes([c EXCEPT !.toPeers = Append(@, RevokeMsg(c.revoked, c.num))])
  ELSE c

\* handle_revoke_group_rank_through_rank_info: a revoke of a local rank.
HandleRankRevoke(c, m) ==
  LET d == [c EXCEPT !.failed = @ \cup (Unless(c.entries[m.rank] # 0, "revoke_in_cache")
                                   \cup Unless(m.rank \notin c.revoked, "revoked_twice"))]
      e == LocalRevokesDone(
             [d EXCEPT !.revoked = @ \cup {m.rank},
                       !.local = @ + 1,
                       !.global = @ + 1,
                       !.failed = @ \cup Unless(m.seq = c.num, "rank_revoke_seq")])
  IN  IF c.group_size # c.num_local_entries
      THEN [d EXCEPT !.pending_revokes_from_ranks = Append(@, m)]
      ELSE IF FinalRevokeDue(e) THEN SendFinalRevoke(e) ELSE e

\* group_cache_send_to_local_ranks_cb: the cache reached the clients.
CacheSent(c) ==
  LET d == HandlePendingRevokes([c EXCEPT !.sent_to_host = c.num])
  IN  IF ~(PendingRevokes(c) \subseteq c.revoked) /\ FinalRevokeDue(d)
      THEN SendFinalRevoke(d)
      ELSE d

\* revoke_group_cache, then the pending entries, on an SP.
RevokeSpCache(p, c) ==
  HandlePendingEntries(p,
    [ResetCache(c) EXCEPT !.revoked = {}, !.n_local_ranks = 0,
                          !.n_local_ranks_populated = 0, !.sp_ranks = 0])

\* revoke_send_to_host_cb: the final revoke reached the clients.
RevokeSent(p, c) == HandlePendingAdds(p, RevokeSpCache(p, c))

-----------------------------------------------------------------------------
(* The group cache of a rank's process, with the application that uses it: *)
(* how often it created and freed the group.                               *)

NewHostCache ==
  [num |-> 0, group_size |-> 0, entries |-> EmptyEntries,
   num_local_entries |-> 0, local |-> 0, global |-> 0,
   pending_entries |-> <<>>, failed |-> {},
   pending_send_adds |-> 0, creates |-> 0, frees |-> 0]

\* do_send_add_group_rank_request: the rank is added to the local cache; the
\* message has the version the cache is then at.
AddSelf(h, r) ==
  StoreEntries(h, Entry(r, IF h.num_local_entries = 0 THEN h.num + 1 ELSE h.num))

\* handle_revoke_group_rank_through_list_ranks on the host, up to the
\* pending send: revoke_group_cache with its pending entries.
RevokeHostCache(h) ==
  LET d == ResetCache(h)
  IN  IF h.pending_entries = <<>> THEN d
      ELSE AddEntries([d EXCEPT !.pending_entries = <<>>], PendingEntries(h))

-----------------------------------------------------------------------------
(* Specification *)

Init ==
  /\ sp = [p \in SP |-> NewSpCache]
  /\ host = [r \in Rank |-> NewHostCache]
  /\ fromRank = [r \in Rank |-> <<>>]
  /\ peer = [p \in SP |-> [q \in SP |-> <<>>]]
  /\ toRank = [r \in Rank |-> <<>>]

\* The state an SP's handler leaves, and what it sent.
Commit(p, c) ==
  /\ sp' = [sp EXCEPT ![p] = [c EXCEPT !.toPeers = <<>>, !.toHosts = <<>>]]
  /\ toRank' = [r \in Rank |-> IF r \in Clients(p) THEN toRank[r] \o c.toHosts
                                                   ELSE toRank[r]]

SendToPeers(p, c, net) ==
  peer' = [net EXCEPT ![p] = [q \in SP |-> IF q = p THEN net[p][q]
                                           ELSE net[p][q] \o c.toPeers]]

\* The application of rank r creates the group: send_add_group_rank_request.
Create(r) ==
  /\ r \in Group
  /\ host[r].creates = host[r].frees
  /\ host[r].creates < MaxCreates
  /\ LET h == [host[r] EXCEPT !.creates = @ + 1]
     IN  IF h.global = 0
         THEN /\ host' = [host EXCEPT ![r] = AddSelf(h, r)]
              /\ fromRank' = [fromRank EXCEPT ![r] = Append(@, AddMsg(r, AddSelf(h, r).num))]
         ELSE /\ host' = [host EXCEPT ![r] = [h EXCEPT !.pending_send_adds = @ + 1]]
              /\ UNCHANGED fromRank
  /\ UNCHANGED <<sp, peer, toRank>>

\* (A wrong Free: the persistent cache is revoked all the same.)
FreeRevokes(r) ==
  /\ r \in Group
  /\ host[r].creates > host[r].frees
  /\ EagerFree \/ Populated(host[r])
  /\ host' = [host EXCEPT ![r].frees = @ + 1, ![r].local = @ + 1, ![r].global = @ + 1]
  /\ fromRank' = [fromRank EXCEPT ![r] = Append(@, RankRevokeMsg(r, host[r].num))]
  /\ UNCHANGED <<sp, peer, toRank>>

\* The application of rank r frees the group:
\* send_revoke_group_rank_request_through_rank_info.
Free(r) ==
  /\ r \in Group
  /\ host[r].creates > host[r].frees
  /\ EagerFree \/ Populated(host[r])
  /\ IF Persistent
     THEN /\ host' = [host EXCEPT ![r].frees = @ + 1]
          /\ UNCHANGED fromRank
     ELSE /\ host' = [host EXCEPT ![r].frees = @ + 1, ![r].local = @ + 1,
                                  ![r].global = @ + 1]
          /\ fromRank' = [fromRank EXCEPT ![r] = Append(@, RankRevokeMsg(r, host[r].num))]
  /\ UNCHANGED <<sp, peer, toRank>>

\* add_group_rank_recv_cb on the SP of r.
RecvAdd(r) ==
  /\ fromRank[r] # <<>> /\ Head(fromRank[r]).type = "add"
  /\ LET p == spOf[r]
         m == Head(fromRank[r])
         c == [sp[p] EXCEPT !.failed = @ \cup Unless(m.seq >= sp[p].num, "add_seq")]
         d == IF c.global > 0
              THEN [c EXCEPT !.pending_adds = Append(@, m)]
              ELSE AddLocalRanks(p, c, Entry(r, m.seq))
     IN  Commit(p, d) /\ SendToPeers(p, d, peer)
  /\ fromRank' = [fromRank EXCEPT ![r] = Tail(@)]
  /\ UNCHANGED host

\* revoke_group_from_rank_recv_cb on the SP of r.
RecvRankRevoke(r) ==
  /\ fromRank[r] # <<>> /\ Head(fromRank[r]).type = "revoke"
  /\ LET p == spOf[r]
         d == HandleRankRevoke(sp[p], Head(fromRank[r]))
     IN  Commit(p, d) /\ SendToPeers(p, d, peer)
  /\ fromRank' = [fromRank EXCEPT ![r] = Tail(@)]
  /\ UNCHANGED host

\* One entry of the message at the head of a channel, in rank order, and the
\* channel without it: an SP sends one message per local rank.
FirstRank(m) == Min(Held(m.entries))
FirstEntry(m) == EntriesMsg(Only({FirstRank(m)}, m.entries))
WithoutFirst(ch) ==
  LET rest == Only(Group \ {FirstRank(Head(ch))}, Head(ch).entries)
  IN  IF Held(rest) = {} THEN Tail(ch) ELSE <<EntriesMsg(rest)>> \o Tail(ch)

\* peer_cache_entries_recv_cb on SP p, for an entry that SP q sent.
RecvPeerEntries(p, q) ==
  /\ peer[q][p] # <<>> /\ Head(peer[q][p]).type = "entries"
  /\ LET m == FirstEntry(Head(peer[q][p]))
         c == CheckEntriesSeq(sp[p], m)
         d == IF MustQueueEntries(c, m) THEN QueueEntries(c, m)
              ELSE HandlePeerEntries(p, c, m.entries)
     IN  Commit(p, d) /\ SendToPeers(p, d, [peer EXCEPT ![q][p] = WithoutFirst(@)])
  /\ UNCHANGED <<host, fromRank>>

\* revoke_group_from_sp_recv_cb on SP p, for a message that SP q sent.
RecvSpRevoke(p, q) ==
  /\ peer[q][p] # <<>> /\ Head(peer[q][p]).type = "revoke"
  /\ LET d == HandleSpRevoke(sp[p], Head(peer[q][p]))
     IN  Commit(p, d) /\ SendToPeers(p, d, [peer EXCEPT ![q][p] = Tail(@)])
  /\ UNCHANGED <<host, fromRank>>

\* The i-th of the ongoing meta-events of p completes (event_completed in
\* progress_econtext_sends, which walks the whole list) and its completion
\* callback is invoked.
MetaEventCompleted(p, i) ==
  /\ i \in DOMAIN sp[p].ongoing
  /\ LET c == [sp[p] EXCEPT !.ongoing = SubSeq(@, 1, i - 1) \o SubSeq(@, i + 1, Len(@))]
         d == IF sp[p].ongoing[i] = "cache" THEN CacheSent(c) ELSE RevokeSent(p, c)
     IN  Commit(p, d) /\ SendToPeers(p, d, peer)
  /\ UNCHANGED <<host, fromRank>>

\* peer_cache_entries_recv_cb in the process of rank r.
RecvCache(r) ==
  /\ toRank[r] # <<>> /\ Head(toRank[r]).type = "entries"
  /\ LET m == Head(toRank[r])
         h == CheckEntriesSeq(host[r], m)
     IN  host' = [host EXCEPT ![r] = IF MustQueueEntries(h, m) THEN QueueEntries(h, m)
                                     ELSE AddEntries(h, m.entries)]
  /\ toRank' = [toRank EXCEPT ![r] = Tail(@)]
  /\ UNCHANGED <<sp, fromRank, peer>>

\* revoke_group_from_sp_recv_cb in the process of rank r: the final revoke.
RecvFinalRevoke(r) ==
  /\ toRank[r] # <<>> /\ Head(toRank[r]).type = "revoke"
  /\ LET h == RevokeHostCache(host[r])
     IN  IF h.pending_send_adds > 0
         THEN LET a == AddSelf([h EXCEPT !.pending_send_adds = @ - 1], r)
              IN  /\ host' = [host EXCEPT ![r] = a]
                  /\ fromRank' = [fromRank EXCEPT ![r] = Append(@, AddMsg(r, a.num))]
         ELSE /\ host' = [host EXCEPT ![r] = h]
              /\ UNCHANGED fromRank
  /\ toRank' = [toRank EXCEPT ![r] = Tail(@)]
  /\ UNCHANGED <<sp, peer>>

Application(r) == Create(r) \/ Free(r)
Library ==
  \/ \E r \in Rank : RecvAdd(r) \/ RecvRankRevoke(r) \/ RecvCache(r) \/ RecvFinalRevoke(r)
  \/ \E p, q \in SP : RecvPeerEntries(p, q) \/ RecvSpRevoke(p, q)
  \/ \E p \in SP : \E i \in DOMAIN sp[p].ongoing : MetaEventCompleted(p, i)

\* There is something to deliver or to complete.
CanProgress ==
  \/ \E r \in Rank : fromRank[r] # <<>> \/ toRank[r] # <<>>
  \/ \E p, q \in SP : peer[p][q] # <<>>
  \/ \E p \in SP : sp[p].ongoing # <<>>

\* The processes call offload_engine_progress and it finds nothing to do.
Idle == ~CanProgress /\ UNCHANGED vars

Next == Library \/ (\E r \in Rank : Application(r)) \/ Idle

Spec == Init /\ [][Next]_vars

\* The processes keep calling offload_engine_progress, which delivers what
\* arrived and completes what was sent: as long as there is anything left to
\* deliver or to complete, some of it is.  This is WF_vars(Library), spelled
\* out: Library is enabled exactly when there is something to progress, and its
\* steps are those that are not steps of an application.  Nothing is assumed of
\* the application.
LibraryStep ==
  \A r \in Rank : host'[r].creates = host[r].creates /\ host'[r].frees = host[r].frees
Fairness == []<>(~CanProgress) \/ []<><<LibraryStep>>_vars

FairSpec == Spec /\ Fairness

\* The same, as it is usually written, for instances on which TLC can evaluate it.
WeakFairSpec == Spec /\ WF_vars(Library)

-----------------------------------------------------------------------------
(* Properties *)

Names == {"entry_seq", "entries_seq", "add_seq", "cache_populated", "revoke_posted",
          "pending_revoke_seq", "revoke_seq", "rank_revoke_seq", "revoke_in_cache",
          "revoked_twice"}

SetEntries(c) == Held(c.entries)

\* Versions are positive; the entries of some of the ranks S.
Version == Nat \ {0}
EntriesOf(S) == {f \in [Group -> Nat] : Held(f) # {} /\ Held(f) \subseteq S}

EntriesMsgs(S) == [type : {"entries"}, entries : EntriesOf(S)]
SpRevokeMsgs   == [type : {"revoke"}, ranks : SUBSET Group, seq : Nat]
AddMsgs(S)     == [type : {"add"}, rank : S, seq : Version]
RankRevokeMsgs(S) == [type : {"revoke"}, rank : S, seq : Nat]

PeerMsgs(p) == EntriesMsgs(SpRanks(p)) \cup SpRevokeMsgs
HostMsgs    == EntriesMsgs(Group) \cup SpRevokeMsgs
RankMsgs(r) == AddMsgs({r} \cap Group) \cup RankRevokeMsgs({r} \cap Group)

SpCaches(p) ==
  [num : Nat, group_size : {0, GroupSize}, entries : [Group -> Nat],
   num_local_entries : Nat, local : Nat, global : Nat,
   pending_entries : Seq(EntriesMsgs(Group \ SpRanks(p))), failed : SUBSET Names,
   sent_to_host : Nat, revoke_posted : Nat, revoked : SUBSET Group,
   n_local_ranks : Nat, n_local_ranks_populated : Nat, sp_ranks : Nat,
   pending_revokes_from_sps : Seq(SpRevokeMsgs),
   pending_revokes_from_ranks : Seq(RankRevokeMsgs(SpRanks(p))),
   pending_adds : Seq(AddMsgs(SpRanks(p))),
   ongoing : Seq({"cache", "revoke"}), toPeers : Seq(PeerMsgs(p)), toHosts : Seq(HostMsgs)]

HostCaches ==
  [num : Nat, group_size : {0, GroupSize}, entries : [Group -> Nat],
   num_local_entries : Nat, local : Nat, global : Nat,
   pending_entries : Seq(EntriesMsgs(Group)), failed : SUBSET Names,
   pending_send_adds : Nat, creates : Nat, frees : Nat]

\* Every field and every message in flight has its type; in particular an SP
\* only ever sends and receives entries of the ranks attached to the sender,
\* and nothing to itself.
TypeOK ==
  /\ DOMAIN sp = SP /\ DOMAIN host = Rank /\ DOMAIN fromRank = Rank
  /\ DOMAIN toRank = Rank /\ DOMAIN peer = SP
  /\ \A p \in SP : sp[p] \in SpCaches(p)
  /\ \A r \in Rank : /\ host[r] \in HostCaches
                     /\ fromRank[r] \in Seq(RankMsgs(r))
                     /\ toRank[r] \in Seq(HostMsgs)
  /\ \A p \in SP : DOMAIN peer[p] = SP /\ peer[p][p] = <<>>
  /\ \A p, q \in SP : peer[p][q] \in Seq(PeerMsgs(p))

\* What holds of the cache of an SP by itself: versions come and go in turn.
\* A version starts with the first entry added to an empty cache, and ends
\* when its final revoke, posted once, completes; entries and messages in
\* between are counted and complete.
Complete(m) == m.type = "entries" => Held(m.entries) = Group
RevokesOf(c) == {i \in DOMAIN c.ongoing : c.ongoing[i] = "revoke"}
SpCacheInv(p, c) ==
  /\ c.num_local_entries = Cardinality(Held(c.entries))
  /\ c.n_local_ranks_populated = Cardinality(Held(c.entries) \cap SpRanks(p))
  /\ c.num_local_entries # 0 => c.group_size = GroupSize
  /\ c.num = c.revoke_posted \/ c.num = c.revoke_posted + 1
  /\ c.num_local_entries = 0 => c.num = c.revoke_posted
  /\ RevokesOf(c) # {} => c.num = c.revoke_posted /\ c.num_local_entries # 0
  /\ \A i, j \in RevokesOf(c) : i = j
  /\ c.failed \cap {"cache_populated", "revoke_posted"} = {}
  /\ \A i \in DOMAIN c.toHosts : Complete(c.toHosts[i])
HostCacheInv(h) ==
  /\ h.num_local_entries = Cardinality(Held(h.entries))
  /\ h.num_local_entries # 0 => h.num # 0 /\ h.group_size = GroupSize
LifecycleInv ==
  /\ \A p \in SP : SpCacheInv(p, sp[p]) /\ sp[p].toPeers = <<>> /\ sp[p].toHosts = <<>>
  /\ \A r \in Rank : HostCacheInv(host[r])
  /\ \A r \in Rank : host[r].pending_send_adds # 0 => r \in Group
  /\ \A r \in Rank : \A i \in DOMAIN toRank[r] : Complete(toRank[r][i])

\* No assertion on sequence numbers, populated caches or repeated revokes in
\* the handlers of the group cache is ever violated, whatever the order in
\* which ranks, SPs and completions take their steps.
AssertionsHold ==
  /\ \A p \in SP : sp[p].failed = {}
  /\ \A r \in Rank : host[r].failed = {}

\* handle_revoke_group_rank_through_list_ranks: "If we have local ranks
\* involved in the group, the seq numbers must match": a revoke of another SP
\* is about the version of the group that the SP holds.
RevokesOfThisVersion == \A p \in SP : "revoke_seq" \notin sp[p].failed

\* num_local_entries is the number of entries that are set, on SPs and in
\* the ranks' processes, although it is incremented in three places (adds of
\* local ranks, entries of peers, the process's own rank) and duplicates
\* arrive; n_local_ranks_populated counts those of the SP's own ranks.
EntriesCounted ==
  /\ \A p \in SP : /\ sp[p].num_local_entries = Cardinality(SetEntries(sp[p]))
                   /\ sp[p].n_local_ranks_populated
                        = Cardinality(SetEntries(sp[p]) \cap SpRanks(p))
  /\ \A r \in Rank : host[r].num_local_entries = Cardinality(SetEntries(host[r]))

\* A cache never mixes entries of two instantiations of the group: whatever
\* is set was added with the version the cache is at.
EntriesOfOneVersion ==
  \A c \in {sp[p] : p \in SP} \cup {host[r] : r \in Rank} :
    \A r \in SetEntries(c) : c.entries[r] = c.num

\* An SP only ever sends its clients a complete cache.
CacheMsgsComplete ==
  \A r \in Rank : \A i \in DOMAIN toRank[r] : Complete(toRank[r][i])

\* A final revoke for a version is only sent, and an SP only forgets a
\* version, when every rank of the group freed that version.
RevokeIsGlobal ==
  /\ \A r \in Rank : \A i \in DOMAIN toRank[r] :
       LET m == toRank[r][i]
       IN  m.type = "revoke" => \A s \in Group : host[s].frees >= m.seq
  /\ \A p \in SP : \A s \in Group : host[s].frees >= sp[p].revoke_posted

\* A version ends by a revocation: an SP moves on to another version only
\* from an empty cache whose final revoke was posted, and by one.
VersionStep ==
  [][\A p \in SP : sp'[p].num # sp[p].num =>
       /\ sp'[p].num = sp[p].num + 1
       /\ sp[p].revoke_posted = sp[p].num]_vars

\* persistent.sent_to_host: "the group sequence number for which it was sent".
\* An SP that is still collecting the entries of a version has not sent it.
SentAsRecorded ==
  \A p \in SP : sp[p].num_local_entries \notin {0, GroupSize} => sp[p].sent_to_host < sp[p].num

\* Once every rank of the group created it for the n-th time, every rank
\* that did not free it meanwhile finds its cache populated.  What can prevent
\* it is that the sends of an older version complete late, and an SP takes the
\* version it is collecting for sent; nothing else can.
CreateCompletes ==
  []SentAsRecorded =>
    \A n \in 1..MaxCreates :
      (\A r \in Group : host[r].creates >= n)
        ~> (\A r \in Group : host[r].frees >= n \/ (host[r].num = n /\ Populated(host[r])))

\* With a persistent cache (the default) freeing is a local operation and the
\* group is always the same: its first version stays, no entry is ever taken
\* away and nothing is ever revoked, however often ranks create the group.
PersistentStays ==
  [][ /\ \A p \in SP : /\ sp'[p].num <= 1 /\ sp'[p].global = 0
                       /\ SetEntries(sp[p]) \subseteq SetEntries(sp'[p])
      /\ \A r \in Rank : /\ host'[r].num <= 1 /\ host'[r].global = 0
                         /\ SetEntries(host[r]) \subseteq SetEntries(host'[r]) ]_vars

\* With a persistent cache every rank of a group that all created has it populated.
PersistentPopulates ==
  (\A r \in Group : host[r].creates >= 1) ~> [](\A r \in Group : Populated(host[r]))

\* peer_cache_entries_recv_cb: "the queued cache entry will be handled once
\* the group is fully revoked".
QueuedEntriesHandled ==
  \A p \in SP : sp[p].pending_entries # <<>> ~> sp[p].pending_entries = <<>>

\* handle_revoke_group_rank_through_rank_info: "Group cache is not fully
\* populated yet, queuing the revoke request": a queued request is a request
\* that is handled later.
QueuedRevokesHandled ==
  \A p \in SP : sp[p].pending_revokes_from_ranks # <<>>
                  ~> sp[p].pending_revokes_from_ranks = <<>>

\* The ranks of the group go through a barrier when they create the group
\* and through another one when they free it.  A rank saw the last version
\* populated unless its cache is partly filled, and revoked if it is empty.
Barrier == INSTANCE GroupBarrier WITH
  Member  <- Group,
  creates <- [r \in Group |-> host[r].creates],
  frees   <- [r \in Group |-> host[r].frees],
  seen    <- [r \in Group |->
                IF host[r].num_local_entries \in {0, GroupSize} THEN host[r].num
                                                                ELSE host[r].num - 1],
  revoked <- [r \in Group |-> IF host[r].num_local_entries = 0 THEN host[r].num
                                                               ELSE host[r].num - 1]
ImplementsBarrier == Barrier!BSpec

\* Once all ranks of the group freed it for the last time, no SP and no client
\* of an SP holds an entry or a revoke of the group any longer.
EveryoneForgets ==
  (\A r \in Group : host[r].frees = MaxCreates)
    ~> (\A c \in {sp[p] : p \in SP} \cup {host[r] : r \in Rank} :
          c.num_local_entries = 0 /\ c.global = 0 /\ c.num = MaxCreates)
=============================================================================
