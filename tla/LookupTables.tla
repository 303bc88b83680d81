----------------------------- MODULE LookupTables -----------------------------
(***************************************************************************)
(* The topology of a group and its lookup tables, in the group cache of    *)
(* one process.                                                            *)
(*                                                                         *)
(* Every cache entry that a process learns about (GroupCache models how it *)
(* does) updates counters, bitsets and hash tables: which SPs and hosts    *)
(* are in the group, with which ranks.  When the cache is complete, an SP  *)
(* builds contiguous, ordered tables from them; otherwise the first lookup *)
(* of a process does, whether or not the cache is complete.  The lookups   *)
(* translate between the IDs of the job and the IDs in the group.          *)
(* Revoking the group resets everything.                                   *)
(*                                                                         *)
(* A table is a function from 0..n-1, as in the code.                      *)
(***************************************************************************)
EXTENDS Integers, FiniteSets, FiniteSetsExt, SequencesExt, TLC

CONSTANTS
  NumRanks,      \* the size of the group
  NumSps,        \* the number of SPs of the job
  NumHosts,      \* the number of hosts of the job
  hostOf,        \* hostOf[s]: the index of the host of SP s in the configuration
  Mappings,      \* the possible mappings from the ranks to their SPs
  MaxVersions    \* bound: how often the group is created

Rank == 0..(NumRanks - 1)
SP   == 0..(NumSps - 1)
Host == 0..(NumHosts - 1)

ASSUME LookupAssumption ==
  /\ {NumRanks, NumSps, NumHosts, MaxVersions} \subseteq Nat \ {0}
  /\ hostOf \in [SP -> Host]
  /\ Mappings \subseteq [Rank -> SP]

\* The result of a lookup that fails, and of one that reads a table or follows
\* a pointer it should not.
ERROR == -1
CRASH == -2

VARIABLES
  me,        \* the process: an SP, a rank, or a rank in the world group
  shadow,    \* shadow[r]: the SP that rank r is attached to
  gp,        \* its group cache
  version,   \* persistent.num of the group cache
  failed,    \* the accesses outside of a bitset
  basis      \* history: the ranks the tables of this version are built from, all
             \* of them unless a lookup came before the cache was complete

vars == <<me, shadow, gp, version, failed, basis>>

-----------------------------------------------------------------------------
(* Bitsets: the sets of the bits that are set. *)

CHAR_BIT == 8

\* GROUP_CACHE_BITSET_NSLOTS
NSlots(size) == (size + CHAR_BIT - 1) \div CHAR_BIT

\* GROUP_CACHE_BITSET_SET stays within a bitset created for this size.
InBitset(bit, size) == bit \div CHAR_BIT < NSlots(size)

\* The table of n entries for the bits that are set, in order.  The loops that
\* fill one stop at n entries and not at the end of the bitset: past the last bit
\* they read what follows it in memory, and such an entry is no rank, SP or host.
Ordered(bits, n) ==
  [i \in 0..(n - 1) |->
     IF i < Cardinality(bits)
     THEN CHOOSE b \in bits : Cardinality({c \in bits : c < b}) = i
     ELSE CRASH]
Sorted(S) == Ordered(S, Cardinality(S))

-----------------------------------------------------------------------------
(* Operations on the group cache *)

Empty == [x \in {} |-> 0]

\* INIT_GROUP_CACHE
NewGroup ==
  [set |-> {}, n_sps |-> 0, sps_bitset |-> {}, sps_hash |-> Empty, sps |-> Empty,
   n_hosts |-> 0, hosts_bitset |-> {}, hosts_hash |-> Empty, hosts |-> Empty,
   populated |-> FALSE]

\* update_topology_data, the part on the SP.
AddSp(g, r, s) ==
  [g EXCEPT !.n_sps = @ + 1,
            !.sps_bitset = @ \union {s},
            !.sps_hash = (s :> [n_ranks |-> 1, ranks_bitset |-> {r},
                                lid |-> ERROR, ranks |-> Empty]) @@ @]
RankOfSp(g, r, s) ==
  [g EXCEPT !.sps_hash[s].n_ranks = @ + 1, !.sps_hash[s].ranks_bitset = @ \union {r}]
UpdateSp(g, r, s) ==
  IF s \in DOMAIN g.sps_hash THEN RankOfSp(g, r, s) ELSE AddSp(g, r, s)

\* update_topology_data, the part on the host.  (EverySp: an SP is counted for
\* every rank.)
AddHost(g, r, s, h) ==
  [g EXCEPT !.n_hosts = @ + 1,
            !.hosts_bitset = @ \union {h},
            !.hosts_hash = (h :> [num_ranks |-> 1, ranks_bitset |-> {r}, num_sps |-> 1,
                                  sps_bitset |-> {s}, sps |-> Empty]) @@ @]
CountSps(d, s, n) ==
  [d EXCEPT !.num_sps = @ + n, !.sps_bitset = @ \union {s}]
EverySp(g, r, s, h) ==
  IF h \in DOMAIN g.hosts_hash
  THEN [g EXCEPT !.hosts_hash[h] =
          [CountSps(@, s, 1) EXCEPT !.num_ranks = @ + 1, !.ranks_bitset = @ \union {r}]]
  ELSE AddHost(g, r, s, h)
UpdateHost(g, r, s, h) ==
  IF h \in DOMAIN g.hosts_hash
  THEN [g EXCEPT !.hosts_hash[h] =
          [CountSps(@, s, IF s \in @.sps_bitset THEN 0 ELSE 1)
             EXCEPT !.num_ranks = @ + 1, !.ranks_bitset = @ \union {r}]]
  ELSE AddHost(g, r, s, h)
UpdateTopology(g, r, s) == UpdateHost(UpdateSp(g, r, s), r, s, hostOf[s])

\* An entry for rank r is set, and the topology updated.
AddEntry(g, r) == UpdateTopology([g EXCEPT !.set = @ \union {r}], r, shadow[r])

\* The loop of handle_peer_cache_entries_recv: entries in the order of their
\* ranks, those that are in the cache skipped.
AddEntries(g, R) == FoldLeft(AddEntry, g, SetToSortSeq(R \ g.set, <))

\* group_cache_populated
Complete(g) == Cardinality(g.set) = NumRanks

\* do_populate_group_cache_lookup_table: the SPs are taken from the list of the
\* job, at the indexes of the table.  (Reversed: in the wrong order.)
Reversed(g) == [i \in 0..(g.n_sps - 1) |-> g.n_sps - 1 - i]
SpsTable(g) == [i \in 0..(g.n_sps - 1) |-> i]

\* populate_sp_ranks and populate_host_sps.
WithRanks(g) ==
  [s \in DOMAIN g.sps_hash |->
     [g.sps_hash[s] EXCEPT
        !.ranks = Ordered(g.sps_hash[s].ranks_bitset, g.sps_hash[s].n_ranks)]]
WithSps(g) ==
  [h \in DOMAIN g.hosts_hash |->
     [g.hosts_hash[h] EXCEPT
        !.sps = Ordered(g.hosts_hash[h].sps_bitset, g.hosts_hash[h].num_sps)]]
Lid(g, s) == CHOOSE i \in DOMAIN WithSps(g)[hostOf[s]].sps : WithSps(g)[hostOf[s]].sps[i] = s
DoPopulate(g) ==
  IF g.populated THEN g
  ELSE [g EXCEPT
          !.sps = SpsTable(g),
          !.sps_hash = [s \in DOMAIN @ |-> [WithRanks(g)[s] EXCEPT !.lid = Lid(g, s)]],
          !.hosts = Ordered(g.hosts_bitset, g.n_hosts),
          !.hosts_hash = WithSps(g),
          !.populated = TRUE]

\* An SP sends the complete cache to its ranks, and populates the tables.
SendToHost(g) == IF Complete(g) THEN DoPopulate(g) ELSE g

-----------------------------------------------------------------------------
(* Lookups, in populated tables.  k is the ID of an SP in the group, i the  *)
(* index of a host in the group, l the ID of an SP among those of a host.   *)

HostData(g, i) == g.hosts_hash[g.hosts[i]]
SpData(g, k)   == g.sps_hash[g.sps[k]]
IndexIn(table, x) ==
  IF \E i \in DOMAIN table : table[i] = x
  THEN CHOOSE i \in DOMAIN table : table[i] = x
  ELSE ERROR

MyHost == hostOf[IF me.kind = "sp" THEN me.id ELSE shadow[me.id]]

get_global_sp_id_by_group(g) ==
  IF me.kind = "sp" /\ IndexIn(g.sps, me.id) # ERROR THEN me.id ELSE ERROR

\* The loop over the SPs of the job ends at an SP of the group, or past them.
get_local_sp_id_by_group(g, k) ==
  CASE k > g.n_sps                   -> ERROR
    [] k \in 0..(g.n_sps - 1)        -> g.sps_hash[Ordered(g.sps_bitset, g.n_sps)[k]].lid
    [] OTHER                         -> CRASH

get_host_idx_by_group(g) == IndexIn(g.hosts, MyHost)
get_num_sps_by_group_host_idx(g, i) == HostData(g, i).num_sps
get_num_ranks_for_group_sp(g, k) == SpData(g, k).n_ranks
get_num_ranks_for_group_host_local_sp(g, i, l) ==
  IF l >= HostData(g, i).num_sps THEN ERROR ELSE g.sps_hash[HostData(g, i).sps[l]].n_ranks
get_num_ranks_for_group_host_idx(g, i) == HostData(g, i).num_ranks

\* (Inclusive: the rank itself is counted.)
Inclusive(g, i, r) ==
  IF r \notin HostData(g, i).ranks_bitset THEN ERROR
  ELSE Cardinality({q \in HostData(g, i).ranks_bitset : q <= r})
get_rank_idx_by_group_host_idx(g, i, r) ==
  IF r \notin HostData(g, i).ranks_bitset THEN ERROR
  ELSE Cardinality({q \in HostData(g, i).ranks_bitset : q < r})
get_rank_idx_by_group_sp_id(g, k, r) == IndexIn(SpData(g, k).ranks, r)

get_all_sps_by_group_host_idx(g, i) == HostData(g, i).sps
get_all_hosts_by_group(g) == g.hosts
get_all_ranks_by_group_sp_gid(g, k) == SpData(g, k).ranks
get_all_ranks_by_group_sp_lid(g, i, l) == g.sps_hash[HostData(g, i).sps[l]].ranks
get_nth_sp_by_group_host_idx(g, i, l) ==
  IF l >= HostData(g, i).num_sps THEN ERROR ELSE HostData(g, i).sps[l]

get_sp_group_gid(g, s) ==
  IF s > g.n_sps \/ s \notin g.sps_bitset THEN ERROR
  ELSE Cardinality({t \in g.sps_bitset : t < s})

\* These read the entries: of their hosts and of their SPs.
get_group_ranks_on_host(g, h) == Sorted({r \in g.set : hostOf[shadow[r]] = h})
get_group_local_sps(g) ==
  IF me.kind # "sp" THEN Empty
  ELSE LET local == get_group_ranks_on_host(g, MyHost)
       IN  [i \in DOMAIN local |-> shadow[local[i]]]
get_group_rank_host(g, r) == IF r \in g.set THEN hostOf[shadow[r]] ELSE ERROR
get_group_rank_sps(g, r) == g.hosts_hash[get_group_rank_host(g, r)].sps
on_same_host(g, r, q) ==
  get_group_rank_host(g, r) # ERROR /\ get_group_rank_host(g, r) = get_group_rank_host(g, q)
on_same_sp(g, r, q) == q \in g.sps_hash[shadow[r]].ranks_bitset

-----------------------------------------------------------------------------
(* The process *)

Init ==
  /\ shadow \in Mappings
  /\ me \in [kind : {"sp"}, id : SP] \union [kind : {"rank", "world rank"}, id : Rank]
  /\ gp = NewGroup
  /\ version = 0
  /\ failed = {}
  /\ basis = Rank

\* The bitset accesses of the topology update for the ranks in R.
Misses(R) ==
  (IF \A r \in R : InBitset(r, NumRanks) THEN {} ELSE {"ranks_bitset"})
  \union (IF \A r \in R : InBitset(shadow[r], NumRanks) THEN {} ELSE {"sps_bitset"})
  \union (IF \A r \in R : InBitset(hostOf[shadow[r]], NumHosts) THEN {} ELSE {"hosts_bitset"})

\* The loop of populate_sp_ranks runs past the bitset: it looks for more ranks
\* than there are.
Overruns(g) ==
  IF \E s \in DOMAIN g.sps_hash : g.sps_hash[s].n_ranks > Cardinality(g.sps_hash[s].ranks_bitset)
  THEN {"populate_sp_ranks"} ELSE {}

\* A handler learnt of the ranks in R, and leaves the cache as g.
Learn(R, g) ==
  /\ gp' = g
  /\ version' = IF gp.set = {} THEN version + 1 ELSE version
  /\ version' <= MaxVersions
  /\ failed' = failed \union Misses(R) \union (IF g.populated THEN Overruns(g) ELSE {})
  /\ UNCHANGED <<me, shadow, basis>>

\* An SP: one of its ranks connects, or asks to be added to the group.
AddRank(r) ==
  /\ me.kind = "sp" /\ shadow[r] = me.id
  /\ r \notin gp.set
  /\ Learn({r}, SendToHost(AddEntry(gp, r)))

\* An SP: the entries of the ranks of another SP arrive.
RecvEntries(s) ==
  LET R == {r \in Rank : shadow[r] = s}
  IN  /\ me.kind = "sp" /\ s # me.id
      /\ R # {} /\ ~ R \subseteq gp.set
      /\ Learn(R \ gp.set, SendToHost(AddEntries(gp, R)))

\* A rank: it adds itself when it asks to be added to the group.
HostAddLocalRank ==
  /\ me.kind = "rank" \/ (me.kind = "world rank" /\ version > 0)
  /\ gp.set = {}
  /\ Learn({me.id}, AddEntry(gp, me.id))

\* A rank in the world group: it adds itself when it is connected, and then
\* the topology is updated once more.
HostConnected ==
  /\ me.kind = "world rank" /\ version = 0
  /\ Learn({me.id}, UpdateTopology(AddEntry(gp, me.id), me.id, shadow[me.id]))

\* A rank: the complete cache arrives from its SP.
RecvCache ==
  /\ me.kind # "sp"
  /\ me.id \in gp.set /\ ~ Complete(gp)
  /\ Learn(Rank \ gp.set, AddEntries(gp, Rank))

\* The first lookup of a process populates the tables, from whatever entries
\* the cache has.  That it has one is asserted.
FirstLookup ==
  /\ gp.n_sps # 0 /\ ~ gp.populated
  /\ gp' = DoPopulate(gp)
  /\ failed' = failed \union Overruns(gp)
  /\ basis' = gp.set
  /\ UNCHANGED <<me, shadow, version>>

\* revoke_group_cache: RESET_GROUP_CACHE, then INIT_GROUP_CACHE when the group is
\* used again.  (StillPopulated: the flag is not reset.)
StillPopulated(g) == [NewGroup EXCEPT !.populated = g.populated]
ResetGroup(g) == NewGroup
Revoke ==
  /\ Complete(gp)
  /\ gp' = ResetGroup(gp)
  /\ basis' = Rank
  /\ UNCHANGED <<me, shadow, version, failed>>

Next ==
  \/ \E r \in Rank : AddRank(r)
  \/ \E s \in SP : RecvEntries(s)
  \/ HostAddLocalRank \/ HostConnected \/ RecvCache \/ FirstLookup \/ Revoke

Spec == Init /\ [][Next]_vars

-----------------------------------------------------------------------------
(* The topology of the whole group, and positions in it *)

GroupSps      == {shadow[r] : r \in Rank}
GroupHosts    == {hostOf[s] : s \in GroupSps}
RanksOf(s)    == {r \in Rank : shadow[r] = s}
SpsOn(h)      == {s \in GroupSps : hostOf[s] = h}
RanksOn(h)    == {r \in Rank : hostOf[shadow[r]] = h}
Position(S, x) == Cardinality({y \in S : y < x})

\* The SPs of the group are the first ones of the job.
Dense == GroupSps = 0..(Cardinality(GroupSps) - 1)

\* What a rank of the world group counts too often: itself.
Extra(S) == IF me.kind = "world rank" /\ version = 1 /\ me.id \in S THEN 1 ELSE 0

\* Whatever the order in which a process learns of the ranks, in every version
\* of the group: the counters, the bitsets and the hash tables that
\* update_topology_data maintains describe the same set of ranks, the one of
\* the entries in the cache.  Only the rank of a world group that connects
\* counts itself once too often, for its SP and for its host.
TopologyCounted ==
  LET sps   == {shadow[r] : r \in gp.set}
      hosts == {hostOf[s] : s \in sps}
  IN  /\ gp.sps_bitset = sps /\ DOMAIN gp.sps_hash = sps /\ gp.n_sps = Cardinality(sps)
      /\ gp.hosts_bitset = hosts /\ DOMAIN gp.hosts_hash = hosts
      /\ gp.n_hosts = Cardinality(hosts)
      /\ \A s \in sps :
           LET R == RanksOf(s) \intersect gp.set
           IN  /\ gp.sps_hash[s].ranks_bitset = R
               /\ gp.sps_hash[s].n_ranks = Cardinality(R) + Extra(R)
      /\ \A h \in hosts :
           LET R == RanksOn(h) \intersect gp.set
               S == {s \in sps : hostOf[s] = h}
           IN  /\ gp.hosts_hash[h].ranks_bitset = R
               /\ gp.hosts_hash[h].num_ranks = Cardinality(R) + Extra(R)
               /\ gp.hosts_hash[h].sps_bitset = S
               /\ gp.hosts_hash[h].num_sps = Cardinality(S)

\* Populated tables describe the ranks they are built from, in every process, in
\* every version of the group: the hosts, the SPs of each host with their local
\* IDs, and the ranks of each SP, in the order of the job.  These are all of the
\* ranks of the group, unless a lookup came before the cache was complete: then
\* they are the ranks known at that lookup, until the group is revoked.  For the
\* rank of a world group that counts itself twice, the table of the ranks of its
\* SP ends with an entry that is no rank.
TablesRight ==
  LET sps   == {shadow[r] : r \in basis}
      hosts == {hostOf[s] : s \in sps}
      on(h) == {s \in sps : hostOf[s] = h}
  IN  gp.populated =>
        /\ gp.hosts = Sorted(hosts)
        /\ \A h \in hosts : gp.hosts_hash[h].sps = Sorted(on(h))
        /\ \A s \in sps :
             LET R == RanksOf(s) \intersect basis
             IN  /\ gp.sps_hash[s].ranks = Ordered(R, Cardinality(R) + Extra(R))
                 /\ gp.sps_hash[s].lid = Position(on(hostOf[s]), s)

\* Tables that were built from the complete cache.
Built == gp.populated /\ basis = Rank /\ failed = {}

\* With tables built from the complete cache, the lookups agree with the mapping
\* of the ranks and with each other: going from a rank to its host, to the SP on
\* that host and back to the ranks of the SP leads to the rank.
LookupsRight ==
  Built =>
    \A r \in Rank :
      LET s == shadow[r]
          h == hostOf[s]
          i == Position(GroupHosts, h)
          k == Position(GroupSps, s)
          l == get_local_sp_id_by_group(gp, k)
      IN  /\ get_all_hosts_by_group(gp)[i] = h
          /\ me.kind # "sp" /\ me.id = r => get_host_idx_by_group(gp) = i
          /\ l \in 0..(get_num_sps_by_group_host_idx(gp, i) - 1)
          /\ get_all_sps_by_group_host_idx(gp, i) = get_group_rank_sps(gp, r)
          /\ get_all_ranks_by_group_sp_lid(gp, i, l)[Position(RanksOf(s), r)] = r
          /\ get_num_ranks_for_group_host_local_sp(gp, i, l) = Cardinality(RanksOf(s))
          /\ get_num_ranks_for_group_host_idx(gp, i) = Cardinality(RanksOn(h))
          /\ get_group_ranks_on_host(gp, h)[get_rank_idx_by_group_host_idx(gp, i, r)] = r
          /\ \A q \in Rank : /\ on_same_host(gp, r, q) <=> hostOf[shadow[q]] = h
                             /\ on_same_sp(gp, r, q) <=> shadow[q] = s
          /\ me.kind = "sp" /\ MyHost = h => s \in Range(get_group_local_sps(gp))

\* In a group of the first SPs of the job, where their IDs in the job and in the
\* group are the same, the IDs of the SPs lead to the right ranks, and an SP
\* finds itself.
SpLookupsRight ==
  Built /\ Dense =>
    \A r \in Rank :
      LET k == get_sp_group_gid(gp, shadow[r])
          i == Position(GroupHosts, hostOf[shadow[r]])
          l == get_local_sp_id_by_group(gp, k)
      IN  /\ k = Position(GroupSps, shadow[r])
          /\ get_num_ranks_for_group_sp(gp, k) = Cardinality(RanksOf(shadow[r]))
          /\ get_all_ranks_by_group_sp_gid(gp, k)[get_rank_idx_by_group_sp_id(gp, k, r)] = r
          /\ get_nth_sp_by_group_host_idx(gp, i, l) = k
          /\ me = [kind |-> "sp", id |-> shadow[r]] => get_global_sp_id_by_group(gp) = k

-----------------------------------------------------------------------------
(* Statements of the documentation, or that one could expect, that fail.    *)

\* types.h, on the table sps: the SPs that are part of the group.  It has the
\* first SPs of the job instead.
SpsInGroup == Built => gp.sps = Sorted(GroupSps)

\* group_cache.h: "a group assigning a contiguous set of identifiers to all
\* service processs that are involved in the said group".  These lookups return
\* the ID in the job.
GroupIdsReturned ==
  Built =>
    \A s \in GroupSps :
      LET i == Position(GroupHosts, hostOf[s])
          l == Position(SpsOn(hostOf[s]), s)
          k == Position(GroupSps, s)
      IN  /\ get_nth_sp_by_group_host_idx(gp, i, l) = k
          /\ me = [kind |-> "sp", id |-> s] /\ get_global_sp_id_by_group(gp) # ERROR
               => get_global_sp_id_by_group(gp) = k

\* A bitset of as many bits as the group has ranks holds the IDs of its SPs.  It
\* does not in a small group with an SP of a high ID: the instance needs nine.
AccessesInBounds ==
  failed \subseteq (IF me.kind = "world rank" THEN {"populate_sp_ranks"} ELSE {})

\* The tables of a complete cache are those of the group.  They are not when a
\* lookup came too early.
TablesCurrent == gp.populated /\ Complete(gp) => basis = Rank
=============================================================================
