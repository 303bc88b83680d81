-------------------------- MODULE GroupCacheProofs ---------------------------
(***************************************************************************)
(* What GroupCache guarantees.  The first theorems hold for every          *)
(* topology, every number of creations and every setting of Persistent     *)
(* and EagerFree; those on versions for a cache that is revoked, on one or *)
(* two SPs with two ranks or more of the group each; the last ones for a   *)
(* persistent cache.                                                       *)
(***************************************************************************)
EXTENDS GroupCacheSteps, GroupVersionHandlers, GroupVersionNet, GroupVersionHosts,
        FiniteSetTheorems

-----------------------------------------------------------------------------
(* The handlers of an SP are in turn *)

\* The cache that add_group_rank_recv_cb leaves.
LEMMA AddRecvOK ==
  ASSUME GroupSets, NEW p \in SP, NEW c, SpOK(p, c), NEW r \in SpRanks(p), NEW m \in AddMsgs({r}),
         m.seq >= c.num, NEW d, d = AddRecv(p, c, r, m)
  PROVE  SpOK(p, d)
<1>1. d = IF c.global > 0 THEN [c EXCEPT !.pending_adds = Append(@, m)]
          ELSE AddLocalRanks(p, c, Entry(r, m.seq))
  <2>1. Unless(m.seq >= c.num, "add_seq") = {}
    BY ZenonT(60) DEF Unless
  <2>2. [c EXCEPT !.failed = @ \cup Unless(m.seq >= c.num, "add_seq")] = c
    BY <2>1, NothingFails, ZenonT(60)
  <2> DEFINE e == [c EXCEPT !.failed = @ \cup Unless(m.seq >= c.num, "add_seq")]
  <2>3. d = IF e.global > 0 THEN [e EXCEPT !.pending_adds = Append(@, m)]
            ELSE AddLocalRanks(p, e, Entry(r, m.seq))
    BY ZenonT(60) DEF AddRecv
  <2>4. e = c
    BY <2>2, ZenonT(60)
  <2> HIDE DEF e
  <2> QED
    BY <2>3, <2>4, ZenonT(60)
<1>2. CASE c.global > 0
  <2> DEFINE x == Append(c.pending_adds, m)
  <2>1. x \in Seq(AddMsgs(SpRanks(p)))
    <3>1. m \in AddMsgs(SpRanks(p))
      BY ZenonT(60) DEF AddMsgs
    <3> QED
      BY <3>1, SMTT(60) DEF SpOK, SpCaches
  <2>2. d = [c EXCEPT !.pending_adds = x]
    BY <1>1, <1>2, ZenonT(60) DEF SpOK, SpCaches
  <2> HIDE DEF x
  <2>3. d \in SpCaches(p)
    BY <2>1, <2>2, ZenonT(60) DEF SpOK, SpCaches
  <2>4. SameForInv(c, d)
    BY <2>2, ZenonT(60) DEF SameForInv, SpOK, SpCaches
  <2> QED
    BY <2>3, <2>4, SameForInvOK, ZenonT(60) DEF SpOK
<1>3. CASE ~(c.global > 0)
  <2>1. c.global = 0
    BY <1>3, SpNumbers, SMTT(60)
  <2>2. Entry(r, m.seq) \in EntriesOf(SpRanks(p))
    BY ZenonT(60) DEF Entry, EntriesOf, Held, SpRanks, AddMsgs, Version
  <2> QED
    BY <1>1, <1>3, <2>1, <2>2, AddLocalRanksOK, SMTT(60)
<1> QED
  BY <1>2, <1>3, ZenonT(60)

\* group_cache_send_to_local_ranks_cb and revoke_send_to_host_cb.
LEMMA CompletedStep ==
  ASSUME GroupSets, NEW p \in SP, SpRanks(p) # {}, NEW a, SpReady(p, a), NEW i \in DOMAIN a.ongoing,
         NEW d, d = Completed(p, a, i)
  PROVE  SpOK(p, d) /\ SpStep(p, a, d, {}, {}, 2 * a.num + 2)
<1> DEFINE o == SubSeq(a.ongoing, 1, i - 1) \o SubSeq(a.ongoing, i + 1, Len(a.ongoing))
           c == [a EXCEPT !.ongoing = SubSeq(@, 1, i - 1) \o SubSeq(@, i + 1, Len(@))]
<1>1. d = IF a.ongoing[i] = "cache" THEN CacheSent(c) ELSE RevokeSent(p, c)
  BY ZenonT(60) DEF Completed
<1>2. SpOK(p, a) /\ SpVer(p, a) /\ a.toPeers = <<>> /\ a.toHosts = <<>>
  BY ZenonT(60) DEF SpReady
<1>3. /\ SpOK(p, c) /\ c.num = a.num /\ c.revoke_posted = a.revoke_posted
      /\ a.ongoing[i] # "cache" => c.num = c.revoke_posted /\ RevokesOf(c) = {}
  BY <1>2, CompleteOK, ZenonT(60)
<1>4. DOMAIN a = SpFields
  BY <1>2, SpDomain, ZenonT(60)
<1>5. c = [a EXCEPT !.ongoing = o]
  BY <1>4, ZenonT(60) DEF SpFields, CommonFields
<1>6. i \in DOMAIN a.ongoing /\ a.ongoing \in Seq({"cache", "revoke"})
  BY <1>2, ZenonT(60) DEF SpOK, SpCaches
<1> HIDE DEF o, c
<1>7. \A x \in SpFields \ {"ongoing"} : c[x] = a[x]
  BY <1>4, <1>5, ZenonT(60)
<1>8. Alike(a, c) /\ c.toPeers = <<>> /\ c.toHosts = <<>>
  BY <1>2, <1>7, ZenonT(60) DEF Alike, SpFields, CommonFields
<1>9. SpVer(p, c) /\ c.entries = a.entries /\ c.revoked = a.revoked /\ SpRanks(p) # {}
  BY <1>2, <1>8, AlikeVersion, ZenonT(60)
<1>10. SpOK(p, d) /\ SpStep(p, c, d, {}, {}, 2 * c.num + 2)
  <2>1. CASE a.ongoing[i] = "cache"
    <3>1. d = CacheSent(c)
      BY <1>1, <2>1, ZenonT(60)
    <3>2. SpOK(p, d)
      BY <3>1, <1>3, CacheSentOK, ZenonT(60)
    <3>3. SpStep(p, c, d, {}, {}, 2 * c.num + 2)
      BY <3>1, <1>3, <1>8, <1>9, CacheSentStep, ZenonT(60)
    <3> QED
      BY <3>2, <3>3, ZenonT(60)
  <2>2. CASE a.ongoing[i] # "cache"
    <3>1. d = RevokeSent(p, c) /\ c.num = c.revoke_posted /\ RevokesOf(c) = {}
      BY <1>1, <2>2, <1>3, ZenonT(60)
    <3>2. SpOK(p, d)
      BY <3>1, <1>3, RevokeSentOK, ZenonT(60)
    <3>3. i \in RevokesOf(a)
      BY <2>2, <1>6, SMTT(60) DEF RevokesOf
    <3>4. a.num_local_entries # 0 /\ a.num = a.revoke_posted
      BY <3>3, <1>2, ZenonT(60) DEF SpOK, SpCacheInv
    <3>5. Held(a.entries) # {}
      BY <3>4, <1>2, GroupFinite, ZenonT(60) DEF SpOK, SpCacheInv
    <3>6. c.revoked = Group
      BY <3>4, <3>5, <1>2, <1>9, ZenonT(60) DEF SpVer, SpCore
    <3>7. Revoked(p, c)
      BY <3>1, <3>6, <1>3, <1>8, <1>9, ZenonT(60) DEF Revoked
    <3> QED
      BY <3>1, <3>2, <3>7, RevokeSentStep, ZenonT(60)
  <2> QED
    BY <2>1, <2>2, ZenonT(60)
<1>11. SpStep(p, a, d, {}, {}, 2 * c.num + 2)
  BY <1>8, <1>10, AlikeStep, ZenonT(60)
<1> QED
  BY <1>3, <1>10, <1>11, ZenonT(60)

\* The handlers of an SP, when there are at most two SPs with at least two ranks
\* each.
LEMMA HandlersAreInTurn ==
  ASSUME GroupSets, TwoSps
  PROVE  HandlersInTurn
<1>1. ASSUME NEW p \in SP PROVE SpRanks(p) # {} /\ \A r : ~(SpRanks(p) \subseteq {r})
  <2>1. PICK a \in SpRanks(p) : \E b \in SpRanks(p) : a # b
    BY <1>1, ZenonT(60) DEF TwoSps
  <2>2. PICK b \in SpRanks(p) : a # b
    BY <2>1, ZenonT(60)
  <2>3. \A r : ~(a \in {r} /\ b \in {r})
    BY <2>2, ZenonT(60)
  <2> QED
    BY <2>3, ZenonT(60)
<1>2. AddsInTurn
  BY <1>1, AddRecvOK, RecvAddStep, ZenonT(60) DEF AddsInTurn, SpReady
<1>3. RankRevokesInTurn
  BY HandleRankRevokeOK, RankRevokeStep, ZenonT(60) DEF RankRevokesInTurn, SpReady
<1>4. EntriesInTurn
  BY PeerEntriesStep, ZenonT(60) DEF EntriesInTurn, SpReady
<1>5. SpRevokesInTurn
  BY <1>1, HandleSpRevokeOK, SpRevokeStep, ZenonT(60) DEF SpRevokesInTurn, SpReady, RevokeInTurn
<1>6. CallbacksInTurn
  BY <1>1, CompletedStep, ZenonT(60) DEF CallbacksInTurn
<1> QED
  BY <1>2, <1>3, <1>4, <1>5, <1>6, ZenonT(60) DEF HandlersInTurn

-----------------------------------------------------------------------------
(* The initial state, and every step *)

\* Every step keeps the versions, when there are at most two SPs with at least
\* two ranks each and no rank frees a group that is not populated.
LEMMA NextVersions ==
  ASSUME GroupSets, TwoSps, ~Persistent, ~EagerFree, IInv, VInv, [Next]_vars
  PROVE  VInv'
<1> HandlersInTurn
  BY HandlersAreInTurn, ZenonT(60)
<1>1. ASSUME NEW r \in Rank,
             \/ Create(r) \/ Free(r) \/ RecvAdd(r) \/ RecvRankRevoke(r) \/ RecvCache(r) \/ RecvFinalRevoke(r)
      PROVE  VInv'
  BY <1>1, CreateKeeps, FreeKeeps, RecvAddKeeps, RecvRankRevokeKeeps, RecvCacheKeeps, RecvFinalRevokeKeeps, ZenonT(60)
<1>2. ASSUME NEW p \in SP, NEW q \in SP, RecvPeerEntries(p, q) \/ RecvSpRevoke(p, q)
      PROVE  VInv'
  BY <1>2, RecvPeerEntriesKeeps, RecvSpRevokeKeeps, ZenonT(60)
<1>3. ASSUME NEW p \in SP, NEW i \in DOMAIN sp[p].ongoing, MetaEventCompleted(p, i)
      PROVE  VInv'
  BY <1>3, MetaEventCompletedKeeps, ZenonT(60)
<1>4. CASE UNCHANGED vars
  <2>1. sp' = sp /\ host' = host /\ fromRank' = fromRank /\ peer' = peer /\ toRank' = toRank
    BY <1>4, ZenonT(60) DEF vars
  <2> QED
    BY <2>1, ZenonT(60) DEF VInv, PeerVer, RankVer, ToVer
<1> QED
  BY <1>1, <1>2, <1>3, <1>4, ZenonT(60) DEF Next, Library, Application, Idle

\* And it keeps the clients outside the group in step with the ranks.
LEMMA NextOutside ==
  ASSUME GroupSets, TwoSps, ~Persistent, ~EagerFree, IInv, VInv, OInv, MembersWait, MembersWait', [Next]_vars
  PROVE  OInv'
<1> HandlersInTurn
  BY HandlersAreInTurn, ZenonT(60)
<1>1. ASSUME NEW r \in Rank, Create(r) \/ Free(r) \/ RecvCache(r) \/ RecvFinalRevoke(r)
      PROVE  OInv'
  BY <1>1, HostsOutside, ZenonT(60)
<1>2. SpActs => OInv'
  BY SpActsOutside, ZenonT(60)
<1>3. ASSUME NEW r \in Rank, RecvAdd(r) \/ RecvRankRevoke(r)
      PROVE  OInv'
  BY <1>2, <1>3, RecvAddKeeps, RecvRankRevokeKeeps, ZenonT(60)
<1>4. ASSUME NEW p \in SP, NEW q \in SP, RecvPeerEntries(p, q) \/ RecvSpRevoke(p, q)
      PROVE  OInv'
  BY <1>2, <1>4, RecvPeerEntriesKeeps, RecvSpRevokeKeeps, ZenonT(60)
<1>5. ASSUME NEW p \in SP, NEW i \in DOMAIN sp[p].ongoing, MetaEventCompleted(p, i)
      PROVE  OInv'
  BY <1>2, <1>5, MetaEventCompletedKeeps, ZenonT(60)
<1>6. CASE UNCHANGED vars
  <2>1. host' = host /\ toRank' = toRank
    BY <1>6, ZenonT(60) DEF vars
  <2> QED
    BY <2>1, ZenonT(60) DEF OInv, OutVer
<1> QED
  BY <1>1, <1>3, <1>4, <1>5, <1>6, ZenonT(60) DEF Next, Library, Application, Idle

-----------------------------------------------------------------------------
(* Sets of ranks *)

\* Min picks the least element of a set of natural numbers.
LEMMA LeastElement ==
  ASSUME NEW S \in SUBSET Nat, S # {}
  PROVE  Min(S) \in S /\ \A x \in S : Min(S) <= x
<1> DEFINE R == {ss \in Nat \X Nat : ss[1] < ss[2]}
<1>1. IsWellFoundedOn(R, Nat)
  BY NatLessThanWellFounded, ZenonT(60) DEF OpToRel
<1>2. PICK m \in S : \A y \in S : ~(<<y, m>> \in R)
  BY <1>1, WFMin, ZenonT(60)
<1>3. \A y \in S : <<y, m>> \in R <=> y < m
  BY SMTT(60)
<1>4. \A y \in S : ~(y < m)
  BY <1>2, <1>3, ZenonT(60)
<1>5. \A y \in S : m <= y
  BY <1>4, SMTT(60)
<1> QED
  BY <1>5, ZenonT(60) DEF Min

\* The ranks of the group are finitely many naturals, at least one.
LEMMA GroupIsFinite ==
  /\ IsFiniteSet(Group) /\ GroupSize \in Nat /\ GroupSize # 0
  /\ \A S \in SUBSET Group : /\ IsFiniteSet(S) /\ Cardinality(S) \in Nat
                             /\ S \subseteq Nat
                             /\ Cardinality(S) = 0 <=> S = {}
                             /\ Cardinality(S) = GroupSize <=> S = Group
<1>1. IsFiniteSet(Group)
  BY TopologyAssumption, FS_Subset, ZenonT(60) DEF TopologyAssumption
<1>2. \A S \in SUBSET Group : IsFiniteSet(S) /\ Cardinality(S) \in Nat
  BY <1>1, FS_Subset, FS_CardinalityType, ZenonT(60)
<1>3. \A S \in SUBSET Group : Cardinality(S) = 0 <=> S = {}
  BY <1>2, FS_EmptySet, ZenonT(60)
<1>4. \A S \in SUBSET Group : Cardinality(S) = GroupSize <=> S = Group
  BY <1>1, FS_Subset, ZenonT(60) DEF GroupSize
<1> QED
  BY <1>1, <1>2, <1>3, <1>4, TopologyAssumption, ZenonT(60) DEF GroupSize, TopologyAssumption

\* The cardinality of a disjoint union of sets of ranks.
LEMMA DisjointUnion ==
  ASSUME NEW S \in SUBSET Group, NEW T \in SUBSET Group, S \cap T = {}
  PROVE  Cardinality(S \cup T) = Cardinality(S) + Cardinality(T)
<1>1. IsFiniteSet(S) /\ IsFiniteSet(T)
  BY GroupIsFinite, ZenonT(60)
<1>2. Cardinality(S \cup T) = Cardinality(S) + Cardinality(T) - Cardinality(S \cap T)
  BY <1>1, FS_Union, ZenonT(60)
<1> QED
  BY <1>2, GroupIsFinite, FS_EmptySet, SMTT(60)

\* The facts about sets that the lemmas of the other modules assume.
LEMMA GroupSetsHold == GroupSets
<1>1. \A r \in Group : Cardinality({r}) = 1
  BY FS_Singleton, ZenonT(60)
<1> QED
  BY <1>1, LeastElement, GroupIsFinite, DisjointUnion, ZenonT(60) DEF GroupSets

-----------------------------------------------------------------------------
(* Every setting *)

\* The invariant holds in every reachable state.
LEMMA Inductive == Spec => []IInv
<1>1. Init => IInv
  BY InitOK, GroupSetsHold, ZenonT(60)
<1>2. IInv /\ [Next]_vars => IInv'
  BY NextOK, GroupSetsHold, ZenonT(60) DEF Good
<1> QED
  BY <1>1, <1>2, PTL DEF Spec

\* Whatever the topology and the number of creations, and also when groups are
\* freed early or meta-events complete out of order, the caches, pending lists
\* and messages have their types: the handlers of the notifications never find
\* a message they were not written for, and an SP only receives entries of
\* ranks attached to the SP that sent them.
THEOREM TypeCorrect == Spec => []TypeOK
<1>1. IInv => TypeOK
  BY IInvImplies, ZenonT(60)
<1> QED
  BY <1>1, Inductive, PTL

\* The life of a version on an SP: the entries are counted right, the final
\* revoke is posted at most once and never for a version that is not there
\* (the assertion of send_revoke_group_to_ranks), and the cache sent to the
\* clients is complete (that of send_gp_cache_to_host).
THEOREM LifecycleCorrect == Spec => []LifecycleInv
<1>1. IInv => LifecycleInv
  BY IInvImplies, ZenonT(60)
<1> QED
  BY <1>1, Inductive, PTL

\* The counters of a group cache agree with its entries, on SPs and in the
\* processes of the ranks, whichever handlers incremented them.
THEOREM CountersCorrect == Spec => []EntriesCounted
<1>1. IInv => EntriesCounted
  BY IInvImplies, ZenonT(60) DEF LifecycleInv, SpCacheInv, HostCacheInv, EntriesCounted, SetEntries
<1> QED
  BY <1>1, Inductive, PTL

\* send_gp_cache_to_host never sends a partial cache.
THEOREM SentCachesComplete == Spec => []CacheMsgsComplete
<1>1. IInv => CacheMsgsComplete
  BY IInvImplies, ZenonT(60) DEF LifecycleInv, CacheMsgsComplete
<1> QED
  BY <1>1, Inductive, PTL

\* An SP only moves to the next version, and only after the final revoke of
\* the one it is at was posted.
THEOREM VersionsInTurn == Spec => VersionStep
<1>1. IInv /\ [Next]_vars =>
        [\A p \in SP : sp'[p].num # sp[p].num =>
           /\ sp'[p].num = sp[p].num + 1
           /\ sp[p].revoke_posted = sp[p].num]_vars
  BY NextOK, GroupSetsHold, ZenonT(60) DEF Good, SpSteps, Step
<1> QED
  BY <1>1, Inductive, PTL DEF Spec, VersionStep

-----------------------------------------------------------------------------
(* A cache that is revoked, on one or two SPs with two ranks or more each *)

\* The invariant on versions holds in every reachable state.
LEMMA VersionsInductive ==
  ASSUME TwoSps, ~Persistent, ~EagerFree
  PROVE  Spec => []VInv
<1>1. Init => VInv
  BY InitVersions, GroupSetsHold, ZenonT(60)
<1>2. IInv /\ VInv /\ [Next]_vars => VInv'
  BY NextVersions, GroupSetsHold, ZenonT(60)
<1> QED
  BY <1>1, <1>2, Inductive, PTL DEF Spec

\* And so does the one on the clients outside the group.
LEMMA OutsideInductive ==
  ASSUME TwoSps, ~Persistent, ~EagerFree
  PROVE  Spec => []OInv
<1>1. Init => OInv
  BY InitOutside, ZenonT(60)
<1>2. IInv /\ VInv => MembersWait
  BY MembersWaitHolds, ZenonT(60)
<1>3. IInv /\ VInv /\ OInv /\ MembersWait /\ MembersWait' /\ [Next]_vars => OInv'
  BY NextOutside, GroupSetsHold, ZenonT(60)
<1> QED
  BY <1>1, <1>2, <1>3, Inductive, VersionsInductive, PTL DEF Spec

\* A final revoke is only sent, and an SP only forgets a version, when every
\* rank of the group freed that version: on one or two SPs, whatever the number
\* of ranks, the number of creations and the order in which messages are
\* received and meta-events complete.
THEOREM FinalRevokesGlobal ==
  ASSUME TwoSps, ~Persistent, ~EagerFree
  PROVE  Spec => []RevokeIsGlobal
<1>1. IInv /\ VInv => RevokeIsGlobal
  BY VersionsRevoked, GroupSetsHold, ZenonT(60)
<1> QED
  BY <1>1, Inductive, VersionsInductive, PTL

\* Creating and freeing a group are barriers: the group cache implements
\* GroupBarrier.  No rank sees a version populated before all ranks created it,
\* nor revoked before all ranks freed it.
THEOREM CacheIsBarrier ==
  ASSUME TwoSps, ~Persistent, ~EagerFree
  PROVE  Spec => ImplementsBarrier
<1>1. Init => Barrier!BInit
  BY InitBarrier, ZenonT(60)
<1>2. IInv /\ IInv' /\ VInv /\ [Next]_vars => [Barrier!BNext]_(Barrier!bvars)
  BY NextBarrier, GroupSetsHold, ZenonT(60)
<1>3. Barrier!BInit /\ [][Barrier!BNext]_(Barrier!bvars) => ImplementsBarrier
  BY ZenonT(60) DEF ImplementsBarrier, Barrier!BSpec
<1> QED
  BY <1>1, <1>2, <1>3, Inductive, VersionsInductive, PTL DEF Spec

\* No assertion of the handlers of the group cache is ever violated, on an SP, in
\* the process of a rank of the group, or in a client of an SP that gets the
\* messages of a group it is not in.
THEOREM RevokedAssertionsHold ==
  ASSUME TwoSps, ~Persistent, ~EagerFree
  PROVE  Spec => []AssertionsHold
<1>1. VInv /\ OInv => AssertionsHold
  BY ZenonT(60) DEF VInv, SpVer, SpCore, RankVer, HostVer, OInv, OutVer, OutCache, AssertionsHold
<1> QED
  BY <1>1, VersionsInductive, OutsideInductive, PTL

\* And no cache, on an SP or in a process, mixes entries of two versions.
THEOREM RevokedOneVersion ==
  ASSUME TwoSps, ~Persistent, ~EagerFree
  PROVE  Spec => []EntriesOfOneVersion
<1>1. VInv /\ OInv => EntriesOfOneVersion
  <2> SUFFICES ASSUME VInv, OInv PROVE EntriesOfOneVersion
    BY ZenonT(60)
  <2>1. /\ \A p \in SP : Uniform(sp[p].entries, sp[p].num)
        /\ \A r \in Group : Uniform(host[r].entries, host[r].num)
        /\ \A r \in Rank \ Group : Uniform(host[r].entries, host[r].num)
    BY ZenonT(60) DEF VInv, SpVer, SpCore, RankVer, HostVer, OInv, OutVer, OutCache
  <2>2. \A c \in {sp[p] : p \in SP} \cup {host[r] : r \in Rank} : Uniform(c.entries, c.num)
    BY <2>1, ZenonT(60)
  <2> QED
    BY <2>2, ZenonT(60) DEF EntriesOfOneVersion, SetEntries, Uniform
<1> QED
  BY <1>1, VersionsInductive, OutsideInductive, PTL

-----------------------------------------------------------------------------
(* A persistent cache: theorems *)

\* Its invariant holds in every reachable state.
LEMMA PersistentInductive ==
  ASSUME Persistent
  PROVE  Spec => []PInv
<1>1. Init => PInv
  BY PersistentInit, ZenonT(60)
<1>2. IInv /\ PInv /\ [Next]_vars => PInv'
  BY PersistentNext, GrowsInv, GroupSetsHold, ZenonT(60)
<1> QED
  BY <1>1, <1>2, Inductive, PTL DEF Spec

\* With a persistent cache none of the assertions of the handlers of the group
\* cache is ever violated, however the ranks and SPs are laid out, however
\* often ranks create and free the group, and in whatever order messages and
\* completions are handled.
THEOREM PersistentAssertionsHold ==
  ASSUME Persistent
  PROVE  Spec => []AssertionsHold
<1>1. PInv => AssertionsHold
  BY PInvImplies, ZenonT(60)
<1> QED
  BY <1>1, PersistentInductive, PTL

\* With a persistent cache all entries, on SPs and in the processes of the
\* ranks, are of the version their cache is at.
THEOREM PersistentOneVersion ==
  ASSUME Persistent
  PROVE  Spec => []EntriesOfOneVersion
<1>1. PInv => EntriesOfOneVersion
  BY PInvImplies, ZenonT(60)
<1> QED
  BY <1>1, PersistentInductive, PTL

\* With a persistent cache freeing a group is a local operation: no handler
\* ever takes an entry away, counts a revoke or starts another version.
THEOREM PersistentCacheStays ==
  ASSUME Persistent
  PROVE  Spec => PersistentStays
<1>1. ASSUME NEW c, FirstVersion(c)
      PROVE  c.num <= 1 /\ c.global = 0
  <2>1. c.num \in {0, 1} /\ c.global = 0
    BY <1>1, ZenonT(60) DEF FirstVersion
  <2> QED
    BY <2>1, SMTT(60)
<1>2. Grows =>
        /\ \A p \in SP : /\ sp'[p].num <= 1 /\ sp'[p].global = 0
                         /\ SetEntries(sp[p]) \subseteq SetEntries(sp'[p])
        /\ \A r \in Rank : /\ host'[r].num <= 1 /\ host'[r].global = 0
                           /\ SetEntries(host[r]) \subseteq SetEntries(host'[r])
  BY <1>1, ZenonT(60) DEF Grows, SpsGrow, HostsGrow, SpFirst, SetEntries
<1>3. IInv /\ PInv /\ [Next]_vars =>
        [ /\ \A p \in SP : /\ sp'[p].num <= 1 /\ sp'[p].global = 0
                           /\ SetEntries(sp[p]) \subseteq SetEntries(sp'[p])
          /\ \A r \in Rank : /\ host'[r].num <= 1 /\ host'[r].global = 0
                             /\ SetEntries(host[r]) \subseteq SetEntries(host'[r]) ]_vars
  BY <1>2, PersistentNext, GroupSetsHold, ZenonT(60)
<1> QED
  BY <1>3, Inductive, PersistentInductive, PTL DEF Spec, PersistentStays

==============================================================================
