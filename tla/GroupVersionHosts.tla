-------------------------- MODULE GroupVersionHosts --------------------------
(***************************************************************************)
(* The steps of the ranks keep VInv, and are the steps of the barrier that *)
(* the ranks of the group go through.  The steps of the other clients of   *)
(* the SPs keep OInv, and so do those of the ranks and SPs.                *)
(***************************************************************************)
EXTENDS GroupCacheHandlers

-----------------------------------------------------------------------------
(* How far the ranks are *)

\* An SP handled what its ranks sent before it sends the next message.
LEMMA OwnRanksAhead ==
  ASSUME NEW p, NEW c, c.num \in Nat, NEW s \in SpRanks(p)
  PROVE  /\ SpUp(p, c) + 1 <= FromRanks(c, s) /\ SpDown(c) + 1 <= FromRanks(c, s)
         /\ FromRanks(c, s) \in Nat /\ SpUp(p, c) \in Int /\ SpDown(c) \in Int
<1>1. /\ Cur(c) \in Nat /\ SpUp(p, c) \in Int /\ SpUp(p, c) <= 2 * Cur(c) + 1
      /\ SpUp(p, c) >= 2 * Cur(c) => SpRanks(p) \subseteq c.revoked \/ SpRanks(p) \subseteq Held(c.entries)
      /\ SpUp(p, c) >= 2 * Cur(c) + 1 => SpRanks(p) \subseteq c.revoked
  BY UpRange, Zenon
<1>2. /\ SpDown(c) \in Int /\ SpDown(c) <= 2 * Cur(c) + 1
      /\ SpDown(c) >= 2 * Cur(c) => c.revoked = Group \/ Held(c.entries) = Group
      /\ SpDown(c) >= 2 * Cur(c) + 1 => c.revoked = Group
  BY DownRange, Zenon
<1>3. /\ FromRanks(c, s) \in Nat /\ FromRanks(c, s) >= 2 * Cur(c)
      /\ s \in Held(c.entries) => FromRanks(c, s) >= 2 * Cur(c) + 1
      /\ s \in c.revoked => FromRanks(c, s) >= 2 * Cur(c) + 2
  BY FromRanksCases, Zenon
<1>4. s \in Group
  BY Zenon DEF SpRanks
<1>5. /\ SpUp(p, c) >= 2 * Cur(c) + 1 => s \in c.revoked
      /\ SpUp(p, c) >= 2 * Cur(c) => s \in c.revoked \/ s \in Held(c.entries)
      /\ SpDown(c) >= 2 * Cur(c) + 1 => s \in c.revoked
      /\ SpDown(c) >= 2 * Cur(c) => s \in c.revoked \/ s \in Held(c.entries)
  BY <1>1, <1>2, <1>4, Zenon
<1>6. /\ SpUp(p, c) >= 2 * Cur(c) + 1 => FromRanks(c, s) >= 2 * Cur(c) + 2
      /\ SpDown(c) >= 2 * Cur(c) + 1 => FromRanks(c, s) >= 2 * Cur(c) + 2
  BY <1>3, <1>5, Zenon
<1>7. /\ SpUp(p, c) >= 2 * Cur(c) => FromRanks(c, s) >= 2 * Cur(c) + 1
      /\ SpDown(c) >= 2 * Cur(c) => FromRanks(c, s) >= 2 * Cur(c) + 1
  BY <1>1, <1>3, <1>5, SMTT(30)
<1>8. SpUp(p, c) + 1 <= FromRanks(c, s)
  BY <1>1, <1>3, <1>6, <1>7, SMTT(30)
<1>9. SpDown(c) + 1 <= FromRanks(c, s)
  BY <1>1, <1>2, <1>3, <1>6, <1>7, SMTT(30)
<1> QED
  BY <1>1, <1>2, <1>3, <1>8, <1>9, Zenon

\* And what the other SP sent.
LEMMA OtherRanksAhead ==
  ASSUME NEW p, NEW c, SpVer(p, c), c.num \in Nat, NEW s \in Others(p)
  PROVE  SpDown(c) + 1 <= FromPeer(c, s) /\ FromPeer(c, s) \in Nat /\ SpDown(c) \in Int
<1>1. /\ Cur(c) \in Nat /\ SpDown(c) \in Int /\ SpDown(c) <= 2 * Cur(c) + 1
      /\ SpDown(c) >= 2 * Cur(c) => c.revoked = Group \/ Held(c.entries) = Group
      /\ SpDown(c) >= 2 * Cur(c) + 1 => c.revoked = Group
  BY DownRange, Zenon
<1>2. /\ FromPeer(c, s) \in Nat /\ FromPeer(c, s) >= 2 * Cur(c)
      /\ s \in Held(c.entries) => FromPeer(c, s) >= 2 * Cur(c) + 1
      /\ s \in c.revoked /\ Held(c.entries) # {} => FromPeer(c, s) >= 2 * Cur(c) + 2
  BY FromPeerCases, Zenon
<1>3. s \in Group
  BY Zenon DEF Others
<1>4. c.revoked = Group => Held(c.entries) = Group
  BY <1>3, RevokedFull, Zenon
<1>5. /\ SpDown(c) >= 2 * Cur(c) => FromPeer(c, s) >= 2 * Cur(c) + 1
      /\ SpDown(c) >= 2 * Cur(c) + 1 => FromPeer(c, s) >= 2 * Cur(c) + 2
  BY <1>1, <1>2, <1>3, <1>4, Zenon
<1>6. SpDown(c) + 1 <= FromPeer(c, s)
  BY <1>1, <1>2, <1>5
<1> QED
  BY <1>1, <1>2, <1>6, Zenon

\* Nothing is sent to the ranks before every rank of the group came as far.
LEMMA RanksAhead ==
  ASSUME TwoSps, IInv, VInv, NEW p \in SP, NEW s \in Group
  PROVE  SpDown(sp[p]) <= HostUp(host[s]) /\ SpDown(sp[p]) \in Int /\ HostUp(host[s]) \in Int
<1> DEFINE q == spOf[s]
<1>1. q \in SP /\ s \in SpRanks(q)
  BY TopologyAssumption, Zenon DEF TopologyAssumption, SpRanks
<1>2. /\ sp[p].num \in Nat /\ sp[q].num \in Nat /\ SpVer(p, sp[p])
  BY <1>1, SpNumbers, Zenon DEF IInv, SpPart, VInv
<1>3. FromRanks(sp[q], s) <= HostUp(host[s]) + 1 /\ HostUp(host[s]) \in Int
  BY RankState, RankBounds, Zenon
<1>4. /\ SpUp(q, sp[q]) + 1 <= FromRanks(sp[q], s) /\ SpDown(sp[q]) + 1 <= FromRanks(sp[q], s)
      /\ FromRanks(sp[q], s) \in Nat /\ SpUp(q, sp[q]) \in Int /\ SpDown(sp[q]) \in Int
  BY <1>1, <1>2, OwnRanksAhead, Zenon
<1> HIDE DEF q
<1>5. CASE p = q
  BY <1>3, <1>4, <1>5
<1>6. CASE p # q
  <2>1. s \in Others(p)
    BY <1>1, <1>6, Zenon DEF Others, SpRanks, q
  <2>2. SpDown(sp[p]) + 1 <= FromPeer(sp[p], s) /\ FromPeer(sp[p], s) \in Nat /\ SpDown(sp[p]) \in Int
    BY <2>1, <1>2, OtherRanksAhead, Zenon
  <2>3. FromPeer(sp[p], s) <= SpUp(q, sp[q]) + 1
    BY <1>1, <1>6, Zenon DEF VInv, PeerVer, PeerOK, RankStream
  <2> QED
    BY <2>2, <2>3, <1>3, <1>4, SMTT(30)
<1> QED
  BY <1>5, <1>6, Zenon

\* What the position of a rank says of how often it created and freed the group.
LEMMA HostCounts ==
  ASSUME NEW r \in Group, NEW h, HostOK(h), HostVer(r, h)
  PROVE  /\ h.frees \in Nat /\ h.creates \in Nat
         /\ \A v \in Int : HostUp(h) >= 2 * v + 1 => h.frees >= v
         /\ \A v \in Int : HostUp(h) >= 2 * v => h.creates >= v
<1>1. /\ h.num \in Nat /\ h.frees \in Nat /\ h.creates \in Nat /\ h.global \in {0, 1}
      /\ h.pending_send_adds \in {0, 1} /\ (h.global = 1 => Held(h.entries) = Group)
      /\ h.frees = (IF Held(h.entries) # {} /\ h.global = 0 THEN h.num - 1 ELSE h.num)
      /\ h.creates = h.num + h.pending_send_adds
  BY Zenon DEF HostOK, HostCaches, HostVer
<1>2. /\ h.global = 1 => HostUp(h) = 2 * Cur(h) + 1
      /\ h.global = 0 /\ Held(h.entries) # {} => HostUp(h) = 2 * Cur(h)
      /\ h.global = 0 /\ Held(h.entries) = {} => HostUp(h) = 2 * Cur(h) - 1
  BY <1>1, HostRange, Zenon
<1>3. CASE h.global = 1
  <2>1. Cur(h) = h.num /\ h.frees = h.num
    BY <1>1, <1>3, SMTT(30) DEF Cur
  <2> QED
    BY <2>1, <1>1, <1>2, <1>3, SMTT(30)
<1>4. CASE h.global = 0 /\ Held(h.entries) # {}
  <2>1. Cur(h) = h.num /\ h.frees = h.num - 1
    BY <1>1, <1>4, Zenon DEF Cur
  <2> QED
    BY <2>1, <1>1, <1>2, <1>4, SMTT(30)
<1>5. CASE h.global = 0 /\ Held(h.entries) = {}
  <2>1. Cur(h) = h.num + 1 /\ h.frees = h.num
    BY <1>1, <1>5, Zenon DEF Cur
  <2> QED
    BY <2>1, <1>1, <1>2, <1>5, SMTT(30)
<1> QED
  BY <1>1, <1>3, <1>4, <1>5, Zenon

-----------------------------------------------------------------------------
(* A step of a rank *)

\* Rank r leaves its cache as g and the channels to and from its SP as up and down.
HostStep(r, g, up, down) ==
  /\ host'[r] = g /\ \A s \in Rank : s # r => host'[s] = host[s]
  /\ fromRank'[r] = up /\ \A s \in Rank : s # r => fromRank'[s] = fromRank[s]
  /\ toRank'[r] = down /\ \A s \in Rank : s # r => toRank'[s] = toRank[s]
  /\ UNCHANGED sp /\ UNCHANGED peer

\* It is enough to look at this cache and these channels.
LEMMA HostStepKeeps ==
  ASSUME VInv, NEW r \in Rank, NEW g, NEW up, NEW down, HostStep(r, g, up, down),
         ToOK(down, sp[spOf[r]]),
         r \in Group => /\ HostVer(r, g) /\ FromRankOK(r, up, sp[spOf[r]], g)
                        /\ ToRankOK(down, sp[spOf[r]], g)
  PROVE  VInv'
<1>1. sp' = sp /\ peer' = peer /\ Group \subseteq Rank
  BY TopologyAssumption, Zenon DEF TopologyAssumption, HostStep
<1>2. \A p \in SP : SpVer(p, sp'[p])
  BY <1>1, Zenon DEF VInv
<1>3. \A p, q \in SP : p # q => PeerOK(p, q, peer'[q][p], sp'[p], sp'[q])
  BY <1>1, Zenon DEF VInv, PeerVer
<1>4. ASSUME NEW s \in Group
      PROVE  /\ HostVer(s, host'[s]) /\ FromRankOK(s, fromRank'[s], sp'[spOf[s]], host'[s])
             /\ ToRankOK(toRank'[s], sp'[spOf[s]], host'[s])
  <2>1. CASE s = r
    BY <2>1, <1>1, Zenon DEF HostStep
  <2>2. CASE s # r
    BY <2>2, <1>1, Zenon DEF HostStep, VInv, RankVer
  <2> QED
    BY <2>1, <2>2, Zenon
<1>5. ASSUME NEW s \in Rank PROVE ToOK(toRank'[s], sp'[spOf[s]])
  BY <1>1, Zenon DEF HostStep, VInv, ToVer
<1> QED
  BY <1>2, <1>3, <1>4, <1>5, Zenon DEF VInv, PeerVer, RankVer, ToVer

\* A rank sends the next message of its stream.
LEMMA RankSends ==
  ASSUME NEW r, NEW ch \in Seq(RankMsgs(r)), NEW m \in RankMsgs(r), NEW c, c.num \in Nat,
         NEW h, NEW g, HostUp(h) \in Int, HostUp(g) = HostUp(h) + 1, Key(m) = HostUp(g),
         Key(m) \in Nat, FromRankOK(r, ch, c, h)
  PROVE  FromRankOK(r, Append(ch, m), c, g)
<1>1. FromRanks(c, r) \in Int /\ HostUp(g) \in Int
  <2>1. FromRanks(c, r) \in Nat
    BY PositionsInt, Zenon
  <2> QED
    BY <2>1
<1>2. Stream(ch, FromRanks(c, r), HostUp(h)) /\ FromRanks(c, r) <= HostUp(h) + 1
  BY Zenon DEF FromRankOK
<1>3. HostUp(h) + 1 \in Int /\ HostUp(h) + 1 <= Key(m) /\ Key(m) <= HostUp(g) /\ HostUp(h) <= HostUp(g)
  BY <1>1
<1>4. Stream(<<m>>, HostUp(h) + 1, HostUp(g))
  BY <1>1, <1>3, StreamOne, Zenon
<1>5. <<m>> \in Seq(RankMsgs(r)) /\ Append(ch, m) = ch \o <<m>>
  BY SMTT(30)
<1>6. Stream(ch \o <<m>>, FromRanks(c, r), HostUp(g))
  BY <1>1, <1>2, <1>3, <1>4, <1>5, StreamConcat, Zenon
<1>7. FromRanks(c, r) <= HostUp(g) + 1
  BY <1>1, <1>2
<1> QED
  BY <1>5, <1>6, <1>7, Zenon DEF FromRankOK

\* The fields of a cache of a rank.
HostFields == CommonFields \cup {"pending_send_adds", "creates", "frees"}

\* The fields of a rank's cache.
LEMMA HostDomain ==
  ASSUME NEW h, HostOK(h)
  PROVE  /\ DOMAIN h = HostFields /\ h.num \in Nat /\ h.num_local_entries \in Nat /\ h.local \in Nat
         /\ h.global \in Nat /\ h.pending_send_adds \in Nat /\ h.creates \in Nat /\ h.frees \in Nat
         /\ h.num_local_entries = Cardinality(Held(h.entries))
         /\ h.entries \in [Group -> Nat]
BY Zenon DEF HostOK, HostCaches, HostCacheInv, HostFields, CommonFields

\* Rank r added itself to its empty cache h.
Joined(r, h, g) ==
  /\ g.num = h.num + 1 /\ Held(g.entries) = {r} /\ Uniform(g.entries, g.num)
  /\ g.failed = h.failed /\ g.pending_entries = h.pending_entries /\ g.global = h.global
  /\ g.pending_send_adds = h.pending_send_adds /\ g.frees = h.frees

\* A rank adds its own entry to an empty cache.
LEMMA AddSelfVersion ==
  ASSUME GroupSets, NEW r \in Group, NEW h, HostOK(h), h.num \in Nat, Held(h.entries) = {},
         NEW g, g = AddSelf(h, r)
  PROVE  Joined(r, h, g) /\ g.creates = h.creates
<1> DEFINE n == h.num + 1
           f == Entry(r, n)
<1>1. /\ DOMAIN h = HostFields /\ h.num \in Nat
      /\ h.num_local_entries = Cardinality(Held(h.entries)) /\ h.entries \in [Group -> Nat]
  BY HostDomain, Zenon
<1>2. h.num_local_entries = 0
  BY <1>1, CountIsZero, Zenon
<1>3. g = StoreEntries(h, f) /\ Cur(h) = n
  BY <1>2, Zenon DEF AddSelf, Cur
<1>4. n \in Nat /\ n # 0 /\ 0 \in Nat
  BY <1>1
<1> HIDE DEF n
<1>5. f \in [Group -> Nat] /\ f[r] = n /\ \A s \in Group : s # r => f[s] = 0
  BY <1>4, Zenon DEF Entry
<1> HIDE DEF f
<1>6. Held(f) = {r}
  BY <1>4, <1>5, Zenon DEF Held
<1>7. f \in EntriesOf(Group) /\ Uniform(f, Cur(h))
  BY <1>3, <1>5, <1>6, Zenon DEF EntriesOf, Uniform
<1>8. CacheOK(h)
  <2>1. CommonFields \subseteq DOMAIN h
    BY <1>1, Zenon DEF HostFields
  <2>2. Uniform(h.entries, h.num)
    BY Zenon DEF Uniform
  <2> QED
    BY <2>1, <2>2, <1>1, Zenon DEF CacheOK
<1>9. Stored(h, f, Cur(h), g)
  BY <1>3, <1>7, <1>8, StoreVersion, Zenon
<1>10. /\ g.num = n /\ Uniform(g.entries, n) /\ Held(g.entries) = {r}
       /\ \A x \in HostFields \ {"group_size", "num", "entries", "num_local_entries"} : g[x] = h[x]
  <2>1. Held(h.entries) \cup Held(f) = {r}
    BY <1>6, Zenon
  <2> QED
    BY <2>1, <1>1, <1>3, <1>9, Zenon DEF Stored
<1> QED
  BY <1>10, Zenon DEF Joined, n, HostFields, CommonFields

\* A rank is not alone in the group.
LEMMA NotAlone ==
  ASSUME TwoSps, NEW r \in Group
  PROVE  {r} # Group
<1>1. spOf[r] \in SP
  BY TopologyAssumption, Zenon DEF TopologyAssumption
<1>2. \E s, t \in SpRanks(spOf[r]) : s # t
  BY <1>1, Zenon DEF TwoSps
<1> QED
  BY <1>2, Zenon DEF SpRanks

\* The position of a rank that added itself: it goes on by one, and waits for
\* the same message.
LEMMA JoinedPosition ==
  ASSUME NEW r \in Group, {r} # Group, NEW h, h.num \in Nat, Held(h.entries) = {}, h.global = 0,
         NEW g, Joined(r, h, g)
  PROVE  /\ HostUp(h) = 2 * h.num + 1 /\ HostUp(g) = 2 * h.num + 2
         /\ HostFrom(h) = 2 * h.num + 2 /\ HostFrom(g) = 2 * h.num + 2
<1>1. /\ g.num = h.num + 1 /\ Held(g.entries) = {r} /\ g.global = 0
  BY Zenon DEF Joined
<1>2. /\ Cur(h) = h.num + 1 /\ Cur(g) = h.num + 1 /\ Held(h.entries) # Group
      /\ Held(g.entries) # Group /\ Held(g.entries) # {} /\ g.num \in Nat
  <2>1. Cur(h) = h.num + 1 /\ Cur(g) = h.num + 1 /\ g.num \in Nat
    BY <1>1 DEF Cur
  <2> QED
    BY <2>1, <1>1, Zenon
<1>3. HostUp(h) = 2 * Cur(h) - 1 /\ HostFrom(h) = 2 * Cur(h)
  BY <1>2, HostRange, Zenon
<1>4. HostUp(g) = 2 * Cur(g) /\ HostFrom(g) = 2 * Cur(g)
  BY <1>1, <1>2, HostRange, Zenon
<1> QED
  BY <1>2, <1>3, <1>4, SMTT(30)

\* A message that adds rank r.
LEMMA AddKey ==
  ASSUME NEW r \in Group, NEW n \in Nat, n # 0
  PROVE  AddMsg(r, n) \in RankMsgs(r) /\ Key(AddMsg(r, n)) = 2 * n /\ Key(AddMsg(r, n)) \in Nat
<1>1. AddMsg(r, n) \in RankMsgs(r)
  BY Zenon DEF AddMsg, RankMsgs, AddMsgs, Version
<1>2. Key(AddMsg(r, n)) = 2 * n
  BY Zenon DEF AddMsg, Key
<1> QED
  BY <1>1, <1>2, SMTT(30)

\* What is in the channels depends on the positions of the rank only.
LEMMA SamePlace ==
  ASSUME NEW r, NEW c, NEW h, NEW g
  PROVE  /\ \A ch : HostUp(g) = HostUp(h) /\ FromRankOK(r, ch, c, h) => FromRankOK(r, ch, c, g)
         /\ \A ch : HostFrom(g) = HostFrom(h) /\ ToRankOK(ch, c, h) => ToRankOK(ch, c, g)
BY Zenon DEF FromRankOK, ToRankOK

\* A rank that creates the group.
CreatedNow(r, h, g) ==
  /\ Held(h.entries) = {} /\ h.global = 0 /\ h.pending_send_adds = 0
  /\ Joined(r, h, g) /\ g.creates = h.creates + 1
CreatedLater(h, g) ==
  /\ h.global = 1 /\ h.pending_send_adds = 0 /\ g.creates = h.creates + 1 /\ g.pending_send_adds = 1
  /\ \A x \in HostFields \ {"creates", "pending_send_adds"} : g[x] = h[x]

\* send_add_group_rank_request: the rank adds itself, or puts it off while it
\* waits for the final revoke of the version before.
LEMMA CreateCases ==
  ASSUME GroupSets, IInv, VInv, NEW r \in Rank, Create(r)
  PROVE  /\ r \in Group
         /\ \/ \E g : /\ CreatedNow(r, host[r], g)
                      /\ HostStep(r, g, Append(fromRank[r], AddMsg(r, g.num)), toRank[r])
            \/ \E g : CreatedLater(host[r], g) /\ HostStep(r, g, fromRank[r], toRank[r])
<1> DEFINE h == host[r]
           n == h.creates + 1
           e == [h EXCEPT !.creates = n]
           a == AddSelf(e, r)
           k == h.pending_send_adds + 1
           w == [e EXCEPT !.pending_send_adds = k]
<1>1. /\ r \in Group /\ h.creates = h.frees /\ UNCHANGED <<sp, peer, toRank>>
  BY Zenon DEF Create
<1>2. HostOK(h) /\ HostVer(r, h) /\ DOMAIN host = Rank /\ DOMAIN fromRank = Rank
  BY <1>1, Zenon DEF IInv, HostPart, FromPart, VInv, RankVer
<1>3. /\ DOMAIN h = HostFields /\ h.num \in Nat /\ h.creates \in Nat /\ h.frees \in Nat
      /\ h.pending_send_adds \in Nat /\ h.global \in {0, 1}
  BY <1>2, HostDomain, Zenon DEF HostVer
<1>4. [h EXCEPT !.creates = @ + 1] = e
  BY <1>3, Zenon DEF HostFields
<1>5. n \in Nat
  BY <1>3
<1>6. DOMAIN e = HostFields /\ e.creates = n /\ \A x \in HostFields \ {"creates"} : e[x] = h[x]
  <2> HIDE DEF h, n
  <2> QED
    BY <1>3, Zenon DEF HostFields
<1>7. e.global = h.global /\ e.pending_send_adds = h.pending_send_adds /\ e.entries = h.entries /\ e.num = h.num
  BY <1>6, Zenon DEF HostFields, CommonFields
<1>8. HostOK(e)
  <2> HIDE DEF n
  <2>1. e \in HostCaches
    BY <1>2, <1>5, Zenon DEF HostOK, HostCaches
  <2>2. HostCacheInv(e)
    BY <1>2, <1>6, ZenonT(30) DEF HostOK, HostCacheInv, HostFields, CommonFields
  <2> QED
    BY <2>1, <2>2, ZenonT(30) DEF HostOK
<1>9. [e EXCEPT !.pending_send_adds = @ + 1] = w
  BY <1>6, <1>7, Zenon DEF HostFields
<1>10. /\ e.global = 0 => /\ host' = [host EXCEPT ![r] = a]
                          /\ fromRank' = [fromRank EXCEPT ![r] = Append(@, AddMsg(r, a.num))]
       /\ e.global # 0 => host' = [host EXCEPT ![r] = w] /\ fromRank' = fromRank
  BY <1>4, <1>9, Zenon DEF Create
<1>11. /\ h.creates = h.num + h.pending_send_adds /\ h.pending_send_adds \in {0, 1}
       /\ h.pending_send_adds = 1 => h.global = 1
       /\ h.frees = IF Held(h.entries) # {} /\ h.global = 0 THEN h.num - 1 ELSE h.num
  BY <1>2, Zenon DEF HostVer
<1> HIDE DEF h, n, a, w, e
<1>12. CASE h.global = 0
  <2>0. h.pending_send_adds = 0
    BY <1>11, <1>12, SMTT(30)
  <2>1. Held(h.entries) = {}
    <3>1. h.num - 1 # h.num + 0
      BY <1>3
    <3> QED
      BY <2>0, <3>1, <1>1, <1>11, <1>12, ZenonT(30)
  <2>2. Joined(r, e, a) /\ a.creates = e.creates
    BY <2>1, <1>1, <1>3, <1>7, <1>8, AddSelfVersion, ZenonT(30) DEF a
  <2>3. CreatedNow(r, h, a)
    <3>1. e.failed = h.failed /\ e.pending_entries = h.pending_entries /\ e.frees = h.frees
      BY <1>6, Zenon DEF HostFields, CommonFields
    <3> QED
      BY <2>0, <2>1, <2>2, <3>1, <1>6, <1>7, <1>12, ZenonT(30) DEF CreatedNow, Joined, n
  <2>4. HostStep(r, a, Append(fromRank[r], AddMsg(r, a.num)), toRank[r])
    BY <1>1, <1>2, <1>7, <1>10, <1>12, ZenonT(30) DEF HostStep
  <2> QED
    BY <2>3, <2>4, <1>1, Zenon DEF h
<1>13. CASE h.global = 1
  <2>1. h.pending_send_adds = 0
    <3>1. h.frees = h.num
      BY <1>11, <1>13, SMTT(30)
    <3>2. h.num = h.num + h.pending_send_adds
      BY <3>1, <1>1, <1>11, ZenonT(30)
    <3> QED
      BY <3>2, <1>3, SMTT(30)
  <2>2. k = 1
    BY <2>1, SMTT(30)
  <2>3. /\ w.creates = n /\ w.pending_send_adds = k
        /\ \A x \in HostFields \ {"creates", "pending_send_adds"} : w[x] = h[x]
    <3> HIDE DEF k
    <3> QED
      BY <1>6, Zenon DEF w, HostFields
  <2>4. CreatedLater(h, w)
    BY <2>1, <2>2, <2>3, <1>13, ZenonT(30) DEF CreatedLater, n
  <2>5. e.global # 0
    BY <1>7, <1>13
  <2>6. HostStep(r, w, fromRank[r], toRank[r])
    BY <2>5, <1>1, <1>2, <1>10, ZenonT(30) DEF HostStep
  <2> QED
    BY <2>4, <2>6, <1>1, ZenonT(30) DEF h
<1> QED
  BY <1>3, <1>12, <1>13, Zenon

\* The cache of a rank that added itself to an empty one.
LEMMA JoinedVersion ==
  ASSUME NEW r \in Group, NEW h, NEW g, h.num \in Nat, Joined(r, h, g), h.failed = {}, h.pending_entries = <<>>,
         h.global = 0, h.pending_send_adds = 0, h.frees = h.num, g.creates = h.num + 1
  PROVE  HostVer(r, g)
<1>1. /\ g.num = h.num + 1 /\ Held(g.entries) = {r} /\ Uniform(g.entries, g.num)
      /\ g.failed = {} /\ g.pending_entries = <<>> /\ g.global = 0 /\ g.pending_send_adds = 0 /\ g.frees = h.num
  BY Zenon DEF Joined
<1>2. g.frees = g.num - 1 /\ g.creates = g.num + g.pending_send_adds /\ 0 # 1
  BY <1>1
<1> QED
  BY <1>1, <1>2, Zenon DEF HostVer

\* Creating a group keeps the invariant.
LEMMA CreateKeeps ==
  ASSUME GroupSets, TwoSps, IInv, VInv, NEW r \in Rank, Create(r)
  PROVE  VInv'
<1> DEFINE h == host[r]
           c == sp[spOf[r]]
<1>1. /\ r \in Group
      /\ \/ \E g : /\ CreatedNow(r, h, g)
                   /\ HostStep(r, g, Append(fromRank[r], AddMsg(r, g.num)), toRank[r])
         \/ \E g : CreatedLater(h, g) /\ HostStep(r, g, fromRank[r], toRank[r])
  BY CreateCases, Zenon
<1>2. RankOf(r, c, h, fromRank[r], toRank[r])
  BY <1>1, RankState, Zenon
<1>3. ToOK(toRank[r], c)
  BY Zenon DEF VInv, ToVer
<1>4. /\ HostVer(r, h) /\ HostOK(h) /\ fromRank[r] \in Seq(RankMsgs(r))
      /\ FromRankOK(r, fromRank[r], c, h) /\ ToRankOK(toRank[r], c, h)
  BY <1>2, Zenon DEF RankOf
<1>5. c.num \in Nat /\ h.num \in Nat /\ HostUp(h) \in Int
  BY <1>2, RankBounds, Zenon
<1> HIDE DEF h
<1>6. ASSUME NEW g, CreatedNow(r, h, g),
             HostStep(r, g, Append(fromRank[r], AddMsg(r, g.num)), toRank[r])
      PROVE  VInv'
  <2>1. /\ Held(h.entries) = {} /\ h.global = 0 /\ h.pending_send_adds = 0
        /\ Joined(r, h, g) /\ g.creates = h.creates + 1 /\ g.num = h.num + 1
    BY <1>6, Zenon DEF CreatedNow, Joined
  <2>2. /\ h.failed = {} /\ h.pending_entries = <<>> /\ h.frees = h.num /\ h.creates = h.num + 0
    BY <2>1, <1>4, ZenonT(30) DEF HostVer
  <2>3. g.creates = h.num + 1 /\ g.num \in Nat /\ g.num # 0 /\ 2 * g.num = 2 * h.num + 2
    BY <2>1, <2>2, <1>5, SMTT(30)
  <2>4. HostVer(r, g)
    BY <2>1, <2>2, <2>3, <1>1, <1>5, JoinedVersion, ZenonT(30)
  <2>5. /\ HostUp(h) = 2 * h.num + 1 /\ HostUp(g) = 2 * h.num + 2
        /\ HostFrom(h) = 2 * h.num + 2 /\ HostFrom(g) = 2 * h.num + 2
    BY <2>1, <1>1, <1>5, NotAlone, JoinedPosition, Zenon
  <2>6. /\ AddMsg(r, g.num) \in RankMsgs(r) /\ Key(AddMsg(r, g.num)) = 2 * g.num /\ Key(AddMsg(r, g.num)) \in Nat
    BY <2>3, <1>1, AddKey, ZenonT(30)
  <2>7. Key(AddMsg(r, g.num)) = HostUp(g) /\ HostUp(g) = HostUp(h) + 1
    BY <2>3, <2>5, <2>6, <1>5, SMTT(30)
  <2>8. FromRankOK(r, Append(fromRank[r], AddMsg(r, g.num)), c, g)
    BY <2>6, <2>7, <1>4, <1>5, RankSends, ZenonT(30)
  <2>9. ToRankOK(toRank[r], c, g)
    BY <2>5, <1>4, SamePlace, ZenonT(30)
  <2> QED
    BY <2>4, <2>8, <2>9, <1>3, <1>6, HostStepKeeps, ZenonT(30)
<1>7. ASSUME NEW g, CreatedLater(h, g), HostStep(r, g, fromRank[r], toRank[r])
      PROVE  VInv'
  <2>1. /\ h.global = 1 /\ h.pending_send_adds = 0 /\ g.creates = h.creates + 1 /\ g.pending_send_adds = 1
        /\ g.num = h.num /\ g.entries = h.entries /\ g.failed = h.failed /\ g.global = h.global
        /\ g.pending_entries = h.pending_entries /\ g.frees = h.frees
    BY <1>7, Zenon DEF CreatedLater, HostFields, CommonFields
  <2>2. h.creates = h.num + 0
    BY <2>1, <1>4, ZenonT(30) DEF HostVer
  <2>3. g.creates = g.num + 1
    BY <2>1, <2>2, <1>5
  <2>4. HostVer(r, g)
    BY <2>1, <2>3, <1>4, Zenon DEF HostVer
  <2>5. HostUp(g) = HostUp(h) /\ HostFrom(g) = HostFrom(h)
    BY <2>1, Zenon DEF HostUp, HostFrom, Cur
  <2>6. FromRankOK(r, fromRank[r], c, g) /\ ToRankOK(toRank[r], c, g)
    BY <2>5, <1>4, SamePlace, Zenon
  <2> QED
    BY <2>4, <2>6, <1>3, <1>7, HostStepKeeps, ZenonT(30)
<1> QED
  BY <1>1, <1>6, <1>7, ZenonT(30)

\* A rank that frees the group.
Freed(h, g) ==
  /\ Held(h.entries) = Group /\ h.global = 0 /\ h.pending_send_adds = 0
  /\ g.global = 1 /\ g.frees = h.frees + 1
  /\ \A x \in HostFields \ {"frees", "local", "global"} : g[x] = h[x]

\* send_revoke_group_rank_request_through_rank_info: an application that waits
\* for the group to be populated frees a group it has all entries of.
LEMMA FreeCases ==
  ASSUME ~Persistent, ~EagerFree, GroupSets, IInv, VInv, NEW r \in Rank, Free(r)
  PROVE  /\ r \in Group
         /\ \E g : /\ Freed(host[r], g)
                   /\ HostStep(r, g, Append(fromRank[r], RankRevokeMsg(r, host[r].num)), toRank[r])
<1> DEFINE h == host[r]
           n == h.frees + 1
           l == h.local + 1
           k == h.global + 1
           g == [h EXCEPT !.frees = n, !.local = l, !.global = k]
           m == RankRevokeMsg(r, h.num)
<1>1. /\ r \in Group /\ h.creates > h.frees /\ Populated(h) /\ UNCHANGED <<sp, peer, toRank>>
      /\ fromRank' = [fromRank EXCEPT ![r] = Append(@, m)]
  BY Zenon DEF Free
<1>2. HostOK(h) /\ HostVer(r, h) /\ DOMAIN host = Rank /\ DOMAIN fromRank = Rank
  BY <1>1, Zenon DEF IInv, HostPart, FromPart, VInv, RankVer
<1>3. /\ DOMAIN h = HostFields /\ h.num \in Nat /\ h.creates \in Nat /\ h.frees \in Nat
      /\ h.num_local_entries = Cardinality(Held(h.entries))
  BY <1>2, HostDomain, Zenon
<1>4. host' = [host EXCEPT ![r] = g]
  BY <1>2, <1>3, Zenon DEF Free, HostFields, CommonFields
<1>5. h.global = 0 /\ h.group_size = h.num_local_entries
  BY <1>1, Zenon DEF Populated
<1>6. /\ h.creates = h.num + h.pending_send_adds /\ h.pending_send_adds \in {0, 1}
      /\ h.pending_send_adds = 1 => h.global = 1
      /\ h.frees = IF Held(h.entries) # {} /\ h.global = 0 THEN h.num - 1 ELSE h.num
      /\ h.num_local_entries # 0 => h.group_size = GroupSize
  BY <1>2, Zenon DEF HostVer, HostOK, HostCacheInv
<1> HIDE DEF h, n, l
<1>7. k = 1
  BY <1>5
<1> HIDE DEF k
<1>8. /\ g.frees = n /\ g.global = k /\ \A x \in HostFields \ {"frees", "local", "global"} : g[x] = h[x]
  BY <1>3, Zenon DEF HostFields, CommonFields
<1> HIDE DEF g, m
<1>9. h.pending_send_adds = 0
  BY <1>5, <1>6, SMTT(30)
<1>10. Held(h.entries) # {}
  <2> SUFFICES ASSUME Held(h.entries) = {} PROVE FALSE
    BY Zenon
  <2>1. h.frees = h.num
    BY <1>6, Zenon
  <2>2. h.creates = h.num + 0
    BY <1>6, <1>9, Zenon
  <2> QED
    BY <2>1, <2>2, <1>1, <1>3, SMTT(30)
<1>11. Held(h.entries) = Group
  <2>1. Held(h.entries) \in SUBSET Group
    BY Zenon DEF Held
  <2>2. /\ Cardinality(Held(h.entries)) = 0 <=> Held(h.entries) = {}
        /\ Cardinality(Held(h.entries)) = GroupSize <=> Held(h.entries) = Group
    BY <2>1, GroupFinite, Zenon
  <2>3. h.num_local_entries # 0
    BY <2>2, <1>3, <1>10, ZenonT(30)
  <2>4. Cardinality(Held(h.entries)) = GroupSize
    BY <2>3, <1>3, <1>5, <1>6, ZenonT(30)
  <2> QED
    BY <2>2, <2>4, ZenonT(30)
<1>12. Freed(h, g)
  BY <1>5, <1>7, <1>8, <1>9, <1>11, ZenonT(30) DEF Freed, n
<1>13. HostStep(r, g, Append(fromRank[r], m), toRank[r])
  BY <1>1, <1>2, <1>4, Zenon DEF HostStep
<1> QED
  BY <1>1, <1>12, <1>13, ZenonT(30) DEF h, m

\* Freeing a group keeps the invariant.
LEMMA FreeKeeps ==
  ASSUME ~Persistent, ~EagerFree, GroupSets, IInv, VInv, NEW r \in Rank, Free(r)
  PROVE  VInv'
<1> DEFINE h == host[r]
           c == sp[spOf[r]]
           m == RankRevokeMsg(r, h.num)
<1>1. /\ r \in Group
      /\ \E g : Freed(h, g) /\ HostStep(r, g, Append(fromRank[r], m), toRank[r])
  BY FreeCases, Zenon
<1>2. RankOf(r, c, h, fromRank[r], toRank[r])
  BY <1>1, RankState, Zenon
<1>3. ToOK(toRank[r], c)
  BY Zenon DEF VInv, ToVer
<1>4. /\ HostVer(r, h) /\ HostOK(h) /\ fromRank[r] \in Seq(RankMsgs(r))
      /\ FromRankOK(r, fromRank[r], c, h) /\ ToRankOK(toRank[r], c, h)
  BY <1>2, Zenon DEF RankOf
<1>5. c.num \in Nat /\ h.num \in Nat /\ HostUp(h) \in Int
  BY <1>2, RankBounds, ZenonT(30)
<1> HIDE DEF h, c
<1>6. m \in RankMsgs(r) /\ Key(m) = 2 * h.num + 1 /\ Key(m) \in Nat
  <2>1. m \in RankMsgs(r)
    BY <1>1, <1>5, Zenon DEF RankRevokeMsg, RankMsgs, RankRevokeMsgs
  <2>2. Key(m) = 2 * h.num + 1
    BY DEF RankRevokeMsg, Key
  <2> QED
    BY <2>1, <2>2, <1>5, SMTT(30)
<1> HIDE DEF m
<1>7. PICK g : Freed(h, g) /\ HostStep(r, g, Append(fromRank[r], m), toRank[r])
  BY <1>1, Zenon
<1>8. /\ Held(h.entries) = Group /\ h.global = 0 /\ h.pending_send_adds = 0
      /\ g.global = 1 /\ g.frees = h.frees + 1 /\ g.num = h.num /\ g.entries = h.entries
      /\ g.failed = h.failed /\ g.pending_entries = h.pending_entries
      /\ g.pending_send_adds = h.pending_send_adds /\ g.creates = h.creates
  BY <1>7, Zenon DEF Freed, HostFields, CommonFields
<1>9. h.frees = h.num - 1
  BY <1>1, <1>4, <1>8, ZenonT(30) DEF HostVer
<1>10. g.frees = g.num /\ 0 # 1
  BY <1>5, <1>8, <1>9, SMTT(30)
<1>11. HostVer(r, g)
  BY <1>4, <1>8, <1>10, ZenonT(30) DEF HostVer
<1>12. Cur(h) = h.num /\ Cur(g) = h.num /\ HostFrom(g) = HostFrom(h)
  BY <1>1, <1>8, Zenon DEF Cur, HostFrom
<1>13. HostUp(h) = 2 * h.num /\ HostUp(g) = 2 * h.num + 1
  BY <1>1, <1>5, <1>8, <1>12, HostRange, ZenonT(30)
<1>14. Key(m) = HostUp(g) /\ HostUp(g) = HostUp(h) + 1
  BY <1>6, <1>13, Zenon
<1>15. FromRankOK(r, Append(fromRank[r], m), c, g)
  BY <1>4, <1>5, <1>6, <1>14, RankSends, ZenonT(30)
<1>16. ToRankOK(toRank[r], c, g)
  BY <1>4, <1>12, SamePlace, ZenonT(30)
<1> QED
  BY <1>3, <1>7, <1>11, <1>15, <1>16, HostStepKeeps, ZenonT(30) DEF c

-----------------------------------------------------------------------------
(* The messages of the SP *)

\* The message m is the next one of the stream to the rank r with cache h.
Due(r, h, m) ==
  /\ m.type = "entries" => /\ Held(h.entries) = {r} /\ h.global = 0
                           /\ m.entries \in EntriesOf(Group) /\ Held(m.entries) = Group
                           /\ FirstSeq(m) = h.num /\ Uniform(m.entries, h.num)
                           /\ Key(m) = 2 * h.num
  /\ m.type = "revoke" => h.global = 1 /\ m.seq = h.num /\ Key(m) = 2 * h.num + 1

\* The cache reaches a rank that waits for it, and the final revoke one that
\* freed the group.
LEMMA MessageInTurn ==
  ASSUME GroupSets, TwoSps, IInv, VInv, NEW r \in Group, toRank[r] # <<>>
  PROVE  Due(r, host[r], Head(toRank[r]))
<1> DEFINE h == host[r]
           c == sp[spOf[r]]
           x == toRank[r]
           m == Head(x)
<1>1. spOf[r] \in SP /\ r \in Rank
  BY TopologyAssumption, Zenon DEF TopologyAssumption
<1>2. RankOf(r, c, h, fromRank[r], x)
  BY RankState, Zenon
<1>3. x \in Seq(HostMsgs) /\ ToRankOK(x, c, h) /\ HostVer(r, h)
  BY <1>2, Zenon DEF RankOf
<1>4. SpDown(c) <= HostUp(h) /\ SpDown(c) \in Int /\ HostUp(h) \in Int
  BY <1>1, RanksAhead, Zenon
<1>5. (\A i \in DOMAIN x : Complete(x[i])) /\ ToOK(x, c)
  BY <1>1, Zenon DEF IInv, ToPart, VInv, ToVer
<1> HIDE DEF x, h, c
<1>6. 1 \in DOMAIN x /\ m = x[1] /\ m \in HostMsgs
  <2>1. x # <<>>
    BY Zenon DEF x
  <2> QED
    BY <2>1, <1>3, SMTT(30)
<1>7. /\ HostFrom(h) <= Key(m) /\ Key(m) <= SpDown(c) /\ Key(m) \in Nat /\ Complete(m)
      /\ m.type = "entries" => Uniform(m.entries, FirstSeq(m))
  BY <1>3, <1>5, <1>6, Zenon DEF ToRankOK, Stream, ToOK
<1> HIDE DEF m
<1>8. h.num \in Nat /\ h.global \in {0, 1} /\ (h.global = 1 => Held(h.entries) = Group)
  BY <1>2, RankBounds, Zenon DEF RankOf, HostVer
<1>9. /\ Cur(h) \in Nat /\ HostFrom(h) \in Nat
      /\ h.global = 1 => HostUp(h) = 2 * Cur(h) + 1
      /\ h.global = 0 /\ Held(h.entries) # {} => HostUp(h) = 2 * Cur(h)
      /\ h.global = 0 /\ Held(h.entries) = {} => HostUp(h) = 2 * Cur(h) - 1
      /\ Held(h.entries) = Group => HostFrom(h) = 2 * Cur(h) + 1
      /\ Held(h.entries) # Group => HostFrom(h) = 2 * Cur(h)
  BY <1>8, HostRange, Zenon
<1>10. HostFrom(h) <= Key(m) /\ Key(m) <= HostUp(h)
  BY <1>4, <1>7, SMTT(30)
<1>11. HostUp(h) <= 2 * Cur(h) + 1 /\ HostFrom(h) >= 2 * Cur(h)
  BY <1>8, <1>9, SMTT(30)
<1>b. Cur(h) \in Nat /\ 2 * Cur(h) <= Key(m) /\ Key(m) <= 2 * Cur(h) + 1
  <2>1. Cur(h) \in Nat /\ HostFrom(h) \in Nat
    BY <1>9, Zenon
  <2> QED
    BY <2>1, <1>4, <1>7, <1>10, <1>11, SMTT(30)
<1>12. Held(h.entries) # {}
  <2> SUFFICES ASSUME Held(h.entries) = {} PROVE FALSE
    BY Zenon
  <2>1. h.global = 0
    BY <1>8, Zenon
  <2>2. HostUp(h) = 2 * Cur(h) - 1
    BY <2>1, <1>9, Zenon
  <2> QED
    BY <2>2, <1>7, <1>9, <1>10, <1>11, SMTT(30)
<1>13. Cur(h) = h.num
  BY <1>12, Zenon DEF Cur
<1>14. CASE m.type = "entries"
  <2>1. m \in EntriesMsgs(Group)
    BY <1>6, <1>14, Zenon DEF HostMsgs, SpRevokeMsgs
  <2>2. m.entries \in EntriesOf(Group) /\ Held(m.entries) = Group
    BY <2>1, <1>7, <1>14, ZenonT(30) DEF EntriesMsgs, Complete
  <2>3. Key(m) = 2 * FirstSeq(m) /\ FirstSeq(m) \in Nat
    BY <2>1, KeyNat, ZenonT(30)
  <2>4. FirstSeq(m) = Cur(h) /\ Key(m) = 2 * Cur(h)
    <3>1. FirstSeq(m) = Cur(h)
      BY <2>3, <1>b, SMTT(30)
    <3> QED
      BY <3>1, <2>3, Zenon
  <2>5. Held(h.entries) # Group
    BY <2>4, <1>9, <1>10, SMTT(30)
  <2>6. h.global = 0
    BY <2>5, <1>8, Zenon
  <2>7. Held(h.entries) = {r}
    BY <2>5, <1>3, <1>12, ZenonT(30) DEF HostVer
  <2> QED
    BY <2>2, <2>4, <2>6, <2>7, <1>7, <1>13, <1>14, ZenonT(30) DEF Due, h, m, x
<1>15. CASE m.type = "revoke"
  <2>1. m \in SpRevokeMsgs
    BY <1>6, <1>15, Zenon DEF HostMsgs, EntriesMsgs
  <2>2. m.seq \in Nat /\ Key(m) = 2 * m.seq + 1
    BY <2>1, SMTT(30) DEF SpRevokeMsgs, Key
  <2>3. m.seq = Cur(h) /\ Key(m) = 2 * Cur(h) + 1
    <3>1. m.seq = Cur(h)
      BY <2>2, <1>b, SMTT(30)
    <3> QED
      BY <3>1, <2>2, Zenon
  <2>4. h.global = 1
    <3>1. h.global = 0 => HostUp(h) = 2 * Cur(h)
      BY <1>9, <1>12, Zenon
    <3> QED
      BY <2>3, <3>1, <1>b, <1>8, <1>10, SMTT(30)
  <2> QED
    BY <2>3, <2>4, <1>13, <1>15, ZenonT(30) DEF Due, h, m, x
<1>16. m.type = "entries" \/ m.type = "revoke"
  BY <1>6, Zenon DEF HostMsgs, EntriesMsgs, SpRevokeMsgs
<1> QED
  BY <1>14, <1>15, <1>16, Zenon DEF h, m, x

\* A rank takes the next message.
LEMMA RankTakes ==
  ASSUME NEW ch \in Seq(HostMsgs), ch # <<>>, NEW c, c.num \in Nat, NEW h, HostFrom(h) \in Nat,
         NEW g, HostFrom(g) = Key(Head(ch)) + 1, ToRankOK(ch, c, h)
  PROVE  ToRankOK(Tail(ch), c, g)
<1>1. HostFrom(h) \in Int /\ SpDown(c) \in Int
  <2>1. SpDown(c) \in Int
    BY PositionsInt, Zenon
  <2> QED
    BY <2>1
<1>2. Stream(ch, HostFrom(h), SpDown(c))
  BY Zenon DEF ToRankOK
<1>3. /\ Key(Head(ch)) \in Nat /\ Key(Head(ch)) <= SpDown(c)
      /\ Stream(Tail(ch), Key(Head(ch)) + 1, SpDown(c))
  BY <1>1, <1>2, StreamHead, Zenon
<1>4. Key(Head(ch)) + 1 <= SpDown(c) + 1
  BY <1>1, <1>3, SMTT(30)
<1> QED
  BY <1>3, <1>4, Zenon DEF ToRankOK

\* The same for any client of an SP.
LEMMA ClientTakes ==
  ASSUME NEW ch \in Seq(HostMsgs), ch # <<>>, NEW c, ToOK(ch, c)
  PROVE  ToOK(Tail(ch), c)
<1>1. \A i \in DOMAIN Tail(ch) : i + 1 \in DOMAIN ch /\ Tail(ch)[i] = ch[i + 1]
  OBVIOUS
<1> QED
  BY <1>1, Zenon DEF ToOK

\* The cache fills up.
Filled(r, h, g) ==
  /\ Held(h.entries) = {r} /\ h.global = 0
  /\ Held(g.entries) = Group /\ g.num = h.num /\ Uniform(g.entries, g.num)
  /\ \A x \in HostFields \ {"group_size", "num", "entries", "num_local_entries"} : g[x] = h[x]

\* peer_cache_entries_recv_cb in the process of a rank of the group: the entries
\* are those of the version that the rank created, and are not put off.
LEMMA CacheFills ==
  ASSUME GroupSets, NEW r \in Group, NEW h, HostOK(h), HostVer(r, h), NEW m, Due(r, h, m), m.type = "entries",
         NEW e, e = CheckEntriesSeq(h, m),
         NEW g, g = IF MustQueueEntries(e, m) THEN QueueEntries(e, m) ELSE AddEntries(e, m.entries)
  PROVE  Filled(r, h, g)
<1>1. /\ Held(h.entries) = {r} /\ h.global = 0 /\ m.entries \in EntriesOf(Group) /\ Held(m.entries) = Group
      /\ FirstSeq(m) = h.num /\ Uniform(m.entries, h.num)
  BY Zenon DEF Due
<1>2. /\ DOMAIN h = HostFields /\ h.num \in Nat /\ Uniform(h.entries, h.num)
      /\ h.num_local_entries = Cardinality(Held(h.entries)) /\ h.entries \in [Group -> Nat]
  BY HostDomain, Zenon DEF HostVer
<1>3. e = h
  <2>1. h.num >= h.num
    BY <1>2
  <2>2. Unless(FirstSeq(m) >= h.num, "entries_seq") = {}
    BY <2>1, <1>1, ZenonT(30) DEF Unless
  <2>3. h.failed \cup {} = h.failed
    OBVIOUS
  <2>4. e = [h EXCEPT !.failed = h.failed]
    BY <2>2, <2>3, <1>2, Zenon DEF CheckEntriesSeq, HostFields, CommonFields
  <2>5. h \in HostCaches
    BY Zenon DEF HostOK
  <2> QED
    BY <2>4, <2>5, Zenon DEF HostCaches
<1>4. ~MustQueueEntries(h, m)
  <2>1. ~(h.global > 0) /\ h.num # h.num + 1
    BY <1>1, <1>2
  <2> QED
    BY <2>1, <1>1, Zenon DEF MustQueueEntries, IsGroupReady
<1>5. g = AddEntries(h, m.entries) /\ Cur(h) = h.num
  BY <1>1, <1>3, <1>4, Zenon DEF Cur
<1>6. CacheOK(h)
  <2>1. CommonFields \subseteq DOMAIN h
    BY <1>2, Zenon DEF HostFields
  <2> QED
    BY <2>1, <1>2, Zenon DEF CacheOK
<1>7. Stored(h, m.entries, Cur(h), g)
  BY <1>1, <1>5, <1>6, AddVersion, ZenonT(30)
<1>8. Held(g.entries) = Group
  <2>1. {r} \cup Group = Group
    BY Zenon
  <2> QED
    BY <2>1, <1>1, <1>7, ZenonT(30) DEF Stored
<1> QED
  BY <1>1, <1>2, <1>5, <1>7, <1>8, ZenonT(30) DEF Stored, Filled

\* A rank of the group receives the cache: it is the one of its version, and fills
\* its cache.
LEMMA RecvCacheCases ==
  ASSUME GroupSets, TwoSps, IInv, VInv, NEW r \in Rank, RecvCache(r)
  PROVE  \E g : /\ HostStep(r, g, fromRank[r], Tail(toRank[r]))
                /\ r \in Group => Filled(r, host[r], g) /\ Key(Head(toRank[r])) = 2 * host[r].num
<1> DEFINE m == Head(toRank[r])
           e == CheckEntriesSeq(host[r], m)
           g == IF MustQueueEntries(e, m) THEN QueueEntries(e, m) ELSE AddEntries(e, m.entries)
<1>1. /\ toRank[r] # <<>> /\ m.type = "entries" /\ host' = [host EXCEPT ![r] = g]
      /\ toRank' = [toRank EXCEPT ![r] = Tail(@)] /\ UNCHANGED <<sp, fromRank, peer>>
  BY Zenon DEF RecvCache
<1>2. DOMAIN host = Rank /\ DOMAIN toRank = Rank /\ HostOK(host[r])
  BY Zenon DEF IInv, HostPart, ToPart
<1>3. r \in Group => Due(r, host[r], m) /\ HostVer(r, host[r])
  BY <1>1, MessageInTurn, ZenonT(30) DEF VInv, RankVer
<1> HIDE DEF m
<1>4. r \in Group => Filled(r, host[r], g)
  BY <1>1, <1>2, <1>3, CacheFills, Zenon
<1>5. r \in Group => Key(m) = 2 * host[r].num
  BY <1>1, <1>3, Zenon DEF Due
<1> HIDE DEF g
<1>6. HostStep(r, g, fromRank[r], Tail(toRank[r]))
  BY <1>1, <1>2, Zenon DEF HostStep
<1> QED
  BY <1>4, <1>5, <1>6, ZenonT(30) DEF m

\* Receiving the cache keeps the invariant.
LEMMA RecvCacheKeeps ==
  ASSUME GroupSets, TwoSps, IInv, VInv, NEW r \in Rank, RecvCache(r)
  PROVE  VInv'
<1> DEFINE h == host[r]
           c == sp[spOf[r]]
           x == toRank[r]
<1>1. x # <<>> /\ x \in Seq(HostMsgs) /\ ToOK(x, c)
  BY Zenon DEF RecvCache, IInv, ToPart, VInv, ToVer
<1>2. PICK g : /\ HostStep(r, g, fromRank[r], Tail(x))
               /\ r \in Group => Filled(r, h, g) /\ Key(Head(x)) = 2 * h.num
  BY RecvCacheCases, Zenon
<1>3. ToOK(Tail(x), c)
  BY <1>1, ClientTakes, Zenon
<1>4. ASSUME r \in Group
      PROVE  HostVer(r, g) /\ FromRankOK(r, fromRank[r], c, g) /\ ToRankOK(Tail(x), c, g)
  <2>1. RankOf(r, c, h, fromRank[r], x)
    BY <1>4, RankState, Zenon
  <2>2. HostVer(r, h) /\ FromRankOK(r, fromRank[r], c, h) /\ ToRankOK(x, c, h)
    BY <2>1, Zenon DEF RankOf
  <2>3. c.num \in Nat /\ h.num \in Nat /\ HostFrom(h) \in Nat
    BY <2>1, RankBounds, Zenon
  <2>4. Filled(r, h, g) /\ Key(Head(x)) = 2 * h.num
    BY <1>2, <1>4, Zenon
  <2> HIDE DEF h, x, c
  <2>5. /\ Held(h.entries) = {r} /\ h.global = 0 /\ Held(g.entries) = Group /\ g.num = h.num
        /\ Uniform(g.entries, g.num) /\ g.failed = h.failed /\ g.pending_entries = h.pending_entries
        /\ g.global = h.global /\ g.pending_send_adds = h.pending_send_adds
        /\ g.frees = h.frees /\ g.creates = h.creates
    BY <2>4, Zenon DEF Filled, HostFields, CommonFields
  <2>6. HostVer(r, g)
    BY <2>2, <2>5, <1>4, Zenon DEF HostVer
  <2>7. HostUp(g) = HostUp(h) /\ Cur(g) = h.num
    BY <2>5, <1>4, Zenon DEF HostUp, Cur
  <2>8. HostFrom(g) = 2 * h.num + 1
    <3>1. g.num \in Nat /\ g.global \in {0, 1}
      BY <2>3, <2>5, SMTT(30)
    <3> QED
      BY <3>1, <2>5, <2>7, HostRange, ZenonT(30)
  <2>9. HostFrom(g) = Key(Head(x)) + 1
    BY <2>4, <2>8, Zenon
  <2>10. ToRankOK(Tail(x), c, g)
    BY <2>2, <2>3, <2>9, <1>1, RankTakes, Zenon
  <2> QED
    BY <2>2, <2>6, <2>7, <2>10, SamePlace, ZenonT(30)
<1> QED
  BY <1>2, <1>3, <1>4, HostStepKeeps, ZenonT(30)

\* The cache is emptied.
Emptied(h, g) ==
  /\ Held(g.entries) = {} /\ g.global = 0
  /\ \A x \in HostFields \ {"group_size", "entries", "num_local_entries", "local", "global"} : g[x] = h[x]

\* What the final revoke does in the process of a rank of the group: it empties
\* the cache, and the rank adds itself again if it was asked to.
RevokedOnly(h, g) ==
  /\ Held(h.entries) = Group /\ h.global = 1 /\ h.pending_send_adds = 0
  /\ Emptied(h, g)
RevokedAndJoined(r, h, g) ==
  /\ Held(h.entries) = Group /\ h.global = 1 /\ h.pending_send_adds = 1
  /\ g.num = h.num + 1 /\ Held(g.entries) = {r} /\ Uniform(g.entries, g.num)
  /\ g.failed = h.failed /\ g.pending_entries = h.pending_entries /\ g.global = 0
  /\ g.pending_send_adds = 0 /\ g.frees = h.frees /\ g.creates = h.creates

\* revoke_group_cache, with no entries pending.
LEMMA RevokeEmpties ==
  ASSUME GroupSets, NEW h, HostOK(h), h.pending_entries = <<>>, NEW d, d = RevokeHostCache(h)
  PROVE  HostOK(d) /\ Emptied(h, d)
<1>1. HostOK(d)
  BY RevokeHostCacheOK, ZenonT(30)
<1>2. DOMAIN h = HostFields
  BY HostDomain, Zenon
<1>3. d = ResetCache(h)
  BY Zenon DEF RevokeHostCache
<1>4. Held(EmptyEntries) = {}
  BY Zenon DEF EmptyEntries, Held
<1>5. /\ d.entries = EmptyEntries /\ d.global = 0
      /\ \A x \in HostFields \ {"group_size", "entries", "num_local_entries", "local", "global"} : d[x] = h[x]
  BY <1>2, <1>3, Zenon DEF ResetCache, HostFields, CommonFields
<1> QED
  BY <1>1, <1>4, <1>5, ZenonT(30) DEF Emptied

\* A rank of the group receives the final revoke: it is the one of its version. Its
\* cache is empty then, or has its entry of the next version if the application
\* has created the group again.
LEMMA RecvFinalRevokeCases ==
  ASSUME GroupSets, TwoSps, IInv, VInv, NEW r \in Rank, RecvFinalRevoke(r)
  PROVE  \E g : \/ /\ HostStep(r, g, fromRank[r], Tail(toRank[r]))
                   /\ r \in Group => RevokedOnly(host[r], g) /\ Key(Head(toRank[r])) = 2 * host[r].num + 1
                \/ /\ r \in Group /\ RevokedAndJoined(r, host[r], g)
                   /\ HostStep(r, g, Append(fromRank[r], AddMsg(r, g.num)), Tail(toRank[r]))
                   /\ Key(Head(toRank[r])) = 2 * host[r].num + 1
<1> DEFINE h == host[r]
           m == Head(toRank[r])
           d == RevokeHostCache(h)
           z == 0
           e == [d EXCEPT !.pending_send_adds = z]
           a == AddSelf(e, r)
<1>1. /\ toRank[r] # <<>> /\ m.type = "revoke" /\ UNCHANGED <<sp, peer>>
      /\ toRank' = [toRank EXCEPT ![r] = Tail(@)]
  BY Zenon DEF RecvFinalRevoke
<1>2. /\ DOMAIN host = Rank /\ DOMAIN toRank = Rank /\ DOMAIN fromRank = Rank
      /\ HostOK(h)
      /\ h.pending_send_adds # 0 => r \in Group
  BY Zenon DEF IInv, HostPart, ToPart, FromPart
<1>3. /\ d.pending_send_adds = h.pending_send_adds /\ h.pending_send_adds \in Nat /\ HostOK(d)
  BY <1>2, RevokeHostCacheOK, HostDomain, Zenon
<1>4. DOMAIN d = HostFields
  BY <1>3, HostDomain, Zenon
<1>5. r \in Group => /\ Due(r, h, m) /\ HostVer(r, h) /\ h.global = 1 /\ Key(m) = 2 * h.num + 1
                     /\ Held(h.entries) = Group /\ h.pending_entries = <<>> /\ h.pending_send_adds \in {0, 1}
  <2>1. r \in Group => Due(r, h, m) /\ HostVer(r, h)
    BY <1>1, MessageInTurn, Zenon DEF VInv, RankVer
  <2> HIDE DEF h, m
  <2> QED
    BY <2>1, <1>1, Zenon DEF HostVer, Due
<1>6. r \in Group => Emptied(h, d)
  BY <1>2, <1>5, RevokeEmpties, Zenon
<1> HIDE DEF m
<1>7. CASE h.pending_send_adds = 0
  <2>1. ~(d.pending_send_adds > 0)
    BY <1>3, <1>7, SMTT(30)
  <2>2. host' = [host EXCEPT ![r] = d] /\ UNCHANGED fromRank
    BY <2>1, Zenon DEF RecvFinalRevoke
  <2> HIDE DEF d
  <2>3. HostStep(r, d, fromRank[r], Tail(toRank[r]))
    BY <2>2, <1>1, <1>2, ZenonT(30) DEF HostStep
  <2>4. r \in Group => RevokedOnly(h, d)
    <3> HIDE DEF h
    <3> QED
      BY <1>5, <1>6, <1>7, ZenonT(30) DEF RevokedOnly
  <2> QED
    BY <2>3, <2>4, <1>5, Zenon DEF m
<1>8. CASE h.pending_send_adds # 0
  <2>1. r \in Group /\ h.pending_send_adds = 1
    BY <1>2, <1>5, <1>8, ZenonT(30)
  <2>2. d.pending_send_adds > 0 /\ d.pending_send_adds - 1 = z
    BY <2>1, <1>3
  <2>3. /\ host' = [host EXCEPT ![r] = a]
        /\ fromRank' = [fromRank EXCEPT ![r] = Append(@, AddMsg(r, a.num))]
    <3>1. [d EXCEPT !.pending_send_adds = @ - 1] = e
      <4> HIDE DEF d, z
      <4> QED
        BY <2>2, <1>4, Zenon DEF HostFields
    <3> HIDE DEF e
    <3> QED
      BY <2>2, <3>1, Zenon DEF RecvFinalRevoke
  <2> HIDE DEF d
  <2>4. DOMAIN e = HostFields /\ e.pending_send_adds = z /\ \A x \in HostFields \ {"pending_send_adds"} : e[x] = d[x]
    <3> HIDE DEF z
    <3> QED
      BY <1>4, Zenon DEF HostFields
  <2>5. HostOK(e)
    <3>0. z \in Nat
      OBVIOUS
    <3> HIDE DEF z
    <3>1. e \in HostCaches
      BY <3>0, <1>3, ZenonT(30) DEF HostOK, HostCaches
    <3>2. HostCacheInv(e)
      BY <2>4, <1>3, Zenon DEF HostOK, HostCacheInv, HostFields, CommonFields
    <3> QED
      BY <3>1, <3>2, Zenon DEF HostOK
  <2> HIDE DEF e
  <2>6. /\ Held(e.entries) = {} /\ e.global = 0 /\ e.num = h.num /\ e.failed = h.failed
        /\ e.pending_entries = h.pending_entries /\ e.frees = h.frees /\ e.creates = h.creates
        /\ e.pending_send_adds = 0
    <3>1. /\ e.entries = d.entries /\ e.global = d.global /\ e.num = d.num /\ e.failed = d.failed
          /\ e.pending_entries = d.pending_entries /\ e.frees = d.frees /\ e.creates = d.creates
      BY <2>4, Zenon DEF HostFields, CommonFields
    <3>2. /\ Held(d.entries) = {} /\ d.global = 0 /\ d.num = h.num /\ d.failed = h.failed
          /\ d.pending_entries = h.pending_entries /\ d.frees = h.frees /\ d.creates = h.creates
      BY <2>1, <1>6, Zenon DEF Emptied, HostFields, CommonFields
    <3> QED
      BY <2>4, <3>1, <3>2, Zenon
  <2>7. e.num \in Nat
    BY <2>5, HostDomain, Zenon
  <2>8. Joined(r, e, a) /\ a.creates = e.creates
    BY <2>1, <2>5, <2>6, <2>7, AddSelfVersion, Zenon
  <2> HIDE DEF a
  <2>9. RevokedAndJoined(r, h, a)
    BY <2>1, <2>6, <2>8, <1>5, ZenonT(30) DEF RevokedAndJoined, Joined
  <2>10. HostStep(r, a, Append(fromRank[r], AddMsg(r, a.num)), Tail(toRank[r]))
    BY <2>3, <1>1, <1>2, Zenon DEF HostStep
  <2> QED
    BY <2>1, <2>9, <2>10, <1>5, ZenonT(30) DEF m
<1> QED
  BY <1>7, <1>8, Zenon

\* Receiving the final revoke keeps the invariant.
LEMMA RecvFinalRevokeKeeps ==
  ASSUME GroupSets, TwoSps, IInv, VInv, NEW r \in Rank, RecvFinalRevoke(r)
  PROVE  VInv'
<1> DEFINE h == host[r]
           c == sp[spOf[r]]
           x == toRank[r]
           n == h.num
<1>1. x # <<>> /\ x \in Seq(HostMsgs) /\ ToOK(x, c)
  BY Zenon DEF RecvFinalRevoke, IInv, ToPart, VInv, ToVer
<1>2. PICK g : \/ /\ HostStep(r, g, fromRank[r], Tail(x))
                  /\ r \in Group => RevokedOnly(h, g) /\ Key(Head(x)) = 2 * n + 1
               \/ /\ r \in Group /\ RevokedAndJoined(r, h, g)
                  /\ HostStep(r, g, Append(fromRank[r], AddMsg(r, g.num)), Tail(x))
                  /\ Key(Head(x)) = 2 * n + 1
  BY RecvFinalRevokeCases, ZenonT(30)
<1>3. ToOK(Tail(x), c)
  BY <1>1, ClientTakes, Zenon
<1>4. r \in Group => RankOf(r, c, h, fromRank[r], x)
  BY RankState, Zenon
<1> HIDE DEF h, c, x
<1>5. r \in Group => /\ HostVer(r, h) /\ FromRankOK(r, fromRank[r], c, h) /\ ToRankOK(x, c, h)
                     /\ fromRank[r] \in Seq(RankMsgs(r))
                     /\ c.num \in Nat /\ n \in Nat /\ HostFrom(h) \in Nat /\ HostUp(h) \in Int
  BY <1>4, RankBounds, Zenon DEF RankOf
<1>6. ASSUME HostStep(r, g, fromRank[r], Tail(x)),
             r \in Group => RevokedOnly(h, g) /\ Key(Head(x)) = 2 * n + 1
      PROVE  VInv'
  <2>1. ASSUME r \in Group
        PROVE  HostVer(r, g) /\ FromRankOK(r, fromRank[r], c, g) /\ ToRankOK(Tail(x), c, g)
    <3>1. /\ Held(h.entries) = Group /\ h.global = 1 /\ h.pending_send_adds = 0
          /\ Held(g.entries) = {} /\ g.global = 0 /\ g.num = n /\ g.failed = h.failed
          /\ g.pending_entries = h.pending_entries /\ g.pending_send_adds = 0
          /\ g.frees = h.frees /\ g.creates = h.creates
      BY <1>6, <2>1, Zenon DEF RevokedOnly, Emptied, HostFields, CommonFields
    <3>2. 0 # 1
      OBVIOUS
    <3>3. HostVer(r, h)
      BY <1>5, <2>1, Zenon
    <3>4. h.frees = n /\ h.creates = n + 0 /\ h.failed = {} /\ h.pending_entries = <<>>
      BY <3>1, <3>2, <3>3, ZenonT(30) DEF HostVer
    <3>5. Uniform(g.entries, g.num)
      BY <3>1, Zenon DEF Uniform
    <3>6. HostVer(r, g)
      BY <3>1, <3>2, <3>4, <3>5, Zenon DEF HostVer
    <3>7. Cur(h) = n /\ Cur(g) = n + 1
      BY <2>1, <3>1, Zenon DEF Cur
    <3>8. HostUp(h) = 2 * Cur(h) + 1 /\ HostUp(g) = 2 * Cur(g) - 1 /\ HostFrom(g) = 2 * Cur(g)
      <4>1. g.num \in Nat /\ g.global \in {0, 1} /\ h.global \in {0, 1}
        BY <2>1, <3>1, <1>5, SMTT(30)
      <4> QED
        BY <4>1, <2>1, <3>1, <1>5, HostRange, ZenonT(30)
    <3>9. n \in Nat
      BY <2>1, <1>5, Zenon
    <3>10. HostUp(g) = HostUp(h) /\ HostFrom(g) = (2 * n + 1) + 1
      BY <3>7, <3>8, <3>9, SMTT(30)
    <3>11. ToRankOK(Tail(x), c, g)
      BY <3>10, <2>1, <1>1, <1>5, <1>6, RankTakes, ZenonT(30)
    <3> QED
      BY <3>6, <3>10, <3>11, <2>1, <1>5, SamePlace, ZenonT(30)
  <2> QED
    BY <2>1, <1>3, <1>6, HostStepKeeps, Zenon DEF c
<1>7. ASSUME r \in Group, RevokedAndJoined(r, h, g), Key(Head(x)) = 2 * n + 1,
             HostStep(r, g, Append(fromRank[r], AddMsg(r, g.num)), Tail(x))
      PROVE  VInv'
  <2>1. /\ Held(h.entries) = Group /\ h.global = 1 /\ h.pending_send_adds = 1
        /\ g.num = n + 1 /\ Held(g.entries) = {r} /\ Uniform(g.entries, g.num)
        /\ g.failed = h.failed /\ g.pending_entries = h.pending_entries /\ g.global = 0
        /\ g.pending_send_adds = 0 /\ g.frees = h.frees /\ g.creates = h.creates
    BY <1>7, Zenon DEF RevokedAndJoined
  <2>2. 0 # 1
    OBVIOUS
  <2>3. HostVer(r, h)
    BY <1>5, <1>7, Zenon
  <2>4. h.frees = n /\ h.creates = n + 1 /\ h.failed = {} /\ h.pending_entries = <<>>
    BY <2>1, <2>2, <2>3, Zenon DEF HostVer
  <2>5. n \in Nat /\ c.num \in Nat
    BY <1>5, <1>7, Zenon
  <2>6. g.num \in Nat /\ g.num # 0 /\ n = g.num - 1 /\ g.num = g.num + 0 /\ g.global \in {0, 1} /\ h.global \in {0, 1}
    BY <2>1, <2>5
  <2>7. HostVer(r, g)
    BY <2>1, <2>2, <2>4, <2>6, <1>7, ZenonT(30) DEF HostVer
  <2>8. {r} # Group
    BY <1>7, NotAlone, ZenonT(30)
  <2>9. Cur(h) = n /\ Cur(g) = n + 1
    BY <2>1, <1>7, ZenonT(30) DEF Cur
  <2>10. HostUp(h) = 2 * Cur(h) + 1 /\ HostUp(g) = 2 * Cur(g) /\ HostFrom(g) = 2 * Cur(g)
    BY <2>1, <2>5, <2>6, <2>8, HostRange, ZenonT(30)
  <2>11. HostUp(g) = HostUp(h) + 1 /\ HostFrom(g) = (2 * n + 1) + 1
    BY <2>5, <2>9, <2>10, SMTT(30)
  <2>12. /\ AddMsg(r, g.num) \in RankMsgs(r) /\ Key(AddMsg(r, g.num)) = 2 * g.num /\ Key(AddMsg(r, g.num)) \in Nat
    BY <2>6, <1>7, AddKey, ZenonT(30)
  <2>13. Key(AddMsg(r, g.num)) = HostUp(g)
    BY <2>1, <2>9, <2>10, <2>12, ZenonT(30)
  <2>14. FromRankOK(r, Append(fromRank[r], AddMsg(r, g.num)), c, g)
    BY <2>11, <2>12, <2>13, <1>5, <1>7, RankSends, ZenonT(30)
  <2>15. ToRankOK(Tail(x), c, g)
    BY <2>11, <1>1, <1>5, <1>7, RankTakes, ZenonT(30)
  <2> QED
    BY <2>7, <2>14, <2>15, <1>3, <1>7, HostStepKeeps, ZenonT(30) DEF c
<1> QED
  BY <1>2, <1>6, <1>7, ZenonT(30)

-----------------------------------------------------------------------------
(* The initial state, and every step *)

\* The position of an SP and of a rank before the first version.
LEMMA NewPositions ==
  ASSUME TwoSps, NEW p \in SP, NEW r \in Group, NEW c, NEW h, c = NewSpCache, h = NewHostCache
  PROVE  /\ SpUp(p, c) = 1 /\ SpDown(c) = 1 /\ FromRanks(c, r) = 2 /\ FromPeer(c, r) = 2
         /\ HostUp(h) = 1 /\ HostFrom(h) = 2
<1>1. Held(EmptyEntries) = {}
  BY Zenon DEF EmptyEntries, Held
<1>2. /\ c.entries = EmptyEntries /\ c.num = 0 /\ c.revoked = {} /\ c.pending_entries = <<>> /\ c.pending_adds = <<>>
      /\ c.pending_revokes_from_sps = <<>> /\ h.entries = EmptyEntries /\ h.num = 0 /\ h.global = 0
  BY Zenon DEF NewSpCache, NewHostCache
<1>3. DOMAIN <<>> = {}
  OBVIOUS
<1>4. Added(c) = {} /\ Pending(c) = {}
  <2>1. DOMAIN c.pending_adds = {} /\ DOMAIN c.pending_entries = {}
    BY <1>2, <1>3, Zenon
  <2> QED
    BY <2>1, Zenon DEF Added, Pending
<1>5. Cur(c) = 1 /\ Cur(h) = 1
  <2>1. 0 + 1 = 1
    OBVIOUS
  <2> QED
    BY <2>1, <1>1, <1>2, Zenon DEF Cur
<1>6. ~(SpRanks(p) \subseteq {}) /\ {} # Group
  BY Zenon DEF TwoSps
<1>7. 2 * 1 + (-1) = 1 /\ 2 * 1 + 0 = 2 /\ ~(0 > 0)
  OBVIOUS
<1>8. SpUp(p, c) = 1
  BY <1>1, <1>2, <1>5, <1>6, <1>7, ZenonT(30) DEF SpUp
<1>9. SpDown(c) = 1
  BY <1>1, <1>2, <1>5, <1>6, <1>7, ZenonT(30) DEF SpDown
<1>10. FromRanks(c, r) = 2
  BY <1>1, <1>2, <1>4, <1>5, <1>7, ZenonT(30) DEF FromRanks
<1>11. FromPeer(c, r) = 2
  BY <1>1, <1>2, <1>4, <1>5, <1>7, ZenonT(30) DEF FromPeer
<1>12. HostUp(h) = 1
  BY <1>1, <1>2, <1>5, <1>6, <1>7, Zenon DEF HostUp
<1>13. HostFrom(h) = 2
  BY <1>1, <1>2, <1>5, <1>6, <1>7, ZenonT(30) DEF HostFrom
<1> QED
  BY <1>8, <1>9, <1>10, <1>11, <1>12, <1>13, ZenonT(30)

\* The invariant holds at the start.
LEMMA InitVersions ==
  ASSUME GroupSets, TwoSps, Init
  PROVE  VInv
<1>1. /\ \A p \in SP : sp[p] = NewSpCache
      /\ \A r \in Rank : host[r] = NewHostCache /\ fromRank[r] = <<>> /\ toRank[r] = <<>>
      /\ \A p, q \in SP : peer[p][q] = <<>>
  BY Zenon DEF Init
<1>2. Held(EmptyEntries) = {} /\ DOMAIN <<>> = {}
  <2>1. DOMAIN <<>> = {}
    OBVIOUS
  <2> QED
    BY <2>1, Zenon DEF EmptyEntries, Held
<1>3. ASSUME NEW p \in SP PROVE SpVer(p, sp[p])
  <2> DEFINE c == sp[p]
  <2>0. c = NewSpCache
    BY <1>1, Zenon
  <2> HIDE DEF c
  <2>1. /\ c.entries = EmptyEntries /\ c.num = 0 /\ c.revoked = {} /\ c.failed = {} /\ c.global = 0 /\ c.local = 0
        /\ c.pending_entries = <<>> /\ c.pending_adds = <<>> /\ c.sp_ranks = 0
        /\ c.pending_revokes_from_sps = <<>> /\ c.pending_revokes_from_ranks = <<>>
    BY <2>0, Zenon DEF NewSpCache
  <2>2. Cardinality({}) = 0
    BY GroupFinite, Zenon
  <2>3. {} \cap SpRanks(p) = {} /\ {} \cap Others(p) = {}
    BY Zenon
  <2>4. SpCore(p, c)
    BY <2>1, <2>2, <2>3, <1>2, Zenon DEF SpCore, Uniform, RanksCounted
  <2>5. DOMAIN c.pending_adds = {} /\ DOMAIN c.pending_entries = {} /\ DOMAIN c.pending_revokes_from_sps = {}
    BY <2>1, <1>2, Zenon
  <2>6. AddsVer(c) /\ EntriesVer(c) /\ RevokesVer(p, c)
    BY <2>5, Zenon DEF AddsVer, EntriesVer, RevokesVer
  <2> QED
    BY <2>4, <2>6, Zenon DEF SpVer, c
<1>4. ASSUME NEW p \in SP, NEW q \in SP PROVE PeerVer(p, q)
  <2> DEFINE c == sp[p]
             b == sp[q]
             ch == peer[q][p]
  <2>1. c = NewSpCache /\ b = NewSpCache /\ DOMAIN ch = {}
    BY <1>1, <1>2, Zenon
  <2> HIDE DEF c, b, ch
  <2>2. Stream(ch, 0, SpUp(q, b)) /\ \A i \in DOMAIN ch : PeerMsgVer(p, c, ch[i])
    BY <2>1, Zenon DEF Stream
  <2>3. ASSUME NEW r \in SpRanks(q) PROVE RankStream(ch, r, FromPeer(c, r), SpUp(q, b))
    <3>1. r \in Group
      BY <2>3, Zenon DEF SpRanks
    <3>2. FromPeer(c, r) = 2 /\ SpUp(q, b) = 1
      BY <2>1, <3>1, NewPositions, Zenon
    <3>3. 2 .. 1 = {} /\ 2 <= 1 + 1
      OBVIOUS
    <3> QED
      BY <2>1, <3>2, <3>3, Zenon DEF RankStream
  <2> QED
    BY <2>2, <2>3, Zenon DEF PeerVer, PeerOK, c, b, ch
<1>5. ASSUME NEW r \in Group PROVE RankVer(r)
  <2> DEFINE c == sp[spOf[r]]
             h == host[r]
  <2>1. r \in Rank /\ spOf[r] \in SP
    BY TopologyAssumption, Zenon DEF TopologyAssumption
  <2>2. c = NewSpCache /\ h = NewHostCache /\ DOMAIN fromRank[r] = {} /\ DOMAIN toRank[r] = {}
    BY <2>1, <1>1, <1>2, Zenon
  <2> HIDE DEF c, h
  <2>3. SpDown(c) = 1 /\ FromRanks(c, r) = 2 /\ HostUp(h) = 1 /\ HostFrom(h) = 2
    BY <2>1, <2>2, NewPositions, Zenon
  <2>4. 2 <= 1 + 1 /\ 0 # 1 /\ 0 = 0 + 0
    OBVIOUS
  <2>5. /\ h.entries = EmptyEntries /\ h.num = 0 /\ h.failed = {} /\ h.pending_entries = <<>> /\ h.global = 0
        /\ h.pending_send_adds = 0 /\ h.creates = 0 /\ h.frees = 0
    BY <2>2, Zenon DEF NewHostCache
  <2>6. HostVer(r, h)
    BY <2>4, <2>5, <1>2, Zenon DEF HostVer, Uniform
  <2>7. FromRankOK(r, fromRank[r], c, h) /\ ToRankOK(toRank[r], c, h)
    BY <2>2, <2>3, <2>4, Zenon DEF FromRankOK, ToRankOK, Stream
  <2> QED
    BY <2>6, <2>7, Zenon DEF RankVer, c, h
<1>6. ASSUME NEW r \in Rank PROVE ToVer(r)
  BY <1>1, <1>2, Zenon DEF ToVer, ToOK
<1> QED
  BY <1>3, <1>4, <1>5, <1>6, ZenonT(30) DEF VInv

-----------------------------------------------------------------------------
(* What the clients of an SP may rely on *)

\* What an SP tells its clients about version v, all ranks have done.
LEMMA SpsFollow ==
  ASSUME TwoSps, IInv, VInv, NEW p \in SP, NEW k \in Int, k <= SpDown(sp[p]), NEW v \in Int, NEW s \in Group
  PROVE  /\ k >= 2 * v => host[s].creates >= v
         /\ k >= 2 * v + 1 => host[s].frees >= v
<1> DEFINE h == host[s]
           x == HostUp(h)
           y == SpDown(sp[p])
<1>1. x \in Int /\ y \in Int /\ y <= x
  BY RanksAhead, Zenon
<1>2. HostOK(h) /\ HostVer(s, h)
  BY TopologyAssumption, Zenon DEF TopologyAssumption, IInv, HostPart, VInv, RankVer
<1>3. (x >= 2 * v + 1 => h.frees >= v) /\ (x >= 2 * v => h.creates >= v)
  BY <1>2, HostCounts, Zenon
<1>4. k <= y
  OBVIOUS
<1> HIDE DEF x, y
<1>5. (k >= 2 * v => x >= 2 * v) /\ (k >= 2 * v + 1 => x >= 2 * v + 1)
  BY <1>1, <1>4
<1> QED
  BY <1>3, <1>5, Zenon

\* No rank is told that a version is revoked, and no SP forgets it, before every
\* rank of the group freed it.
LEMMA VersionsRevoked ==
  ASSUME GroupSets, TwoSps, IInv, VInv
  PROVE  RevokeIsGlobal
<1>1. ASSUME NEW r \in Rank, NEW i \in DOMAIN toRank[r], toRank[r][i].type = "revoke", NEW s \in Group
      PROVE  host[s].frees >= toRank[r][i].seq
  <2> DEFINE m == toRank[r][i]
             p == spOf[r]
             n == m.seq
  <2>1. p \in SP
    BY TopologyAssumption, Zenon DEF TopologyAssumption
  <2>2. m \in HostMsgs
    <3>1. toRank[r] \in Seq(HostMsgs)
      BY Zenon DEF IInv, ToPart
    <3> QED
      BY <3>1
  <2>3. Key(m) <= SpDown(sp[p])
    BY Zenon DEF VInv, ToVer, ToOK
  <2>4. m.type = "revoke"
    BY <1>1, Zenon
  <2> HIDE DEF m, p
  <2>5. n \in Nat
    <3>1. "revoke" # "entries"
      OBVIOUS
    <3> QED
      BY <2>2, <2>4, <3>1, Zenon DEF HostMsgs, EntriesMsgs, SpRevokeMsgs
  <2>6. Key(m) = 2 * n + 1
    BY <2>4 DEF Key
  <2> HIDE DEF n
  <2>7. n \in Int /\ 2 * n + 1 \in Int /\ 2 * n + 1 >= 2 * n + 1
    BY <2>5
  <2>8. 2 * n + 1 <= SpDown(sp[p])
    BY <2>3, <2>6, Zenon
  <2>9. host[s].frees >= n
    BY <2>1, <2>7, <2>8, SpsFollow, ZenonT(30)
  <2> QED
    BY <2>9, Zenon DEF n, m
<1>2. ASSUME NEW p \in SP, NEW s \in Group
      PROVE  host[s].frees >= sp[p].revoke_posted
  <2> DEFINE c == sp[p]
             n == c.revoke_posted
  <2>1. SpOK(p, c) /\ SpVer(p, c)
    BY Zenon DEF IInv, SpPart, VInv
  <2> HIDE DEF c
  <2>2. c.num \in Nat /\ n \in Nat
    BY <2>1, SpNumbers, Zenon DEF SpOK, SpCaches
  <2>3. /\ Held(c.entries) = {} => n = c.num
        /\ n = c.num \/ n + 1 = c.num
        /\ Held(c.entries) # {} /\ n = c.num => c.revoked = Group
    <3>1. /\ c.num_local_entries = Cardinality(Held(c.entries))
          /\ c.num = n \/ c.num = n + 1
          /\ c.num_local_entries = 0 => c.num = n
      BY <2>1, Zenon DEF SpOK, SpCacheInv
    <3>2. Held(c.entries) # {} => (c.num = n <=> c.revoked = Group)
      BY <2>1, Zenon DEF SpVer, SpCore
    <3>3. Held(c.entries) = {} => Cardinality(Held(c.entries)) = 0
      BY GroupFinite, Zenon
    <3> QED
      BY <3>1, <3>2, <3>3, Zenon
  <2>4. /\ SpDown(c) \in Int /\ Cur(c) \in Nat /\ 2 * Cur(c) - 1 <= SpDown(c)
    BY <2>2, DownRange, Zenon
  <2>5. c.revoked = Group => SpDown(c) = 2 * Cur(c) + 1
    BY Zenon DEF SpDown
  <2>6. 2 * n + 1 <= SpDown(c)
    <3>1. CASE Held(c.entries) = {}
      <4>1. Cur(c) = c.num + 1 /\ n = c.num
        BY <2>3, <3>1, ZenonT(30) DEF Cur
      <4> HIDE DEF n
      <4> QED
        BY <4>1, <2>2, <2>4, SMTT(30)
    <3>2. CASE Held(c.entries) # {}
      <4>1. /\ Cur(c) = c.num
            /\ (n = c.num /\ SpDown(c) = 2 * Cur(c) + 1) \/ n + 1 = c.num
        BY <2>3, <2>5, <3>2, Zenon DEF Cur
      <4> HIDE DEF n
      <4> QED
        BY <4>1, <2>2, <2>4, SMTT(30)
    <3> QED
      BY <3>1, <3>2, Zenon
  <2> HIDE DEF n
  <2>7. n \in Int /\ 2 * n + 1 \in Int /\ 2 * n + 1 >= 2 * n + 1
    BY <2>2
  <2>8. host[s].frees >= n
    BY <2>6, <2>7, SpsFollow, ZenonT(30) DEF c
  <2> QED
    BY <2>8, Zenon DEF n, c
<1> QED
  BY <1>1, <1>2, Zenon DEF RevokeIsGlobal

-----------------------------------------------------------------------------
(* The barrier that the ranks of the group go through *)

\* The state of the barrier that caches hs of the ranks stand for.
SeenBy(h)    == IF h.num_local_entries \in {0, GroupSize} THEN h.num ELSE h.num - 1
RevokedBy(h) == IF h.num_local_entries = 0 THEN h.num ELSE h.num - 1
Creates(hs)  == [r \in Group |-> hs[r].creates]
Frees(hs)    == [r \in Group |-> hs[r].frees]
Seen(hs)     == [r \in Group |-> SeenBy(hs[r])]
RevokedAt(hs) == [r \in Group |-> RevokedBy(hs[r])]

\* The barrier's counters, by what the cache of a rank holds.
LEMMA BarrierState ==
  ASSUME GroupSets, TwoSps, NEW r \in Group, NEW h, HostOK(h)
  PROVE  /\ Held(h.entries) = {} => SeenBy(h) = h.num /\ RevokedBy(h) = h.num
         /\ Held(h.entries) = {r} => SeenBy(h) = h.num - 1 /\ RevokedBy(h) = h.num - 1
         /\ Held(h.entries) = Group => SeenBy(h) = h.num /\ RevokedBy(h) = h.num - 1
<1> DEFINE S == Held(h.entries)
<1>1. h.num_local_entries = Cardinality(S)
  BY HostDomain, Zenon
<1>2. S \in SUBSET Group /\ {r} # Group /\ {r} # {} /\ Group # {}
  BY NotAlone, Zenon DEF Held
<1>3. /\ Cardinality(S) = 0 <=> S = {}
      /\ Cardinality(S) = GroupSize <=> S = Group
  BY <1>2, GroupFinite, Zenon
<1> HIDE DEF S
<1>4. S = {} => h.num_local_entries = 0
  BY <1>1, <1>3, Zenon
<1>5. S = {r} => h.num_local_entries # 0 /\ h.num_local_entries # GroupSize
  BY <1>1, <1>2, <1>3, ZenonT(30)
<1>6. S = Group => h.num_local_entries # 0 /\ h.num_local_entries = GroupSize
  BY <1>1, <1>2, <1>3, Zenon
<1> QED
  BY <1>4, <1>5, <1>6, Zenon DEF SeenBy, RevokedBy, S

\* One rank moves, and the others stay.
Moves(r, old, new, x, y) ==
  old[r] = x /\ new = [old EXCEPT ![r] = y] /\ (x = y => new = old)

\* A step of one rank moves that rank's counters only.
LEMMA OneMoves ==
  ASSUME NEW hs, NEW gs, NEW r \in Group, \A s \in Group : s # r => gs[s] = hs[s]
  PROVE  /\ Moves(r, Creates(hs), Creates(gs), hs[r].creates, gs[r].creates)
         /\ Moves(r, Frees(hs), Frees(gs), hs[r].frees, gs[r].frees)
         /\ Moves(r, Seen(hs), Seen(gs), SeenBy(hs[r]), SeenBy(gs[r]))
         /\ Moves(r, RevokedAt(hs), RevokedAt(gs), RevokedBy(hs[r]), RevokedBy(gs[r]))
<1>1. Moves(r, Creates(hs), Creates(gs), hs[r].creates, gs[r].creates)
  BY Zenon DEF Moves, Creates
<1>2. Moves(r, Frees(hs), Frees(gs), hs[r].frees, gs[r].frees)
  BY Zenon DEF Moves, Frees
<1>3. Moves(r, Seen(hs), Seen(gs), SeenBy(hs[r]), SeenBy(gs[r]))
  BY Zenon DEF Moves, Seen
<1>4. Moves(r, RevokedAt(hs), RevokedAt(gs), RevokedBy(hs[r]), RevokedBy(gs[r]))
  BY Zenon DEF Moves, RevokedAt
<1> QED
  BY <1>1, <1>2, <1>3, <1>4, ZenonT(30)

\* The steps of the barrier, in these terms.
LEMMA BarrierSteps ==
  ASSUME NEW r \in Group
  PROVE  /\ Barrier!BCreate(r) <=>
              /\ Creates(host)[r] = Frees(host)[r] /\ Creates(host)[r] < MaxCreates
              /\ Creates(host') = [Creates(host) EXCEPT ![r] = @ + 1]
              /\ Seen(host') = Seen(host) /\ Frees(host') = Frees(host) /\ RevokedAt(host') = RevokedAt(host)
         /\ Barrier!BPopulate(r) <=>
              /\ \A s \in Group : Creates(host)[s] > Seen(host)[r]
              /\ Seen(host)[r] = RevokedAt(host)[r]
              /\ Seen(host') = [Seen(host) EXCEPT ![r] = @ + 1]
              /\ Creates(host') = Creates(host) /\ Frees(host') = Frees(host) /\ RevokedAt(host') = RevokedAt(host)
         /\ Barrier!BFree(r) <=>
              /\ Seen(host)[r] = Creates(host)[r] /\ Frees(host)[r] < Creates(host)[r]
              /\ Frees(host') = [Frees(host) EXCEPT ![r] = @ + 1]
              /\ Creates(host') = Creates(host) /\ Seen(host') = Seen(host) /\ RevokedAt(host') = RevokedAt(host)
         /\ Barrier!BRevoke(r) <=>
              /\ \A s \in Group : Frees(host)[s] > RevokedAt(host)[r]
              /\ RevokedAt(host') = [RevokedAt(host) EXCEPT ![r] = @ + 1]
              /\ Creates(host') = Creates(host) /\ Seen(host') = Seen(host) /\ Frees(host') = Frees(host)
BY Zenon DEF Barrier!BCreate, Barrier!BPopulate, Barrier!BFree, Barrier!BRevoke,
   Creates, Frees, Seen, RevokedAt, SeenBy, RevokedBy

\* What a step of the process of a rank of the group does to the barrier.
LEMMA RankMoves ==
  ASSUME IInv, IInv', NEW r \in Group, NEW g, NEW up, NEW down, HostStep(r, g, up, down)
  PROVE  /\ HostOK(host[r]) /\ HostOK(g)
         /\ Moves(r, Creates(host), Creates(host'), host[r].creates, g.creates)
         /\ Moves(r, Frees(host), Frees(host'), host[r].frees, g.frees)
         /\ Moves(r, Seen(host), Seen(host'), SeenBy(host[r]), SeenBy(g))
         /\ Moves(r, RevokedAt(host), RevokedAt(host'), RevokedBy(host[r]), RevokedBy(g))
<1>1. \A s \in Group : s \in Rank
  BY TopologyAssumption, Zenon DEF TopologyAssumption
<1>2. host'[r] = g /\ \A s \in Group : s # r => host'[s] = host[s]
  BY <1>1, Zenon DEF HostStep
<1>3. HostOK(host[r]) /\ HostOK(host'[r])
  BY <1>1, Zenon DEF IInv, HostPart
<1> QED
  BY <1>2, <1>3, OneMoves, Zenon

\* Creating a group is the step BCreate of the barrier.
LEMMA CreateBarrier ==
  ASSUME GroupSets, TwoSps, IInv, IInv', VInv, NEW r \in Rank, Create(r)
  PROVE  r \in Group /\ Barrier!BCreate(r)
<1> DEFINE h == host[r]
<1>1. PICK g : /\ r \in Group /\ (CreatedNow(r, h, g) \/ CreatedLater(h, g))
               /\ \E up, down : HostStep(r, g, up, down)
  BY CreateCases, Zenon
<1>2. h.creates = h.frees /\ h.creates < MaxCreates
  BY Zenon DEF Create
<1>3. /\ HostOK(h) /\ HostOK(g)
      /\ Moves(r, Creates(host), Creates(host'), h.creates, g.creates)
      /\ Moves(r, Frees(host), Frees(host'), h.frees, g.frees)
      /\ Moves(r, Seen(host), Seen(host'), SeenBy(h), SeenBy(g))
      /\ Moves(r, RevokedAt(host), RevokedAt(host'), RevokedBy(h), RevokedBy(g))
  BY <1>1, RankMoves, Zenon
<1> HIDE DEF h
<1>4. g.creates = h.creates + 1 /\ g.frees = h.frees /\ SeenBy(g) = SeenBy(h) /\ RevokedBy(g) = RevokedBy(h)
  <2>1. CASE CreatedNow(r, h, g)
    <3>1. /\ Held(h.entries) = {} /\ Held(g.entries) = {r} /\ g.num = h.num + 1
          /\ g.creates = h.creates + 1 /\ g.frees = h.frees
      BY <2>1, Zenon DEF CreatedNow, Joined
    <3>2. SeenBy(h) = h.num /\ RevokedBy(h) = h.num /\ SeenBy(g) = g.num - 1 /\ RevokedBy(g) = g.num - 1
      BY <3>1, <1>1, <1>3, BarrierState, ZenonT(30)
    <3>3. h.num \in Nat
      BY <1>3, HostDomain, Zenon
    <3>4. g.num - 1 = h.num
      BY <3>1, <3>3, SMTT(30)
    <3> QED
      BY <3>1, <3>2, <3>4, Zenon
  <2>2. CASE CreatedLater(h, g)
    <3>1. /\ g.num = h.num /\ g.num_local_entries = h.num_local_entries
          /\ g.creates = h.creates + 1 /\ g.frees = h.frees
      BY <2>2, Zenon DEF CreatedLater, HostFields, CommonFields
    <3> QED
      BY <3>1, Zenon DEF SeenBy, RevokedBy
  <2> QED
    BY <2>1, <2>2, <1>1, Zenon
<1>5. /\ Creates(host)[r] = h.creates /\ Frees(host)[r] = h.frees
      /\ Creates(host') = [Creates(host) EXCEPT ![r] = h.creates + 1]
      /\ Seen(host') = Seen(host) /\ Frees(host') = Frees(host) /\ RevokedAt(host') = RevokedAt(host)
  BY <1>3, <1>4, Zenon DEF Moves
<1>6. Creates(host') = [Creates(host) EXCEPT ![r] = @ + 1]
  BY <1>5, Zenon
<1> QED
  BY <1>1, <1>2, <1>5, <1>6, BarrierSteps, ZenonT(30)

\* Freeing a group is the step BFree of the barrier.
LEMMA FreeBarrier ==
  ASSUME GroupSets, TwoSps, ~Persistent, ~EagerFree, IInv, IInv', VInv, NEW r \in Rank, Free(r)
  PROVE  r \in Group /\ Barrier!BFree(r)
<1> DEFINE h == host[r]
<1>1. PICK g : r \in Group /\ Freed(h, g) /\ \E up, down : HostStep(r, g, up, down)
  BY FreeCases, Zenon
<1>2. HostVer(r, h)
  BY <1>1, Zenon DEF VInv, RankVer
<1>3. /\ HostOK(h) /\ HostOK(g)
      /\ Moves(r, Creates(host), Creates(host'), h.creates, g.creates)
      /\ Moves(r, Frees(host), Frees(host'), h.frees, g.frees)
      /\ Moves(r, Seen(host), Seen(host'), SeenBy(h), SeenBy(g))
      /\ Moves(r, RevokedAt(host), RevokedAt(host'), RevokedBy(h), RevokedBy(g))
  BY <1>1, RankMoves, Zenon
<1> HIDE DEF h
<1>4. /\ Held(h.entries) = Group /\ h.global = 0 /\ h.pending_send_adds = 0 /\ g.frees = h.frees + 1
      /\ g.num = h.num /\ g.num_local_entries = h.num_local_entries /\ g.creates = h.creates
  BY <1>1, Zenon DEF Freed, HostFields, CommonFields
<1>5. h.frees = h.num - 1 /\ h.creates = h.num + 0
  BY <1>1, <1>2, <1>4, Zenon DEF HostVer
<1>6. SeenBy(h) = h.num
  BY <1>1, <1>3, <1>4, BarrierState, ZenonT(30)
<1>7. h.num \in Nat
  BY <1>3, HostDomain, Zenon
<1>8. SeenBy(h) = h.creates /\ h.frees < h.creates
  <2>1. h.num = h.num + 0 /\ h.num - 1 < h.num + 0
    BY <1>7
  <2> QED
    BY <2>1, <1>5, <1>6, ZenonT(30)
<1>9. SeenBy(g) = SeenBy(h) /\ RevokedBy(g) = RevokedBy(h)
  BY <1>4, Zenon DEF SeenBy, RevokedBy
<1>10. /\ Creates(host)[r] = h.creates /\ Frees(host)[r] = h.frees /\ Seen(host)[r] = SeenBy(h)
       /\ Frees(host') = [Frees(host) EXCEPT ![r] = h.frees + 1]
       /\ Seen(host') = Seen(host) /\ Creates(host') = Creates(host) /\ RevokedAt(host') = RevokedAt(host)
  BY <1>3, <1>4, <1>9, ZenonT(30) DEF Moves
<1>11. Frees(host') = [Frees(host) EXCEPT ![r] = @ + 1]
  BY <1>10, Zenon
<1> QED
  BY <1>1, <1>8, <1>10, <1>11, BarrierSteps, ZenonT(30)

\* What a rank receives from its SP is not ahead of what the SP is at.
LEMMA MessageFollows ==
  ASSUME TwoSps, IInv, VInv, NEW r \in Rank, toRank[r] # <<>>, NEW n \in Nat
  PROVE  /\ Key(Head(toRank[r])) = 2 * n => \A s \in Group : host[s].creates >= n
         /\ Key(Head(toRank[r])) = 2 * n + 1 => \A s \in Group : host[s].frees >= n
<1> DEFINE x == toRank[r]
           p == spOf[r]
<1>1. p \in SP
  BY TopologyAssumption, Zenon DEF TopologyAssumption
<1>2. x \in Seq(HostMsgs) /\ x # <<>> /\ ToOK(x, sp[p])
  BY Zenon DEF IInv, ToPart, VInv, ToVer
<1> HIDE DEF x, p
<1>3. 1 \in DOMAIN x /\ x[1] = Head(x)
  BY <1>2
<1>4. Key(Head(x)) <= SpDown(sp[p])
  BY <1>2, <1>3, Zenon DEF ToOK
<1>5. n \in Int /\ 2 * n \in Int /\ 2 * n + 1 \in Int /\ 2 * n >= 2 * n /\ 2 * n + 1 >= 2 * n + 1
  OBVIOUS
<1>6. ASSUME Key(Head(x)) = 2 * n, NEW s \in Group PROVE host[s].creates >= n
  BY <1>1, <1>4, <1>5, <1>6, SpsFollow, ZenonT(30)
<1>7. ASSUME Key(Head(x)) = 2 * n + 1, NEW s \in Group PROVE host[s].frees >= n
  BY <1>1, <1>4, <1>5, <1>7, SpsFollow, ZenonT(30)
<1> QED
  BY <1>6, <1>7, Zenon DEF x

\* Receiving the cache is the step BPopulate: every rank has created the group.
LEMMA RecvCacheBarrier ==
  ASSUME GroupSets, TwoSps, IInv, IInv', VInv, NEW r \in Group, RecvCache(r)
  PROVE  Barrier!BPopulate(r)
<1> DEFINE h == host[r]
<1>1. r \in Rank /\ toRank[r] # <<>>
  BY TopologyAssumption, Zenon DEF TopologyAssumption, RecvCache
<1>2. PICK g : /\ Filled(r, h, g) /\ Key(Head(toRank[r])) = 2 * h.num
               /\ \E up, down : HostStep(r, g, up, down)
  BY <1>1, RecvCacheCases, Zenon
<1>3. /\ HostOK(h) /\ HostOK(g)
      /\ Moves(r, Creates(host), Creates(host'), h.creates, g.creates)
      /\ Moves(r, Frees(host), Frees(host'), h.frees, g.frees)
      /\ Moves(r, Seen(host), Seen(host'), SeenBy(h), SeenBy(g))
      /\ Moves(r, RevokedAt(host), RevokedAt(host'), RevokedBy(h), RevokedBy(g))
  BY <1>2, RankMoves, Zenon
<1>4. h.num \in Nat
  BY <1>3, HostDomain, Zenon
<1>5. \A s \in Group : host[s].creates >= h.num
  BY <1>1, <1>2, <1>4, MessageFollows, ZenonT(30)
<1> HIDE DEF h
<1>6. /\ Held(h.entries) = {r} /\ Held(g.entries) = Group /\ g.num = h.num
      /\ g.creates = h.creates /\ g.frees = h.frees
  BY <1>2, Zenon DEF Filled, HostFields, CommonFields
<1>7. SeenBy(h) = h.num - 1 /\ RevokedBy(h) = h.num - 1 /\ SeenBy(g) = h.num /\ RevokedBy(g) = h.num - 1
  BY <1>3, <1>6, BarrierState, ZenonT(30)
<1>8. ASSUME NEW s \in Group PROVE Creates(host)[s] > Seen(host)[r]
  <2>1. Creates(host)[s] = host[s].creates /\ Seen(host)[r] = h.num - 1 /\ host[s].creates >= h.num
    BY <1>3, <1>5, <1>7, ZenonT(30) DEF Creates, Moves
  <2>2. host[s].creates \in Nat
    <3>1. HostOK(host[s])
      BY TopologyAssumption, Zenon DEF TopologyAssumption, IInv, HostPart
    <3> QED
      BY <3>1, HostDomain, Zenon
  <2> QED
    BY <2>1, <2>2, <1>4, SMTT(30)
<1>9. (h.num - 1) + 1 = h.num
  BY <1>4
<1>10. /\ Seen(host)[r] = h.num - 1 /\ Seen(host)[r] = RevokedAt(host)[r]
       /\ Seen(host') = [Seen(host) EXCEPT ![r] = h.num]
       /\ Creates(host') = Creates(host) /\ Frees(host') = Frees(host) /\ RevokedAt(host') = RevokedAt(host)
  BY <1>3, <1>6, <1>7, ZenonT(30) DEF Moves
<1>11. Seen(host') = [Seen(host) EXCEPT ![r] = @ + 1]
  BY <1>9, <1>10, Zenon
<1> QED
  BY <1>8, <1>10, <1>11, BarrierSteps, ZenonT(30)

\* Receiving the final revoke is the step BRevoke: every rank has freed the group.
LEMMA RecvFinalRevokeBarrier ==
  ASSUME GroupSets, TwoSps, IInv, IInv', VInv, NEW r \in Group, RecvFinalRevoke(r)
  PROVE  Barrier!BRevoke(r)
<1> DEFINE h == host[r]
<1>1. r \in Rank /\ toRank[r] # <<>>
  BY TopologyAssumption, Zenon DEF TopologyAssumption, RecvFinalRevoke
<1>2. PICK g : /\ RevokedOnly(h, g) \/ RevokedAndJoined(r, h, g)
               /\ Key(Head(toRank[r])) = 2 * h.num + 1
               /\ \E up, down : HostStep(r, g, up, down)
  BY <1>1, RecvFinalRevokeCases, Zenon
<1>3. /\ HostOK(h) /\ HostOK(g)
      /\ Moves(r, Creates(host), Creates(host'), h.creates, g.creates)
      /\ Moves(r, Frees(host), Frees(host'), h.frees, g.frees)
      /\ Moves(r, Seen(host), Seen(host'), SeenBy(h), SeenBy(g))
      /\ Moves(r, RevokedAt(host), RevokedAt(host'), RevokedBy(h), RevokedBy(g))
  BY <1>2, RankMoves, Zenon
<1>4. h.num \in Nat
  BY <1>3, HostDomain, Zenon
<1>5. \A s \in Group : host[s].frees >= h.num
  BY <1>1, <1>2, <1>4, MessageFollows, ZenonT(30)
<1> HIDE DEF h
<1>6. /\ Held(h.entries) = Group /\ g.creates = h.creates /\ g.frees = h.frees
      /\ \/ Held(g.entries) = {} /\ g.num = h.num
         \/ Held(g.entries) = {r} /\ g.num = h.num + 1
  BY <1>2, Zenon DEF RevokedOnly, RevokedAndJoined, Emptied, HostFields, CommonFields
<1>7. SeenBy(h) = h.num /\ RevokedBy(h) = h.num - 1
  BY <1>3, <1>6, BarrierState, ZenonT(30)
<1>8. SeenBy(g) = h.num /\ RevokedBy(g) = h.num
  <2>1. (h.num + 1) - 1 = h.num
    BY <1>4, SMTT(30)
  <2> QED
    BY <2>1, <1>3, <1>6, BarrierState, ZenonT(30)
<1>9. ASSUME NEW s \in Group PROVE Frees(host)[s] > RevokedAt(host)[r]
  <2>1. Frees(host)[s] = host[s].frees /\ RevokedAt(host)[r] = h.num - 1 /\ host[s].frees >= h.num
    BY <1>3, <1>5, <1>7, ZenonT(30) DEF Frees, Moves
  <2>2. host[s].frees \in Nat
    <3>1. HostOK(host[s])
      BY TopologyAssumption, Zenon DEF TopologyAssumption, IInv, HostPart
    <3> QED
      BY <3>1, HostDomain, ZenonT(30)
  <2> QED
    BY <2>1, <2>2, <1>4, SMTT(30)
<1>10. (h.num - 1) + 1 = h.num
  BY <1>4, SMTT(30)
<1>11. /\ RevokedAt(host)[r] = h.num - 1
       /\ RevokedAt(host') = [RevokedAt(host) EXCEPT ![r] = h.num]
       /\ Creates(host') = Creates(host) /\ Frees(host') = Frees(host) /\ Seen(host') = Seen(host)
  BY <1>3, <1>6, <1>7, <1>8, ZenonT(30) DEF Moves
<1>12. RevokedAt(host') = [RevokedAt(host) EXCEPT ![r] = @ + 1]
  BY <1>10, <1>11, Zenon
<1> QED
  BY <1>9, <1>11, <1>12, BarrierSteps, ZenonT(30)

\* Steps of SPs, and of processes whose rank is not in the group.
LEMMA BarrierStutters ==
  ASSUME \A s \in Group : host'[s] = host[s]
  PROVE  UNCHANGED Barrier!bvars
<1>1. /\ Creates(host') = Creates(host) /\ Frees(host') = Frees(host)
      /\ Seen(host') = Seen(host) /\ RevokedAt(host') = RevokedAt(host)
  BY Zenon DEF Creates, Frees, Seen, RevokedAt
<1> QED
  BY <1>1, Zenon DEF Barrier!bvars, Creates, Frees, Seen, RevokedAt, SeenBy, RevokedBy

\* The barrier starts as the group does.
LEMMA InitBarrier ==
  ASSUME Init
  PROVE  Barrier!BInit
<1>1. ASSUME NEW r \in Group
      PROVE  host[r].creates = 0 /\ host[r].frees = 0 /\ host[r].num = 0 /\ host[r].num_local_entries = 0
  <2> DEFINE h == host[r]
  <2>1. h = NewHostCache
    BY TopologyAssumption, Zenon DEF TopologyAssumption, Init
  <2> HIDE DEF h
  <2>2. h.creates = 0 /\ h.frees = 0 /\ h.num = 0 /\ h.num_local_entries = 0
    BY <2>1, Zenon DEF NewHostCache
  <2> QED
    BY <2>2, Zenon DEF h
<1> QED
  BY <1>1, Zenon DEF Barrier!BInit

\* Every step of the group cache is one of the barrier, or none.
LEMMA NextBarrier ==
  ASSUME GroupSets, TwoSps, ~Persistent, ~EagerFree, IInv, IInv', VInv, [Next]_vars
  PROVE  [Barrier!BNext]_(Barrier!bvars)
<1> DEFINE B == Barrier!BNext \/ UNCHANGED Barrier!bvars
<1>1. ASSUME NEW r \in Rank, Create(r) \/ Free(r)
      PROVE  B
  BY <1>1, CreateBarrier, FreeBarrier, ZenonT(30) DEF Barrier!BNext
<1>2. ASSUME NEW r \in Rank, RecvCache(r)
      PROVE  B
  <2>1. CASE r \in Group
    BY <1>2, <2>1, RecvCacheBarrier, ZenonT(30) DEF Barrier!BNext
  <2>2. CASE r \notin Group
    <3>1. \E g : HostStep(r, g, fromRank[r], Tail(toRank[r]))
      BY <1>2, RecvCacheCases, Zenon
    <3>2. \A s \in Group : host'[s] = host[s]
      BY <2>2, <3>1, TopologyAssumption, ZenonT(30) DEF HostStep, TopologyAssumption
    <3> QED
      BY <3>2, BarrierStutters, Zenon
  <2> QED
    BY <2>1, <2>2, Zenon
<1>3. ASSUME NEW r \in Rank, RecvFinalRevoke(r)
      PROVE  B
  <2>1. CASE r \in Group
    BY <1>3, <2>1, RecvFinalRevokeBarrier, ZenonT(30) DEF Barrier!BNext
  <2>2. CASE r \notin Group
    <3>1. \E g : HostStep(r, g, fromRank[r], Tail(toRank[r]))
      BY <1>3, <2>2, RecvFinalRevokeCases, ZenonT(30)
    <3>2. \A s \in Group : host'[s] = host[s]
      BY <2>2, <3>1, TopologyAssumption, ZenonT(30) DEF HostStep, TopologyAssumption
    <3> QED
      BY <3>2, BarrierStutters, ZenonT(30)
  <2> QED
    BY <2>1, <2>2, Zenon
<1>4. ASSUME host' = host
      PROVE  B
  BY <1>4, BarrierStutters, Zenon
<1>5. ASSUME NEW r \in Rank, RecvAdd(r) \/ RecvRankRevoke(r)
      PROVE  B
  BY <1>4, <1>5, ZenonT(30) DEF RecvAdd, RecvRankRevoke
<1>6. ASSUME NEW p \in SP, NEW q \in SP, RecvPeerEntries(p, q) \/ RecvSpRevoke(p, q)
      PROVE  B
  BY <1>4, <1>6, Zenon DEF RecvPeerEntries, RecvSpRevoke
<1>7. ASSUME NEW p \in SP, NEW i \in DOMAIN sp[p].ongoing, MetaEventCompleted(p, i)
      PROVE  B
  BY <1>4, <1>7, Zenon DEF MetaEventCompleted
<1>8. ASSUME UNCHANGED vars
      PROVE  B
  BY <1>4, <1>8, ZenonT(30) DEF vars
<1> HIDE DEF B
<1>9. B
  BY <1>1, <1>2, <1>3, <1>5, <1>6, <1>7, <1>8, ZenonT(30) DEF Next, Library, Application, Idle
<1> QED
  BY <1>9, Zenon DEF B

-----------------------------------------------------------------------------
(* The clients of an SP that are not in the group *)

\* The position of an SP in the streams to its ranks is never past the one that
\* the rank waits for.
LEMMA MembersWaitHolds ==
  ASSUME TwoSps, IInv, VInv
  PROVE  MembersWait
<1> SUFFICES ASSUME NEW r \in Group PROVE Waits(r)
  BY Zenon DEF MembersWait
<1> DEFINE h == host[r]
           c == sp[spOf[r]]
           x == toRank[r]
<1>1. RankOf(r, c, h, fromRank[r], x) /\ spOf[r] \in SP
  BY RankState, TopologyAssumption, Zenon DEF TopologyAssumption
<1>2. /\ Cur(h) \in Nat /\ HostFrom(h) \in Nat /\ 2 * Cur(h) <= HostFrom(h)
      /\ HostUp(h) <= 2 * Cur(h) + 1 /\ HostUp(h) \in Int
      /\ HostUp(h) >= 2 * Cur(h) + 1 => HostFrom(h) = 2 * Cur(h) + 1
  BY <1>1, RankBounds, ZenonT(30)
<1>3. SpDown(c) <= HostUp(h) /\ SpDown(c) \in Int
  BY <1>1, RanksAhead, Zenon
<1>4. x \in Seq(HostMsgs) /\ Stream(x, HostFrom(h), SpDown(c))
  BY <1>1, Zenon DEF RankOf, ToRankOK
<1> HIDE DEF h, c, x
<1>5. SpDown(c) <= HostFrom(h)
  BY <1>2, <1>3, SMTT(30)
<1>6. /\ \A i \in DOMAIN x : Key(x[i]) \in Nat /\ HostFrom(h) <= Key(x[i]) /\ Key(x[i]) <= SpDown(c)
      /\ \A i, j \in DOMAIN x : i < j => Key(x[i]) < Key(x[j])
  BY <1>4, Zenon DEF Stream
<1>7. \A k \in Nat : HostFrom(h) <= k /\ k <= SpDown(c) => k = HostFrom(h)
  BY <1>2, <1>3, <1>5, SMTT(30)
<1>8. \A i \in DOMAIN x : Key(x[i]) = HostFrom(h)
  BY <1>6, <1>7, ZenonT(30)
<1>9. ~(HostFrom(h) < HostFrom(h))
  BY <1>2, SMTT(30)
<1>10. \A i, j \in DOMAIN x : ~(i < j)
  BY <1>6, <1>8, <1>9, ZenonT(30)
<1>11. Len(x) \in {0, 1}
  <2>1. x \in Seq(HostMsgs)
    BY <1>4, Zenon
  <2>2. Len(x) \in Nat /\ DOMAIN x = 1 .. Len(x)
    BY <2>1, SMTT(30)
  <2>3. 1 < 2
    OBVIOUS
  <2>4. ~(1 \in DOMAIN x /\ 2 \in DOMAIN x)
    BY <2>3, <1>10, ZenonT(30)
  <2> QED
    BY <2>2, <2>4, SMTT(30)
<1> QED
  BY <1>2, <1>8, <1>11, ZenonT(30) DEF Waits, h, x

\* A channel with every key, after a message with the next key.
LEMMA ConsecutiveAppend ==
  ASSUME NEW S, NEW x \in Seq(S), NEW y \in Seq(S), Len(y) = 1, NEW n \in Nat, Consecutive(x, n),
         Key(y[1]) = n + Len(x)
  PROVE  Consecutive(x \o y, n) /\ Len(x \o y) = Len(x) + 1
<1>1. /\ Len(x \o y) = Len(x) + 1 /\ Len(x) \in Nat
      /\ \A i \in 1 .. Len(x) + 1 : (x \o y)[i] = IF i <= Len(x) THEN x[i] ELSE y[i - Len(x)]
      /\ x \o y \in Seq(S)
  <2>1. /\ x \o y \in Seq(S) /\ Len(x \o y) = Len(x) + Len(y)
        /\ \A i \in 1 .. Len(x) + Len(y) : (x \o y)[i] = IF i <= Len(x) THEN x[i] ELSE y[i - Len(x)]
    BY ConcatProperties, SMTT(30)
  <2>2. Len(x) \in Nat
    OBVIOUS
  <2> QED
    BY <2>1, <2>2, ZenonT(30)
<1> DEFINE z == x \o y
<1>2. DOMAIN z = 1 .. Len(x) + 1 /\ DOMAIN x = 1 .. Len(x)
  BY <1>1
<1> HIDE DEF z
<1>3. ASSUME NEW i \in DOMAIN z PROVE Key(z[i]) = n + (i - 1)
  <2>1. i \in 1 .. Len(x) + 1 /\ (i <= Len(x) \/ i = Len(x) + 1) /\ ~(Len(x) + 1 <= Len(x))
        /\ (Len(x) + 1) - Len(x) = 1 /\ n + ((Len(x) + 1) - 1) = n + Len(x)
    BY <1>1, <1>2, <1>3, SMTT(30)
  <2>2. CASE i <= Len(x)
    <3>1. i \in DOMAIN x
      BY <2>1, <2>2, <1>2, SMTT(30)
    <3>2. z[i] = x[i]
      BY <2>1, <2>2, <1>1, ZenonT(30) DEF z
    <3> QED
      BY <3>1, <3>2, ZenonT(30) DEF Consecutive
  <2>3. CASE i = Len(x) + 1
    <3>1. z[i] = y[1]
      BY <2>1, <2>3, <1>1, ZenonT(30) DEF z
    <3> QED
      BY <3>1, <2>1, <2>3, ZenonT(30)
  <2> QED
    BY <2>1, <2>2, <2>3, Zenon
<1> QED
  BY <1>1, <1>3, ZenonT(30) DEF Consecutive, z

\* What was sent on a channel that holds one message then.
LEMMA OneOfConcat ==
  ASSUME NEW S, NEW x \in Seq(S), NEW y \in Seq(S), y # <<>>, Len(x \o y) \in {0, 1}
  PROVE  Len(x) = 0 /\ Len(y) = 1 /\ 1 \in DOMAIN (x \o y) /\ (x \o y)[1] = y[1] /\ Len(x \o y) = 1
<1>1. /\ x \o y \in Seq(S) /\ Len(x \o y) = Len(x) + Len(y)
      /\ \A i \in 1 .. Len(x) + Len(y) : (x \o y)[i] = IF i <= Len(x) THEN x[i] ELSE y[i - Len(x)]
  BY ConcatProperties, Zenon
<1>2. Len(x) \in Nat /\ Len(y) \in Nat /\ Len(y) # 0
  OBVIOUS
<1>3. Len(x) = 0 /\ Len(y) = 1 /\ Len(x \o y) = 1
  <2>1. Len(x) + Len(y) \in {0, 1}
    BY <1>1, Zenon
  <2>2. \A a, b \in Nat : b # 0 /\ a + b \in {0, 1} => a = 0 /\ b = 1
    OBVIOUS
  <2>3. Len(x) = 0 /\ Len(y) = 1
    BY <2>1, <2>2, <1>2, ZenonT(30)
  <2>4. 0 + 1 = 1
    OBVIOUS
  <2> QED
    BY <2>3, <2>4, <1>1, ZenonT(30)
<1>4. 1 \in 1 .. Len(x) + Len(y) /\ ~(1 <= Len(x)) /\ 1 - Len(x) = 1
  BY <1>3
<1>5. (x \o y)[1] = y[1]
  <2>1. (x \o y)[1] = IF 1 <= Len(x) THEN x[1] ELSE y[1 - Len(x)]
    BY <1>1, <1>4, Zenon
  <2> QED
    BY <2>1, <1>4, Zenon
<1>6. 1 \in DOMAIN (x \o y)
  <2>1. DOMAIN (x \o y) = 1 .. Len(x \o y)
    BY <1>1, SMTT(30)
  <2> QED
    BY <2>1, <1>3, SMTT(30)
<1> QED
  BY <1>3, <1>5, <1>6, ZenonT(30)

\* A channel with every key, without its first message.
LEMMA ConsecutiveTail ==
  ASSUME NEW S, NEW x \in Seq(S), x # <<>>, NEW n \in Nat, Consecutive(x, n)
  PROVE  /\ Consecutive(Tail(x), n + 1) /\ Key(Head(x)) = n /\ (n + 1) + Len(Tail(x)) = n + Len(x)
         /\ Tail(x) \in Seq(S)
<1>1. /\ Tail(x) \in Seq(S) /\ Len(Tail(x)) = Len(x) - 1 /\ Len(x) \in Nat /\ Head(x) = x[1] /\ 1 \in DOMAIN x
      /\ \A i \in DOMAIN Tail(x) : i + 1 \in DOMAIN x /\ Tail(x)[i] = x[i + 1] /\ i \in Nat
  OBVIOUS
<1>2. n + (1 - 1) = n /\ \A i \in Nat : n + ((i + 1) - 1) = (n + 1) + (i - 1)
  OBVIOUS
<1>3. Key(Head(x)) = n
  BY <1>1, <1>2, ZenonT(30) DEF Consecutive
<1>4. (n + 1) + Len(Tail(x)) = n + Len(x)
  BY <1>1
<1>5. \A i \in DOMAIN Tail(x) : Key(Tail(x)[i]) = n + ((i + 1) - 1)
  BY <1>1, Zenon DEF Consecutive
<1>6. Consecutive(Tail(x), n + 1)
  BY <1>1, <1>2, <1>5, ZenonT(30) DEF Consecutive
<1> QED
  BY <1>1, <1>3, <1>4, <1>6, ZenonT(30)

\* A step of an SP.  A message that it sends to its clients is the one that its
\* ranks of the group wait for, so that it is the next one for the other clients.
LEMMA SpActsOutside ==
  ASSUME TwoSps, IInv, OInv, MembersWait, MembersWait', SpActs
  PROVE  OInv'
<1>1. PICK p \in SP : \E d : SpOK(p, d) /\ Commit(p, d) /\ UNCHANGED host
  BY Zenon DEF SpActs
<1>0. PICK d : SpOK(p, d) /\ Commit(p, d) /\ UNCHANGED host
  BY <1>1, Zenon
<1> DEFINE y == d.toHosts
<1>2. y \in Seq(HostMsgs)
  BY <1>0, Zenon DEF SpOK, SpCaches
<1>3. /\ host' = host
      /\ \A r \in Rank : toRank'[r] = IF spOf[r] = p THEN toRank[r] \o y ELSE toRank[r]
  BY <1>0, Zenon DEF Commit, Clients
<1>4. \A r \in Rank : toRank[r] \in Seq(HostMsgs)
  BY Zenon DEF IInv, ToPart
<1>5. \A p1 \in SP : \A s \in SpRanks(p1) : s \in Group /\ s \in Rank /\ spOf[s] = p1
  BY TopologyAssumption, Zenon DEF TopologyAssumption, SpRanks
<1>6. \A r \in Rank : spOf[r] \in SP
  BY TopologyAssumption, Zenon DEF TopologyAssumption
<1> HIDE DEF y
<1>7. CASE y = <<>>
  <2>1. \A x \in Seq(HostMsgs) : x \o <<>> = x
    OBVIOUS
  <2>2. \A r \in Rank : toRank'[r] = toRank[r]
    BY <2>1, <1>3, <1>4, <1>7, ZenonT(30)
  <2> QED
    BY <2>2, <1>3, <1>5, <1>6, ZenonT(30) DEF OInv, OutVer
<1>8. CASE y # <<>>
  <2>1. ASSUME NEW s \in SpRanks(p)
        PROVE  /\ Len(toRank[s]) = 0 /\ Len(y) = 1 /\ Key(y[1]) = HostFrom(host[s])
               /\ Len(toRank'[s]) = 1 /\ HostFrom(host[s]) \in Nat
    <3>1. s \in Group /\ s \in Rank /\ toRank'[s] = toRank[s] \o y /\ toRank[s] \in Seq(HostMsgs)
      BY <1>3, <1>4, <1>5, <2>1, ZenonT(30)
    <3>2. HostFrom(host[s]) \in Nat
      BY <3>1, Zenon DEF MembersWait, Waits
    <3>3. /\ Len(toRank'[s]) \in {0, 1}
          /\ \A i \in DOMAIN toRank'[s] : Key(toRank'[s][i]) = HostFrom(host'[s])
      BY <3>1, Zenon DEF MembersWait, Waits
    <3> DEFINE x == toRank[s]
               z == x \o y
               H == HostFrom(host[s])
    <3>4. Len(z) \in {0, 1} /\ \A i \in DOMAIN z : Key(z[i]) = H
      BY <3>1, <3>3, <1>3, ZenonT(30)
    <3>5. x \in Seq(HostMsgs)
      BY <3>1, Zenon
    <3> HIDE DEF x, H
    <3>6. Len(x) = 0 /\ Len(y) = 1 /\ 1 \in DOMAIN z /\ z[1] = y[1] /\ Len(z) = 1
      BY <3>4, <3>5, <1>2, <1>8, OneOfConcat, ZenonT(30)
    <3>7. Key(y[1]) = H
      BY <3>4, <3>6, Zenon
    <3> QED
      BY <3>1, <3>2, <3>6, <3>7, ZenonT(30) DEF x, H
  <2>2. PICK t \in SpRanks(p) : TRUE
    BY Zenon DEF TwoSps
  <2>3. Len(y) = 1
    BY <2>1, <2>2, Zenon
  <2>4. ASSUME NEW r \in Rank \ Group PROVE OutVer(r)'
    <3> DEFINE x == toRank[r]
               n == OutFrom(host[r])
    <3>1. /\ OutCache(host[r]) /\ Consecutive(x, n) /\ x \in Seq(HostMsgs)
          /\ \A s \in SpRanks(spOf[r]) : n + Len(x) = HostFrom(host[s]) + Len(toRank[s])
      BY <1>4, <2>4, ZenonT(30) DEF OInv, OutVer
    <3>2. n \in Nat
      <4>1. host[r].num \in Nat
        BY <2>4, HostDomain, ZenonT(30) DEF IInv, HostPart
      <4>2. 3 \in Nat /\ \A k \in Nat : 2 * k + 3 \in Nat /\ 2 * k + 2 \in Nat
        OBVIOUS
      <4> QED
        BY <4>1, <4>2, ZenonT(30) DEF OutFrom
    <3>3. CASE spOf[r] # p
      <4>1. toRank'[r] = toRank[r] /\ \A s \in SpRanks(spOf[r]) : toRank'[s] = toRank[s]
        BY <3>3, <1>3, <1>5, <1>6, <2>4, ZenonT(30)
      <4> QED
        BY <4>1, <3>1, <1>3, ZenonT(30) DEF OutVer
    <3>4. CASE spOf[r] = p
      <4>1. toRank'[r] = x \o y
        BY <3>4, <1>3, <2>4, ZenonT(30)
      <4> HIDE DEF x, n
      <4>2. \A s \in SpRanks(p) : n + Len(x) = HostFrom(host[s]) + Len(toRank[s])
        BY <3>1, <3>4, ZenonT(30)
      <4>3. ASSUME NEW s \in SpRanks(p)
            PROVE  /\ n + Len(x) = HostFrom(host[s])
                   /\ n + (Len(x) + 1) = HostFrom(host[s]) + Len(toRank'[s])
        <5>1. /\ Len(toRank[s]) = 0 /\ Len(toRank'[s]) = 1 /\ HostFrom(host[s]) \in Nat
              /\ n + Len(x) = HostFrom(host[s]) + Len(toRank[s])
          BY <4>2, <4>3, <2>1, ZenonT(30)
        <5>2. Len(x) \in Nat
          BY <3>1, SMTT(30)
        <5> QED
          BY <5>1, <5>2, <3>2, SMTT(30)
      <4>4. Key(y[1]) = n + Len(x)
        BY <4>3, <2>1, <2>2, ZenonT(30)
      <4>5. Consecutive(x \o y, n) /\ Len(x \o y) = Len(x) + 1
        BY <4>4, <3>1, <3>2, <1>2, <2>3, ConsecutiveAppend, ZenonT(30)
      <4>6. \A s \in SpRanks(spOf[r]) : n + Len(toRank'[r]) = HostFrom(host[s]) + Len(toRank'[s])
        BY <3>4, <4>1, <4>3, <4>5, ZenonT(30)
      <4> QED
        BY <3>1, <4>1, <4>5, <4>6, <1>3, ZenonT(30) DEF OutVer, n
    <3> QED
      BY <3>3, <3>4, ZenonT(30)
  <2> QED
    BY <2>4, Zenon DEF OInv
<1> QED
  BY <1>7, <1>8, ZenonT(30)

\* A step of a client: it is enough that it takes its messages one after the other.
LEMMA HostStepOutside ==
  ASSUME OInv, NEW r \in Rank, NEW g, NEW up, NEW down, HostStep(r, g, up, down),
         r \in Group => HostFrom(g) + Len(down) = HostFrom(host[r]) + Len(toRank[r]),
         r \notin Group => /\ OutCache(g) /\ Consecutive(down, OutFrom(g))
                           /\ OutFrom(g) + Len(down) = OutFrom(host[r]) + Len(toRank[r])
  PROVE  OInv'
<1>1. /\ host'[r] = g /\ \A s \in Rank : s # r => host'[s] = host[s]
      /\ toRank'[r] = down /\ \A s \in Rank : s # r => toRank'[s] = toRank[s]
  BY Zenon DEF HostStep
<1>2. \A s \in Group : HostFrom(host'[s]) + Len(toRank'[s]) = HostFrom(host[s]) + Len(toRank[s])
  BY <1>1, TopologyAssumption, ZenonT(30) DEF TopologyAssumption
<1>3. ASSUME NEW o \in Rank \ Group
      PROVE  /\ OutCache(host'[o]) /\ Consecutive(toRank'[o], OutFrom(host'[o]))
             /\ OutFrom(host'[o]) + Len(toRank'[o]) = OutFrom(host[o]) + Len(toRank[o])
  <2>1. CASE o = r
    BY <2>1, <1>1, <1>3, ZenonT(30)
  <2>2. CASE o # r
    BY <2>2, <1>1, <1>3, ZenonT(30) DEF OInv, OutVer
  <2> QED
    BY <2>1, <2>2, ZenonT(30)
<1>4. ASSUME NEW o \in Rank \ Group, NEW s \in SpRanks(spOf[o])
      PROVE  OutFrom(host'[o]) + Len(toRank'[o]) = HostFrom(host'[s]) + Len(toRank'[s])
  <2>1. s \in Group
    BY <1>4, Zenon DEF SpRanks
  <2>2. OutFrom(host[o]) + Len(toRank[o]) = HostFrom(host[s]) + Len(toRank[s])
    BY <1>4, Zenon DEF OInv, OutVer
  <2> QED
    BY <2>1, <2>2, <1>2, <1>3, ZenonT(30)
<1> QED
  BY <1>3, <1>4, Zenon DEF OInv, OutVer

\* A rank of the group that takes a message goes on by one.
LEMMA SumKept ==
  ASSUME NEW S, NEW x \in Seq(S), x # <<>>, NEW a \in Nat, NEW b, b = a + 1
  PROVE  b + Len(Tail(x)) = a + Len(x)
OBVIOUS

\* The steps of a rank of the group.
LEMMA MemberOutside ==
  ASSUME GroupSets, TwoSps, ~Persistent, ~EagerFree, IInv, VInv, OInv, NEW r \in Group,
         Create(r) \/ Free(r) \/ RecvCache(r) \/ RecvFinalRevoke(r)
  PROVE  OInv'
<1> DEFINE h == host[r]
           x == toRank[r]
           n == h.num
<1>1. r \in Rank /\ {r} # Group /\ Group # {}
  BY NotAlone, TopologyAssumption, Zenon DEF TopologyAssumption
<1>2. RankOf(r, sp[spOf[r]], h, fromRank[r], x)
  BY RankState, Zenon
<1>3. n \in Nat /\ h.global \in {0, 1} /\ HostVer(r, h) /\ x \in Seq(HostMsgs)
  BY <1>2, RankBounds, Zenon DEF RankOf
<1>4. /\ Held(h.entries) = Group => HostFrom(h) = 2 * n + 1
      /\ Held(h.entries) = {r} => HostFrom(h) = 2 * n
  <2>1. /\ Held(h.entries) = Group => HostFrom(h) = 2 * Cur(h) + 1
        /\ Held(h.entries) # Group => HostFrom(h) = 2 * Cur(h)
    BY <1>3, HostRange, Zenon
  <2>2. Held(h.entries) # {} => Cur(h) = n
    BY Zenon DEF Cur
  <2> QED
    BY <2>1, <2>2, <1>1, ZenonT(30)
<1>5. CASE Create(r)
  <2>1. \/ \E g : CreatedNow(r, h, g) /\ HostStep(r, g, Append(fromRank[r], AddMsg(r, g.num)), x)
        \/ \E g : CreatedLater(h, g) /\ HostStep(r, g, fromRank[r], x)
    BY <1>1, <1>5, CreateCases, ZenonT(30)
  <2>2. ASSUME NEW g, NEW up, CreatedNow(r, h, g) \/ CreatedLater(h, g), HostStep(r, g, up, x)
        PROVE  OInv'
    <3>1. HostFrom(g) = HostFrom(h)
      <4>1. CASE CreatedNow(r, h, g)
        <5>1. Held(h.entries) = {} /\ h.global = 0 /\ Joined(r, h, g)
          BY <4>1, Zenon DEF CreatedNow
        <5>2. HostFrom(h) = 2 * n + 2 /\ HostFrom(g) = 2 * n + 2
          BY <5>1, <1>1, <1>3, JoinedPosition, ZenonT(30)
        <5> QED
          BY <5>2, Zenon
      <4>2. CASE CreatedLater(h, g)
        <5>1. g.num = h.num /\ g.entries = h.entries
          BY <4>2, Zenon DEF CreatedLater, HostFields, CommonFields
        <5> QED
          BY <5>1, Zenon DEF HostFrom, Cur
      <4> QED
        BY <2>2, <4>1, <4>2, ZenonT(30)
    <3> QED
      BY <2>2, <3>1, <1>1, HostStepOutside, ZenonT(30)
  <2> QED
    BY <2>1, <2>2, ZenonT(30)
<1>6. CASE Free(r)
  <2>1. PICK g : Freed(h, g) /\ HostStep(r, g, Append(fromRank[r], RankRevokeMsg(r, h.num)), x)
    BY <1>1, <1>6, FreeCases, ZenonT(30)
  <2>2. g.num = h.num /\ g.entries = h.entries
    BY <2>1, Zenon DEF Freed, HostFields, CommonFields
  <2>3. HostFrom(g) = HostFrom(h)
    BY <2>2, Zenon DEF HostFrom, Cur
  <2> QED
    BY <2>1, <2>3, <1>1, HostStepOutside, ZenonT(30)
<1>7. CASE RecvCache(r)
  <2>1. PICK g : HostStep(r, g, fromRank[r], Tail(x)) /\ Filled(r, h, g)
    BY <1>1, <1>7, RecvCacheCases, ZenonT(30)
  <2>2. x # <<>>
    BY <1>7, Zenon DEF RecvCache
  <2> HIDE DEF h, x
  <2>3. Held(h.entries) = {r} /\ h.global = 0 /\ Held(g.entries) = Group /\ g.num = n /\ g.global = h.global
    BY <2>1, Zenon DEF Filled, HostFields, CommonFields
  <2>4. Cur(g) = n
    BY <2>3, <1>1, Zenon DEF Cur
  <2>5. HostFrom(g) = 2 * n + 1 /\ HostFrom(h) = 2 * n
    BY <2>3, <2>4, <1>3, <1>4, HostRange, ZenonT(30)
  <2>6. 2 * n \in Nat
    BY <1>3
  <2>7. HostFrom(g) + Len(Tail(x)) = HostFrom(h) + Len(x)
    BY <2>2, <2>5, <2>6, <1>3, SumKept, ZenonT(30)
  <2> QED
    BY <2>1, <2>7, <1>1, HostStepOutside, ZenonT(30) DEF h, x
<1>8. CASE RecvFinalRevoke(r)
  <2>1. PICK g : \E up : HostStep(r, g, up, Tail(x)) /\ (RevokedOnly(h, g) \/ RevokedAndJoined(r, h, g))
    BY <1>1, <1>8, RecvFinalRevokeCases, ZenonT(30)
  <2>2. x # <<>>
    BY <1>8, Zenon DEF RecvFinalRevoke
  <2> HIDE DEF h, x
  <2>3. /\ Held(h.entries) = Group /\ g.global = 0
        /\ \/ Held(g.entries) = {} /\ g.num = n
           \/ Held(g.entries) = {r} /\ g.num = n + 1
    BY <2>1, Zenon DEF RevokedOnly, RevokedAndJoined, Emptied, HostFields, CommonFields
  <2>4. Cur(g) = n + 1 /\ Held(g.entries) # Group
    BY <2>3, <1>1, Zenon DEF Cur
  <2>5. g.num \in Nat /\ g.global \in {0, 1}
    <3>1. n + 1 \in Nat
      BY <1>3
    <3> QED
      BY <3>1, <2>3, <1>3, ZenonT(30)
  <2>6. HostFrom(g) = 2 * (n + 1) /\ HostFrom(h) = 2 * n + 1
    BY <2>3, <2>4, <2>5, <1>4, HostRange, ZenonT(30)
  <2>7. 2 * n + 1 \in Nat /\ 2 * (n + 1) = (2 * n + 1) + 1
    BY <1>3
  <2>8. HostFrom(g) + Len(Tail(x)) = HostFrom(h) + Len(x)
    BY <2>2, <2>6, <2>7, <1>3, SumKept, ZenonT(30)
  <2> QED
    BY <2>1, <2>8, <1>1, HostStepOutside, ZenonT(30) DEF h, x
<1> QED
  BY <1>5, <1>6, <1>7, <1>8, ZenonT(30)

\* peer_cache_entries_recv_cb in a client outside the group.
LEMMA OutTakesCache ==
  ASSUME GroupSets, NEW h, HostOK(h), OutCache(h), NEW m \in EntriesMsgs(Group), Held(m.entries) = Group,
         Uniform(m.entries, FirstSeq(m)), Key(m) = OutFrom(h),
         NEW e, e = CheckEntriesSeq(h, m),
         NEW g, g = IF MustQueueEntries(e, m) THEN QueueEntries(e, m) ELSE AddEntries(e, m.entries)
  PROVE  OutCache(g) /\ OutFrom(g) = OutFrom(h) + 1
<1> DEFINE n == h.num
           k == FirstSeq(m)
<1>1. /\ DOMAIN h = HostFields /\ n \in Nat /\ h.num_local_entries = Cardinality(Held(h.entries))
      /\ h.entries \in [Group -> Nat] /\ h \in HostCaches
  BY HostDomain, Zenon DEF HostOK
<1>2. Key(m) = 2 * k /\ k \in Nat /\ m.entries \in EntriesOf(Group)
  BY KeyNat, Zenon DEF EntriesMsgs
<1>3. Group # {}
  BY TopologyAssumption, Zenon DEF TopologyAssumption
<1> HIDE DEF n, k
<1>4. 2 * k # 2 * n + 3 /\ 2 * k # 3 /\ (2 * k = 2 * n + 2 => k = n + 1)
  BY <1>1, <1>2, SMTT(30)
<1>5. h.pending_entries = <<>> /\ ~(n = 1 /\ Held(h.entries) = Group)
  BY <1>2, <1>4, Zenon DEF OutFrom, n
<1>6. OutFrom(h) = 2 * n + 2 /\ k = n + 1
  BY <1>2, <1>4, <1>5, ZenonT(30) DEF OutFrom, n
<1>7. e = h
  <2>1. k >= n
    BY <1>1, <1>6, SMTT(30)
  <2>2. Unless(FirstSeq(m) >= h.num, "entries_seq") = {}
    BY <2>1, Zenon DEF Unless, k, n
  <2>3. h.failed \cup {} = h.failed
    OBVIOUS
  <2>4. e = [h EXCEPT !.failed = h.failed]
    BY <2>2, <2>3, <1>1, ZenonT(30) DEF CheckEntriesSeq, HostFields, CommonFields
  <2> QED
    BY <2>4, <1>1, ZenonT(30) DEF HostCaches
<1>8. /\ Uniform(h.entries, n) /\ h.failed = {} /\ h.global = 0 /\ h.pending_send_adds = 0
      /\ \/ Held(h.entries) = {} /\ n \in {0, 1}
         \/ Held(h.entries) = Group /\ n # 0
  BY Zenon DEF OutCache, n
<1>9. CASE n = 0
  <2>1. Held(h.entries) = {} /\ ~(n > 0) /\ ~(h.global > 0) /\ n + 1 = 1 /\ 2 * n + 2 = 2
    BY <1>8, <1>9, SMTT(30)
  <2>2. ~MustQueueEntries(h, m) /\ Cur(h) = k
    BY <2>1, <1>6, Zenon DEF MustQueueEntries, IsGroupReady, Cur, n
  <2>3. g = AddEntries(h, m.entries)
    BY <2>2, <1>7, Zenon
  <2>4. CacheOK(h)
    <3>1. CommonFields \subseteq DOMAIN h
      BY <1>1, Zenon DEF HostFields
    <3> QED
      BY <3>1, <1>1, <1>8, ZenonT(30) DEF CacheOK, n
  <2>5. Uniform(m.entries, Cur(h))
    BY <2>2, Zenon DEF k
  <2>6. Stored(h, m.entries, Cur(h), g)
    BY <2>3, <2>4, <2>5, <1>2, AddVersion, ZenonT(30)
  <2>7. g.num = 1 /\ Uniform(g.entries, 1)
    BY <2>1, <2>2, <2>6, <1>6, ZenonT(30) DEF Stored
  <2>8. Held(g.entries) = Group
    <3>1. {} \cup Group = Group
      OBVIOUS
    <3> QED
      BY <3>1, <2>1, <2>6, ZenonT(30) DEF Stored
  <2>9. /\ g.failed = h.failed /\ g.global = h.global /\ g.pending_send_adds = h.pending_send_adds
        /\ g.pending_entries = h.pending_entries
    BY <2>6, <1>1, ZenonT(30) DEF Stored, HostFields, CommonFields
  <2>10. 1 # 0 /\ 2 + 1 = 3
    OBVIOUS
  <2>11. OutCache(g)
    BY <2>7, <2>8, <2>9, <2>10, <1>5, <1>8, ZenonT(30) DEF OutCache
  <2>12. OutFrom(g) = 3
    BY <2>7, <2>8, <2>9, <1>5, ZenonT(30) DEF OutFrom
  <2> QED
    BY <2>1, <2>10, <2>11, <2>12, <1>6, ZenonT(30)
<1>10. CASE n # 0
  <2>1. n > 0 /\ n # n + 1
    BY <1>1, <1>10, SMTT(30)
  <2>2. MustQueueEntries(h, m)
    BY <2>1, <1>6, Zenon DEF MustQueueEntries, IsGroupReady, n, k
  <2> DEFINE q == Append(h.pending_entries, m)
  <2>3. g = [h EXCEPT !.pending_entries = q]
    BY <2>2, <1>1, <1>7, ZenonT(30) DEF QueueEntries, HostFields, CommonFields
  <2>4. q # <<>> /\ Len(q) = 1 /\ q[1] = m
    BY <1>5
  <2> HIDE DEF q
  <2>5. g.pending_entries = q /\ \A y \in HostFields \ {"pending_entries"} : g[y] = h[y]
    BY <2>3, <1>1, ZenonT(30) DEF HostFields, CommonFields
  <2>6. /\ g.num = n /\ g.entries = h.entries /\ g.failed = h.failed /\ g.global = h.global
        /\ g.pending_send_adds = h.pending_send_adds
    BY <2>5, Zenon DEF HostFields, CommonFields, n
  <2>7. Held(m.entries) = Group /\ Uniform(m.entries, n + 1)
    BY <1>6, Zenon DEF k
  <2>8. n = 1 => Held(h.entries) = {}
    BY <1>5, <1>8, Zenon
  <2>9. OutCache(g)
    BY <2>4, <2>5, <2>6, <2>7, <2>8, <1>8, <1>10, ZenonT(30) DEF OutCache
  <2>10. OutFrom(g) = 2 * n + 3
    BY <2>4, <2>5, <2>6, ZenonT(30) DEF OutFrom
  <2>11. 2 * n + 3 = (2 * n + 2) + 1
    BY <1>1
  <2> QED
    BY <2>9, <2>10, <2>11, <1>6, ZenonT(30)
<1> QED
  BY <1>9, <1>10, Zenon

\* One message that was put off.
LEMMA OnePending ==
  ASSUME GroupSets, NEW h \in HostCaches, h.pending_entries # <<>>, Len(h.pending_entries) = 1,
         Held(h.pending_entries[1].entries) = Group
  PROVE  PendingEntries(h) = h.pending_entries[1].entries /\ PendingEntries(h) \in EntriesOf(Group)
<1> DEFINE q == h.pending_entries
           f == q[1].entries
           a == [i \in DOMAIN q |-> q[i].entries]
<1>1. PendingEntries(h) \in EntriesOf(Group)
  BY HostPendingOK, Zenon
<1>2. q \in Seq(EntriesMsgs(Group))
  BY Zenon DEF HostCaches
<1>3. DOMAIN q = {1}
  BY <1>2
<1>4. q[1] \in EntriesMsgs(Group)
  BY <1>2, <1>3, SMTT(30)
<1>5. f \in [Group -> Nat]
  BY <1>4, Zenon DEF EntriesMsgs, EntriesOf
<1>6. PendingEntries(h) = Merge(a)
  BY Zenon DEF PendingEntries
<1>7. DOMAIN a = {1} /\ a[1] = f
  BY <1>3, Zenon
<1> HIDE DEF a, f
<1>8. Min({1}) = 1
  <2>1. {1} \in SUBSET Nat /\ {1} # {}
    OBVIOUS
  <2> QED
    BY <2>1, MinIsLeast, Zenon
<1>9. ASSUME NEW r \in Group PROVE Merge(a)[r] = f[r]
  <2>1. f[r] # 0
    BY <1>9, Zenon DEF Held, f
  <2>2. {i \in DOMAIN a : a[i][r] # 0} = {1}
    BY <2>1, <1>7, Zenon
  <2>3. Merge(a)[r] = a[Min({1})][r]
    BY <2>2, <1>9, Zenon DEF Merge
  <2> QED
    BY <2>3, <1>7, <1>8, ZenonT(30)
<1>10. Merge(a) = f
  <2>1. Merge(a) = [r \in Group |-> Merge(a)[r]]
    BY Zenon DEF Merge
  <2>2. f = [r \in Group |-> f[r]]
    BY <1>5, Zenon
  <2>3. [r \in Group |-> Merge(a)[r]] = [r \in Group |-> f[r]]
    BY <1>9, Zenon
  <2> QED
    BY <2>1, <2>2, <2>3, ZenonT(30)
<1> QED
  BY <1>1, <1>6, <1>10, ZenonT(30) DEF f

\* revoke_group_from_sp_recv_cb in a client outside the group.
LEMMA OutTakesRevoke ==
  ASSUME GroupSets, NEW h, HostOK(h), OutCache(h), NEW m \in SpRevokeMsgs, Key(m) = OutFrom(h),
         NEW d, d = RevokeHostCache(h)
  PROVE  OutCache(d) /\ OutFrom(d) = OutFrom(h) + 1
<1> DEFINE n == h.num
           k == m.seq
<1>1. DOMAIN h = HostFields /\ n \in Nat /\ h \in HostCaches
  BY HostDomain, Zenon DEF HostOK
<1>2. k \in Nat /\ Key(m) = 2 * k + 1
  BY DEF SpRevokeMsgs, Key
<1>3. Group # {}
  BY TopologyAssumption, Zenon DEF TopologyAssumption
<1> HIDE DEF n, k
<1>4. 2 * k + 1 # 2 * n + 2
  BY <1>1, <1>2, SMTT(30)
<1>5. h.pending_entries # <<>> \/ (n = 1 /\ Held(h.entries) = Group)
  BY <1>2, <1>4, Zenon DEF OutFrom, n
<1>6. Uniform(h.entries, n) /\ h.failed = {} /\ h.global = 0 /\ h.pending_send_adds = 0
  BY Zenon DEF OutCache, n
<1>7. CASE h.pending_entries = <<>>
  <2>1. n = 1 /\ Held(h.entries) = Group
    BY <1>5, <1>7, Zenon
  <2>2. Emptied(h, d)
    BY <1>7, RevokeEmpties, Zenon
  <2>3. /\ Held(d.entries) = {} /\ d.global = 0 /\ d.num = n /\ d.failed = h.failed
        /\ d.pending_entries = <<>> /\ d.pending_send_adds = h.pending_send_adds
    BY <2>2, <1>7, Zenon DEF Emptied, HostFields, CommonFields, n
  <2>4. OutCache(d)
    <3>1. Uniform(d.entries, d.num)
      BY <2>3, Zenon DEF Uniform
    <3> QED
      BY <3>1, <2>1, <2>3, <1>6, ZenonT(30) DEF OutCache
  <2>5. OutFrom(d) = 2 * n + 2 /\ OutFrom(h) = 3
    BY <2>1, <2>3, <1>3, <1>7, ZenonT(30) DEF OutFrom, n
  <2>6. 2 * n + 2 = 3 + 1
    BY <2>1
  <2> QED
    BY <2>4, <2>5, <2>6, ZenonT(30)
<1>8. CASE h.pending_entries # <<>>
  <2> DEFINE z == <<>>
             f == PendingEntries(h)
             b == [ResetCache(h) EXCEPT !.pending_entries = z]
  <2>1. /\ n # 0 /\ Len(h.pending_entries) = 1 /\ Held(h.pending_entries[1].entries) = Group
        /\ Uniform(h.pending_entries[1].entries, n + 1)
    BY <1>8, Zenon DEF OutCache, n
  <2>2. f = h.pending_entries[1].entries /\ f \in EntriesOf(Group)
    BY <2>1, <1>1, <1>8, OnePending, ZenonT(30)
  <2>3. Held(f) = Group /\ Uniform(f, n + 1)
    BY <2>1, <2>2, Zenon
  <2>4. d = AddEntries(b, f)
    BY <1>8, Zenon DEF RevokeHostCache
  <2>5. EmptyEntries \in [Group -> Nat] /\ Held(EmptyEntries) = {} /\ Cardinality({}) = 0
    BY GroupFinite, Zenon DEF EmptyEntries, Held
  <2> HIDE DEF f, z
  <2>6. /\ DOMAIN b = HostFields /\ b.entries = EmptyEntries /\ b.num_local_entries = 0 /\ b.global = 0
        /\ b.num = n /\ b.failed = h.failed /\ b.pending_send_adds = h.pending_send_adds /\ b.pending_entries = z
    BY <1>1, Zenon DEF ResetCache, HostFields, CommonFields, n
  <2> HIDE DEF b
  <2>7. Cur(b) = n + 1
    BY <2>5, <2>6, Zenon DEF Cur
  <2>8. CacheOK(b)
    <3>1. CommonFields \subseteq DOMAIN b
      BY <2>6, Zenon DEF HostFields
    <3>2. Uniform(b.entries, b.num)
      BY <2>5, <2>6, ZenonT(30) DEF Uniform
    <3> QED
      BY <3>1, <3>2, <2>5, <2>6, ZenonT(30) DEF CacheOK
  <2>9. Uniform(f, Cur(b))
    BY <2>3, <2>7, ZenonT(30)
  <2>10. Stored(b, f, Cur(b), d)
    BY <2>2, <2>4, <2>8, <2>9, AddVersion, ZenonT(30)
  <2>11. d.num = n + 1 /\ Uniform(d.entries, d.num)
    BY <2>7, <2>10, Zenon DEF Stored
  <2>12. Held(d.entries) = Group
    <3>1. {} \cup Group = Group
      OBVIOUS
    <3> QED
      BY <3>1, <2>3, <2>5, <2>6, <2>10, ZenonT(30) DEF Stored
  <2>13. /\ d.failed = h.failed /\ d.global = 0 /\ d.pending_send_adds = h.pending_send_adds
         /\ d.pending_entries = <<>>
    BY <2>6, <2>10, ZenonT(30) DEF Stored, HostFields, CommonFields, z
  <2>14. n + 1 # 0 /\ n + 1 # 1 /\ 2 * (n + 1) + 2 = (2 * n + 3) + 1
    BY <2>1, <1>1, SMTT(30)
  <2>15. OutCache(d)
    BY <2>11, <2>12, <2>13, <2>14, <1>6, ZenonT(30) DEF OutCache
  <2>16. OutFrom(d) = 2 * (n + 1) + 2 /\ OutFrom(h) = 2 * n + 3
    BY <2>11, <2>13, <2>14, <1>8, ZenonT(30) DEF OutFrom, n
  <2> QED
    BY <2>14, <2>15, <2>16, ZenonT(30)
<1> QED
  BY <1>7, <1>8, Zenon

\* The steps of a client outside the group.
LEMMA ClientOutside ==
  ASSUME GroupSets, IInv, VInv, OInv, NEW r \in Rank, r \notin Group, RecvCache(r) \/ RecvFinalRevoke(r)
  PROVE  OInv'
<1> DEFINE h == host[r]
           x == toRank[r]
           m == Head(x)
<1>1. /\ HostOK(h) /\ x \in Seq(HostMsgs) /\ (\A i \in DOMAIN x : Complete(x[i])) /\ ToOK(x, sp[spOf[r]])
      /\ DOMAIN host = Rank /\ DOMAIN toRank = Rank /\ DOMAIN fromRank = Rank
  BY Zenon DEF IInv, HostPart, ToPart, FromPart, VInv, ToVer
<1>2. OutCache(h) /\ Consecutive(x, OutFrom(h))
  BY Zenon DEF OInv, OutVer
<1>3. x # <<>> /\ toRank' = [toRank EXCEPT ![r] = Tail(x)] /\ UNCHANGED <<sp, peer>>
  BY Zenon DEF RecvCache, RecvFinalRevoke
<1>4. OutFrom(h) \in Nat
  <2>1. h.num \in Nat
    BY <1>1, HostDomain, Zenon
  <2> QED
    BY <2>1, SMTT(30) DEF OutFrom
<1>5. /\ Key(m) = OutFrom(h) /\ Consecutive(Tail(x), OutFrom(h) + 1)
      /\ (OutFrom(h) + 1) + Len(Tail(x)) = OutFrom(h) + Len(x)
  BY <1>1, <1>2, <1>3, <1>4, ConsecutiveTail, ZenonT(30)
<1>6. /\ m \in HostMsgs /\ Complete(m)
      /\ m.type = "entries" => Uniform(m.entries, FirstSeq(m))
  <2>1. 1 \in DOMAIN x /\ m = x[1] /\ x[1] \in HostMsgs
    BY <1>1, <1>3, SMTT(30)
  <2> QED
    BY <2>1, <1>1, Zenon DEF ToOK
<1>7. ASSUME NEW g, OutCache(g), OutFrom(g) = OutFrom(h) + 1, host' = [host EXCEPT ![r] = g], UNCHANGED fromRank
      PROVE  OInv'
  <2>1. HostStep(r, g, fromRank[r], Tail(x))
    BY <1>1, <1>3, <1>7, Zenon DEF HostStep
  <2>2. OutFrom(g) + Len(Tail(x)) = OutFrom(h) + Len(x) /\ Consecutive(Tail(x), OutFrom(g))
    BY <1>5, <1>7, Zenon
  <2> QED
    BY <2>1, <2>2, <1>7, HostStepOutside, ZenonT(30)
<1> HIDE DEF m
<1>8. CASE RecvCache(r)
  <2> DEFINE e == CheckEntriesSeq(h, m)
             g == IF MustQueueEntries(e, m) THEN QueueEntries(e, m) ELSE AddEntries(e, m.entries)
  <2>1. host' = [host EXCEPT ![r] = g] /\ UNCHANGED fromRank /\ m.type = "entries"
    BY <1>8, Zenon DEF RecvCache, m
  <2>2. m \in EntriesMsgs(Group) /\ Held(m.entries) = Group /\ Uniform(m.entries, FirstSeq(m))
    BY <2>1, <1>6, Zenon DEF HostMsgs, SpRevokeMsgs, Complete
  <2>3. OutCache(g) /\ OutFrom(g) = OutFrom(h) + 1
    BY <2>2, <1>1, <1>2, <1>5, OutTakesCache, ZenonT(30)
  <2> HIDE DEF g
  <2> QED
    BY <2>1, <2>3, <1>7, Zenon
<1>9. CASE RecvFinalRevoke(r)
  <2> DEFINE d == RevokeHostCache(h)
  <2>1. m.type = "revoke"
    BY <1>9, Zenon DEF RecvFinalRevoke, m
  <2>2. m \in SpRevokeMsgs
    BY <2>1, <1>6, Zenon DEF HostMsgs, EntriesMsgs
  <2>3. OutCache(d) /\ OutFrom(d) = OutFrom(h) + 1
    BY <2>2, <1>1, <1>2, <1>5, OutTakesRevoke, ZenonT(30)
  <2>4. d.pending_send_adds = 0
    BY <2>3, Zenon DEF OutCache
  <2>5. ~(d.pending_send_adds > 0)
    BY <2>4
  <2>6. host' = [host EXCEPT ![r] = d] /\ UNCHANGED fromRank
    BY <2>5, <1>9, Zenon DEF RecvFinalRevoke
  <2> HIDE DEF d
  <2> QED
    BY <2>3, <2>6, <1>7, Zenon
<1> QED
  BY <1>8, <1>9, ZenonT(30)

\* The initial state.
LEMMA InitOutside ==
  ASSUME Init
  PROVE  OInv
<1> DEFINE h == NewHostCache
<1>1. /\ \A r \in Rank : host[r] = h /\ toRank[r] = <<>>
      /\ Group # {} /\ Group \subseteq Rank
  BY TopologyAssumption, Zenon DEF TopologyAssumption, Init
<1>2. /\ h.num = 0 /\ h.entries = EmptyEntries /\ h.global = 0 /\ h.pending_entries = <<>> /\ h.failed = {}
      /\ h.pending_send_adds = 0
  BY Zenon DEF NewHostCache
<1> HIDE DEF h
<1>3. Held(h.entries) = {}
  BY <1>2, Zenon DEF EmptyEntries, Held
<1>4. OutCache(h)
  <2>1. Uniform(h.entries, h.num)
    BY <1>3, Zenon DEF Uniform
  <2> QED
    BY <2>1, <1>2, <1>3, ZenonT(30) DEF OutCache
<1>5. Cur(h) = 1
  BY <1>2, <1>3, SMTT(30) DEF Cur
<1>6. OutFrom(h) = HostFrom(h)
  BY <1>1, <1>2, <1>3, <1>5, SMTT(30) DEF OutFrom, HostFrom
<1>7. \A n : Consecutive(<<>>, n)
  BY DEF Consecutive
<1>8. ASSUME NEW r \in Rank \ Group PROVE OutVer(r)
  <2>1. \A s \in SpRanks(spOf[r]) : s \in Rank
    BY <1>1, Zenon DEF SpRanks
  <2> QED
    BY <2>1, <1>1, <1>4, <1>6, <1>7, <1>8, ZenonT(30) DEF OutVer
<1> QED
  BY <1>8, Zenon DEF OInv

\* Every step of a rank or of another client keeps the invariant on the clients
\* outside the group.
LEMMA HostsOutside ==
  ASSUME GroupSets, TwoSps, ~Persistent, ~EagerFree, IInv, VInv, OInv, NEW r \in Rank,
         Create(r) \/ Free(r) \/ RecvCache(r) \/ RecvFinalRevoke(r)
  PROVE  OInv'
<1>1. Create(r) \/ Free(r) => r \in Group
  BY Zenon DEF Create, Free
<1>2. CASE r \in Group
  BY <1>2, MemberOutside, Zenon
<1>3. CASE r \notin Group
  BY <1>1, <1>3, ClientOutside, Zenon
<1> QED
  BY <1>2, <1>3, Zenon

==============================================================================
