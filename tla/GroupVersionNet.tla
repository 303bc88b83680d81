--------------------------- MODULE GroupVersionNet ---------------------------
(***************************************************************************)
(* The channels: a step of an SP in the sense of SpStep keeps VInv in all  *)
(* of them, and the message at the head of a channel is the one its        *)
(* receiver waits for, or one of the next version.                         *)
(***************************************************************************)
EXTENDS GroupCacheHandlers

-----------------------------------------------------------------------------
(* Streams *)

\* The bounds of a stream can be wider.
LEMMA StreamWeaken ==
  ASSUME NEW a, NEW lo \in Int, NEW hi \in Int, Stream(a, lo, hi),
         NEW lo2 \in Int, NEW hi2 \in Int, lo2 <= lo, hi <= hi2
  PROVE  Stream(a, lo2, hi2)
<1>1. ASSUME NEW i \in DOMAIN a
      PROVE  Key(a[i]) \in Nat /\ lo2 <= Key(a[i]) /\ Key(a[i]) <= hi2
  <2>1. Key(a[i]) \in Nat /\ lo <= Key(a[i]) /\ Key(a[i]) <= hi
    BY Zenon DEF Stream
  <2> QED
    BY <2>1
<1> QED
  BY <1>1, Zenon DEF Stream

-----------------------------------------------------------------------------
(* Positions *)

\* An SP is at most one version ahead of another one, since it waits for the
\* entries and the revokes of that one's ranks.
LEMMA UpBound ==
  ASSUME NEW p, NEW q, NEW c, NEW b, c.num \in Nat, b.num \in Nat, SpVer(q, b),
         NEW r \in SpRanks(p), SpRanks(q) # {}, FromPeer(b, r) <= SpUp(p, c) + 1
  PROVE  /\ SpUp(q, b) <= 2 * Cur(c) + 2
         /\ SpUp(q, b) >= 2 * Cur(c) + 1 => SpRanks(p) \subseteq Held(c.entries) \/ SpRanks(p) \subseteq c.revoked
         /\ SpUp(q, b) >= 2 * Cur(c) + 2 => SpRanks(p) \subseteq c.revoked
<1>1. /\ Cur(c) \in Nat /\ SpUp(p, c) \in Int /\ SpUp(p, c) <= 2 * Cur(c) + 1
      /\ SpUp(p, c) >= 2 * Cur(c) => SpRanks(p) \subseteq c.revoked \/ SpRanks(p) \subseteq Held(c.entries)
      /\ SpUp(p, c) >= 2 * Cur(c) + 1 => SpRanks(p) \subseteq c.revoked
  BY UpRange, Zenon
<1>2. /\ Cur(b) \in Nat /\ SpUp(q, b) \in Int /\ SpUp(q, b) <= 2 * Cur(b) + 1
      /\ ~(SpRanks(q) \subseteq b.revoked) => SpUp(q, b) <= 2 * Cur(b)
  BY UpRange, Zenon
<1>3. /\ FromPeer(b, r) \in Nat /\ FromPeer(b, r) >= 2 * Cur(b)
      /\ r \in Held(b.entries) => FromPeer(b, r) >= 2 * Cur(b) + 1
  BY FromPeerCases, Zenon
<1>4. SpUp(q, b) = 2 * Cur(b) + 1 => r \in Held(b.entries)
  <2>1. CASE SpRanks(q) \subseteq b.revoked
    <3>1. b.revoked # {} /\ r \in Group
      BY <2>1, Zenon DEF SpRanks
    <3> QED
      BY <3>1, RevokedFull, Zenon
  <2>2. CASE ~(SpRanks(q) \subseteq b.revoked)
    BY <2>2, <1>2
  <2> QED
    BY <2>1, <2>2, Zenon
<1>5. SpUp(q, b) <= 2 * Cur(c) + 2
  BY <1>1, <1>2, <1>3, <1>4
<1>6. SpUp(q, b) >= 2 * Cur(c) + 1 => SpUp(p, c) >= 2 * Cur(c)
  BY <1>1, <1>2, <1>3, <1>4
<1>7. SpUp(q, b) >= 2 * Cur(c) + 2 => SpUp(p, c) >= 2 * Cur(c) + 1
  BY <1>1, <1>2, <1>3, <1>4
<1> QED
  BY <1>1, <1>5, <1>6, <1>7, Zenon

-----------------------------------------------------------------------------
(* The channels between two SPs *)

\* p and q are the SPs of the group, and both have ranks.
Pair(p, q) ==
  /\ p \in SP /\ q \in SP /\ p # q
  /\ Others(p) = SpRanks(q) /\ Others(q) = SpRanks(p) /\ SpRanks(p) # {} /\ SpRanks(q) # {}

\* What is known of the caches c of p and b of q and of the channels xp from q to p
\* and xq from p to q.
Between(p, q, c, b, xp, xq) ==
  /\ SpOK(p, c) /\ SpOK(q, b) /\ SpVer(p, c) /\ SpVer(q, b)
  /\ xp \in Seq(PeerMsgs(q)) /\ xq \in Seq(PeerMsgs(p))
  /\ PeerOK(p, q, xp, c, b) /\ PeerOK(q, p, xq, b, c)

\* The SPs are at most one version apart.
LEMMA BetweenBound ==
  ASSUME NEW p, NEW q, Pair(p, q), NEW c, NEW b, NEW xp, NEW xq, Between(p, q, c, b, xp, xq)
  PROVE  /\ SpUp(q, b) <= 2 * Cur(c) + 2
         /\ SpUp(q, b) >= 2 * Cur(c) + 1 => SpRanks(p) \subseteq Held(c.entries) \/ SpRanks(p) \subseteq c.revoked
         /\ SpUp(q, b) >= 2 * Cur(c) + 2 => SpRanks(p) \subseteq c.revoked
<1>1. PICK r \in SpRanks(p) : TRUE
  BY Zenon DEF Pair
<1>2. FromPeer(b, r) <= SpUp(p, c) + 1
  BY Zenon DEF Between, PeerOK, RankStream
<1>3. c.num \in Nat /\ b.num \in Nat /\ SpVer(q, b) /\ SpRanks(q) # {}
  BY SpNumbers, Zenon DEF Between, Pair
<1> QED
  BY <1>2, <1>3, UpBound, Zenon

\* A step of p leaves what is in the channel from q acceptable.
LEMMA PeerMsgsKept ==
  ASSUME GroupSets, NEW p, NEW q, Pair(p, q), NEW c, NEW b, NEW xp, NEW xq,
         Between(p, q, c, b, xp, xq), NEW d, c.revoked \subseteq d.revoked \/ c.revoked = Group,
         NEW i \in DOMAIN xp
  PROVE  PeerMsgVer(p, d, xp[i])
<1>1. /\ SpOK(p, c) /\ SpOK(q, b) /\ SpVer(p, c) /\ PeerOK(p, q, xp, c, b) /\ xp \in Seq(PeerMsgs(q))
      /\ c.num \in Nat /\ b.num \in Nat /\ Group # {}
  BY SpNumbers, Zenon DEF Between, Pair, SpRanks
<1>2. PeerMsgVer(p, c, xp[i])
  BY <1>1, Zenon DEF PeerOK
<1>3. CASE xp[i].type # "revoke"
  BY <1>2, <1>3, Zenon DEF PeerMsgVer
<1>4. CASE c.revoked \subseteq d.revoked
  <2>1. xp[i].ranks \subseteq Others(p) \cup c.revoked => xp[i].ranks \subseteq Others(p) \cup d.revoked
    BY <1>4, Zenon
  <2> QED
    BY <1>2, <2>1, Zenon DEF PeerMsgVer
<1>5. CASE c.revoked = Group /\ xp[i].type = "revoke"
  <2>1. PICK r \in SpRanks(q) : TRUE
    BY Zenon DEF Pair
  <2>2. r \in Group /\ Held(c.entries) = Group
    BY <1>1, <1>5, RevokedFull, Zenon DEF SpRanks
  <2>3. About(xp[i], r)
    BY <1>5, Zenon DEF About
  <2>4. FromPeer(c, r) <= Key(xp[i]) /\ Key(xp[i]) <= SpUp(q, b)
    BY <1>1, <2>3, Zenon DEF PeerOK, RankStream, Stream
  <2>5. FromPeer(c, r) \in Nat /\ FromPeer(c, r) >= 2 * Cur(c) + 2 /\ Cur(c) \in Nat
    BY <1>1, <1>5, <2>2, FromPeerCases, Zenon
  <2>6. SpUp(q, b) <= 2 * Cur(c) + 2 /\ SpUp(q, b) \in Int
    BY <1>1, BetweenBound, UpRange, Zenon
  <2>7. xp[i].seq \in Nat
    <3>1. xp[i] \in PeerMsgs(q)
      BY <1>1
    <3>2. xp[i] \in SpRevokeMsgs
      BY <3>1, <1>5, Zenon DEF PeerMsgs, EntriesMsgs
    <3> QED
      BY <3>2, Zenon DEF SpRevokeMsgs
  <2>8. Key(xp[i]) = 2 * xp[i].seq + 1
    BY <1>5 DEF Key
  <2>9. FALSE
    BY <2>4, <2>5, <2>6, <2>7, <2>8, SMTT(30)
  <2> QED
    BY <2>9
<1> QED
  BY <1>3, <1>4, <1>5, Zenon

\* A step of p that takes nothing from q, seen from the channel from q.
LEMMA IncomingSame ==
  ASSUME GroupSets, NEW p, NEW q, Pair(p, q), NEW c, NEW b, NEW xp, NEW xq,
         Between(p, q, c, b, xp, xq), NEW d, NEW R, NEW n, SpStep(p, c, d, R, {}, n)
  PROVE  PeerOK(p, q, xp, d, b)
<1>1. PeerOK(p, q, xp, c, b)
  BY Zenon DEF Between
<1>2. \A r \in SpRanks(q) : FromPeer(d, r) = FromPeer(c, r)
  BY Zenon DEF SpStep, Pair
<1>3. \A r \in SpRanks(q) : RankStream(xp, r, FromPeer(d, r), SpUp(q, b))
  BY <1>1, <1>2, Zenon DEF PeerOK
<1>4. Stream(xp, 0, SpUp(q, b))
  BY <1>1, Zenon DEF PeerOK
<1>5. \A i \in DOMAIN xp : PeerMsgVer(p, d, xp[i])
  BY PeerMsgsKept, Zenon DEF SpStep
<1> QED
  BY <1>3, <1>4, <1>5, Zenon DEF PeerOK

\* A step of p, seen from its channel to q.
LEMMA OutgoingSent ==
  ASSUME GroupSets, NEW p, NEW q, Pair(p, q), NEW c, NEW b, NEW xp, NEW xq,
         Between(p, q, c, b, xp, xq), NEW d, SpOK(p, d), SendsUp(p, c, d)
  PROVE  PeerOK(q, p, xq \o d.toPeers, b, d)
<1>1. /\ SpOK(p, c) /\ SpOK(q, b) /\ SpVer(p, c) /\ SpVer(q, b)
      /\ PeerOK(q, p, xq, b, c) /\ PeerOK(p, q, xp, c, b) /\ xq \in Seq(PeerMsgs(p))
      /\ c.num \in Nat /\ b.num \in Nat /\ Group # {} /\ d.toPeers \in Seq(PeerMsgs(p))
  BY SpNumbers, Zenon DEF Between, Pair, SpRanks, SpOK, SpCaches
<1>2. CASE d.toPeers = <<>> /\ SpUp(p, d) = SpUp(p, c)
  <2>1. xq \o d.toPeers = xq
    BY <1>1, <1>2
  <2> QED
    BY <2>1, <1>1, <1>2, Zenon DEF PeerOK
<1>3. ASSUME SpUp(p, d) = SpUp(p, c) + 1, NEW m, d.toPeers = <<m>>, Key(m) = SpUp(p, d), UpMsg(p, c, m)
      PROVE  PeerOK(q, p, xq \o d.toPeers, b, d)
  <2> DEFINE t == xq \o d.toPeers
             hi == SpUp(p, c)
  <2>1. m \in PeerMsgs(p)
    BY <1>1, <1>3
  <2>2. t = Append(xq, m)
    BY <1>1, <1>3, <2>1
  <2>3. Appended(xq, m, t)
    BY <1>1, <2>1, <2>2, AppendElements, Zenon
  <2>4. hi \in Int /\ Key(m) = hi + 1 /\ SpUp(p, d) = hi + 1
    BY <1>1, <1>3, UpRange, Zenon
  <2>5. Key(m) \in Nat
    BY <2>1, KeyNat, Zenon DEF PeerMsgs
  <2>6. Stream(t, 0, hi + 1)
    <3>1. Stream(<<m>>, hi + 1, hi + 1)
      <4>1. hi + 1 \in Int /\ hi + 1 <= Key(m) /\ Key(m) <= hi + 1
        BY <2>4
      <4> QED
        BY <4>1, <2>5, StreamOne, Zenon
    <3>2. Stream(xq, 0, hi)
      BY <1>1, Zenon DEF PeerOK
    <3>3. hi + 1 \in Int /\ 0 <= hi + 1 /\ hi <= hi + 1 /\ 0 \in Int
      BY <2>4, <2>5
    <3>4. <<m>> \in Seq(PeerMsgs(p))
      BY <2>1
    <3> HIDE DEF hi
    <3> QED
      BY <1>1, <1>3, <2>4, <3>1, <3>2, <3>3, <3>4, StreamConcat, ZenonT(30)
  <2>7. PeerMsgVer(q, b, m)
    <3>1. CASE m.type # "revoke"
      BY <3>1, <1>3, Zenon DEF PeerMsgVer, UpMsg
    <3>2. CASE m.type = "revoke"
      <4>1. /\ m.seq = c.num /\ Held(c.entries) # {} /\ SpRanks(p) \subseteq m.ranks
            /\ m.ranks \subseteq SpRanks(p) \/ Others(p) \subseteq c.revoked
        BY <3>2, <1>3, Zenon DEF UpMsg
      <4>2. CASE m.ranks \subseteq SpRanks(p)
        BY <3>2, <4>1, <4>2, Zenon DEF PeerMsgVer, Pair
      <4>3. CASE Others(p) \subseteq c.revoked
        <5>1. PICK r \in SpRanks(p), s \in SpRanks(q) : TRUE
          BY Zenon DEF Pair
        <5>2. Cur(c) = c.num /\ Key(m) = 2 * c.num + 1
          BY <3>2, <4>1 DEF Cur, Key
        <5>3. FromPeer(b, r) <= SpUp(p, c) + 1 /\ FromPeer(c, s) <= SpUp(q, b) + 1
          BY <1>1, Zenon DEF PeerOK, RankStream
        <5>4. FromPeer(b, r) \in Nat /\ FromPeer(b, r) >= 2 * Cur(b) /\ Cur(b) \in Nat
          BY <1>1, FromPeerCases, Zenon
        <5>5. s \in c.revoked
          BY <4>3, Zenon DEF Pair
        <5>6. FromPeer(c, s) \in Nat /\ FromPeer(c, s) >= 2 * Cur(c) + 2
          BY <1>1, <4>1, <5>5, FromPeerCases, Zenon
        <5>7. /\ SpUp(q, b) \in Int /\ SpUp(q, b) <= 2 * Cur(b) + 1
              /\ SpUp(q, b) >= 2 * Cur(b) + 1 => SpRanks(q) \subseteq b.revoked
          BY <1>1, UpRange, Zenon
        <5>8. SpUp(q, b) >= 2 * Cur(b) + 1
          BY <1>1, <2>4, <5>2, <5>3, <5>4, <5>6, <5>7, SMTT(30)
        <5>9. SpRanks(q) \subseteq b.revoked
          BY <5>7, <5>8, Zenon
        <5>10. m.ranks \subseteq Group
          BY <2>1, <3>2, Zenon DEF PeerMsgs, EntriesMsgs, SpRevokeMsgs
        <5>11. m.ranks \subseteq Others(q) \cup b.revoked
          BY <5>9, <5>10, Zenon DEF Others
        <5> QED
          BY <3>2, <4>1, <5>11, Zenon DEF PeerMsgVer, Pair
      <4> QED
        BY <4>1, <4>2, <4>3, Zenon
    <3> QED
      BY <3>1, <3>2, Zenon
  <2>8. ASSUME NEW i \in DOMAIN t PROVE PeerMsgVer(q, b, t[i])
    <3>1. t[i] = m \/ (i \in DOMAIN xq /\ t[i] = xq[i])
      BY <2>3, Zenon DEF Appended
    <3> QED
      BY <3>1, <2>7, <1>1, Zenon DEF PeerOK
  <2>9. ASSUME NEW r \in SpRanks(p) PROVE RankStream(t, r, FromPeer(b, r), hi + 1)
    <3> DEFINE lo == FromPeer(b, r)
    <3>1. RankStream(xq, r, lo, hi)
      BY <1>1, Zenon DEF PeerOK
    <3>2. lo \in Nat
      BY <1>1, FromPeerCases, Zenon
    <3>3. About(m, r)
      <4>1. CASE m.type = "revoke"
        BY <4>1, Zenon DEF About
      <4>2. CASE m.type # "revoke"
        BY <4>2, <1>3, Zenon DEF About, UpMsg, Held
      <4> QED
        BY <4>1, <4>2, Zenon
    <3> HIDE DEF lo, t, hi
    <3>4. lo <= hi + 1
      BY <3>1, Zenon DEF RankStream
    <3>5. lo <= (hi + 1) + 1
      BY <3>2, <3>4, <2>4
    <3>6. ASSUME NEW i \in DOMAIN t, About(t[i], r) PROVE lo <= Key(t[i])
      <4>1. t[i] = m \/ (i \in DOMAIN xq /\ t[i] = xq[i])
        BY <2>3, Zenon DEF Appended
      <4> QED
        BY <4>1, <3>1, <3>4, <3>6, <2>4, Zenon DEF RankStream
    <3>7. ASSUME NEW k \in lo .. hi + 1 PROVE \E i \in DOMAIN t : Key(t[i]) = k /\ About(t[i], r)
      <4>1. k = hi + 1 \/ k \in lo .. hi
        BY <2>4, <3>2
      <4>2. CASE k = hi + 1
        BY <4>2, <2>3, <2>4, <3>3, Zenon DEF Appended
      <4>3. CASE k \in lo .. hi
        <5>1. PICK i \in DOMAIN xq : Key(xq[i]) = k /\ About(xq[i], r)
          BY <4>3, <3>1, Zenon DEF RankStream
        <5> QED
          BY <5>1, <2>3, Zenon DEF Appended
      <4> QED
        BY <4>1, <4>2, <4>3, Zenon
    <3>8. RankStream(t, r, lo, hi + 1)
      BY <3>5, <3>6, <3>7, Zenon DEF RankStream
    <3> QED
      BY <3>8, Zenon DEF lo
  <2> HIDE DEF t, hi
  <2>10. Stream(t, 0, SpUp(p, d)) /\ \A r \in SpRanks(p) : RankStream(t, r, FromPeer(b, r), SpUp(p, d))
    BY <2>4, <2>6, <2>9, Zenon
  <2>11. PeerOK(q, p, t, b, d)
    BY <2>8, <2>10, Zenon DEF PeerOK
  <2> QED
    BY <2>11, Zenon DEF t
<1> QED
  BY <1>2, <1>3, Zenon DEF SendsUp

\* A sequence whose first element is replaced.
Replaced(a, y, t) ==
  /\ DOMAIN t = DOMAIN a /\ 1 \in DOMAIN a /\ t[1] = y /\ a[1] = Head(a)
  /\ \A i \in DOMAIN a : i # 1 => t[i] = a[i] /\ 1 < i

\* The first element is replaced.
LEMMA ReplaceHead ==
  ASSUME NEW S, NEW a \in Seq(S), a # <<>>, NEW y \in S
  PROVE  Replaced(a, y, <<y>> \o Tail(a))
<1> DEFINE b == Tail(a)
           h == <<y>>
           t == h \o b
<1>1. /\ Len(a) \in Nat \ {0} /\ DOMAIN a = 1 .. Len(a) /\ Head(a) = a[1]
      /\ b \in Seq(S) /\ Len(b) = Len(a) - 1
      /\ \A i \in 1 .. Len(a) - 1 : b[i] = a[i + 1]
  BY EmptySeq
<1>2. h \in Seq(S) /\ Len(h) = 1 /\ h[1] = y
  OBVIOUS
<1> HIDE DEF b, h
<1>3. /\ t \in Seq(S) /\ Len(t) = Len(h) + Len(b)
      /\ \A i \in 1 .. Len(h) + Len(b) : t[i] = IF i <= Len(h) THEN h[i] ELSE b[i - Len(h)]
  BY <1>1, <1>2, ConcatProperties, ZenonT(30)
<1> HIDE DEF t
<1>4. DOMAIN t = 1 .. Len(a)
  BY <1>1, <1>2, <1>3
<1>5. ASSUME NEW i \in 1 .. Len(a), i # 1
      PROVE  t[i] = a[i] /\ 1 < i
  <2>1. i \in 1 .. Len(h) + Len(b) /\ ~(i <= Len(h)) /\ i - 1 \in 1 .. Len(a) - 1 /\ (i - 1) + 1 = i
    BY <1>1, <1>2, <1>5
  <2>2. t[i] = b[i - 1]
    BY <2>1, <1>2, <1>3
  <2>3. b[i - 1] = a[(i - 1) + 1]
    BY <2>1, <1>1, Zenon
  <2>4. 1 < i
    BY <1>1, <1>5
  <2> QED
    BY <2>1, <2>2, <2>3, <2>4, Zenon
<1>6. t[1] = y
  BY <1>1, <1>2, <1>3, SMTT(30)
<1>7. 1 \in 1 .. Len(a)
  BY <1>1
<1>8. Replaced(a, y, t)
  BY <1>1, <1>4, <1>5, <1>6, <1>7, Zenon DEF Replaced
<1> QED
  BY <1>8, Zenon DEF t, h, b

\* and one whose first element is removed.
Removed(a, t) ==
  /\ 1 \in DOMAIN a /\ a[1] = Head(a)
  /\ \A i \in DOMAIN t : i + 1 \in DOMAIN a /\ t[i] = a[i + 1] /\ 1 < i + 1
  /\ \A i \in DOMAIN a : i # 1 => \E j \in DOMAIN t : t[j] = a[i]

\* The first element is removed.
LEMMA RemoveHead ==
  ASSUME NEW S, NEW a \in Seq(S), a # <<>>
  PROVE  Removed(a, Tail(a))
<1> DEFINE t == Tail(a)
<1>1. /\ Len(a) \in Nat \ {0} /\ DOMAIN a = 1 .. Len(a) /\ Head(a) = a[1]
      /\ DOMAIN t = 1 .. Len(a) - 1
      /\ \A i \in 1 .. Len(a) - 1 : t[i] = a[i + 1]
  BY EmptySeq
<1> HIDE DEF t
<1>2. ASSUME NEW i \in DOMAIN t PROVE i + 1 \in DOMAIN a /\ t[i] = a[i + 1] /\ 1 < i + 1
  BY <1>1
<1>3. ASSUME NEW i \in DOMAIN a, i # 1 PROVE \E j \in DOMAIN t : t[j] = a[i]
  <2>1. i - 1 \in DOMAIN t /\ (i - 1) + 1 = i
    BY <1>1, <1>3
  <2>2. t[i - 1] = a[(i - 1) + 1]
    BY <2>1, <1>1, Zenon
  <2> QED
    BY <2>1, <2>2, Zenon
<1>4. 1 \in DOMAIN a
  BY <1>1
<1> QED
  BY <1>1, <1>2, <1>3, <1>4, Zenon DEF Removed, t

\* The stream about a rank when the first message is taken.
LEMMA RankStreamTail ==
  ASSUME NEW S, NEW a \in Seq(S), a # <<>>, NEW hi \in Int, NEW lo \in Nat, NEW r,
         Stream(a, 0, hi), RankStream(a, r, lo, hi)
  PROVE  /\ About(Head(a), r) => RankStream(Tail(a), r, Key(Head(a)) + 1, hi)
         /\ ~About(Head(a), r) => RankStream(Tail(a), r, lo, hi)
<1> DEFINE t == Tail(a)
           k0 == Key(Head(a))
<1>1. Removed(a, t)
  BY RemoveHead, Zenon
<1> HIDE DEF t
<1>2. /\ 1 \in DOMAIN a /\ a[1] = Head(a)
      /\ \A i \in DOMAIN t : i + 1 \in DOMAIN a /\ t[i] = a[i + 1] /\ 1 < i + 1
      /\ \A i \in DOMAIN a : i # 1 => \E j \in DOMAIN t : t[j] = a[i]
  BY <1>1, Zenon DEF Removed
<1>3. k0 \in Nat /\ k0 <= hi /\ \A i \in DOMAIN a : 1 < i => k0 < Key(a[i])
  BY <1>2, Zenon DEF Stream
<1>4. /\ \A i \in DOMAIN a : About(a[i], r) => lo <= Key(a[i])
      /\ \A k \in lo .. hi : \E i \in DOMAIN a : Key(a[i]) = k /\ About(a[i], r)
      /\ lo <= hi + 1
  BY Zenon DEF RankStream
<1>5. ASSUME About(Head(a), r) PROVE RankStream(t, r, k0 + 1, hi)
  <2>1. lo <= k0
    BY <1>2, <1>4, <1>5, Zenon
  <2>2. k0 + 1 <= hi + 1
    BY <1>3
  <2>3. ASSUME NEW i \in DOMAIN t PROVE k0 + 1 <= Key(t[i])
    <3>1. k0 < Key(t[i]) /\ Key(t[i]) \in Nat
      BY <1>2, <1>3, Zenon DEF Stream
    <3> QED
      BY <3>1, <1>3
  <2>4. ASSUME NEW k \in k0 + 1 .. hi PROVE \E j \in DOMAIN t : Key(t[j]) = k /\ About(t[j], r)
    <3>1. k \in lo .. hi /\ k # k0
      BY <2>1, <1>3
    <3>2. PICK i \in DOMAIN a : Key(a[i]) = k /\ About(a[i], r)
      BY <3>1, <1>4, Zenon
    <3>3. i # 1
      BY <3>1, <3>2, <1>2, Zenon
    <3> QED
      BY <3>2, <3>3, <1>2, Zenon
  <2> HIDE DEF k0
  <2> QED
    BY <2>2, <2>3, <2>4, Zenon DEF RankStream
<1>6. ASSUME ~About(Head(a), r) PROVE RankStream(t, r, lo, hi)
  <2>1. ASSUME NEW i \in DOMAIN t, About(t[i], r) PROVE lo <= Key(t[i])
    BY <2>1, <1>2, <1>4, Zenon
  <2>2. ASSUME NEW k \in lo .. hi PROVE \E j \in DOMAIN t : Key(t[j]) = k /\ About(t[j], r)
    <3>1. PICK i \in DOMAIN a : Key(a[i]) = k /\ About(a[i], r)
      BY <1>4, Zenon
    <3>2. i # 1
      BY <3>1, <1>2, <1>6, Zenon
    <3> QED
      BY <3>1, <3>2, <1>2, Zenon
  <2> QED
    BY <2>1, <2>2, <1>4, Zenon DEF RankStream
<1> QED
  BY <1>5, <1>6, Zenon DEF t

\* The stream about a rank when a part of the first message is taken.
LEMMA RankStreamReplace ==
  ASSUME NEW S, NEW a \in Seq(S), a # <<>>, NEW y \in S, Key(y) = Key(Head(a)),
         NEW hi \in Int, NEW lo \in Nat, NEW r,
         Stream(a, 0, hi), RankStream(a, r, lo, hi), NEW t, t = <<y>> \o Tail(a)
  PROVE  /\ About(y, r) /\ About(Head(a), r) => RankStream(t, r, lo, hi)
         /\ ~About(y, r) /\ ~About(Head(a), r) => RankStream(t, r, lo, hi)
         /\ ~About(y, r) /\ About(Head(a), r) => RankStream(t, r, Key(Head(a)) + 1, hi)
<1> DEFINE k0 == Key(Head(a))
<1>1. Replaced(a, y, t)
  BY ReplaceHead, Zenon
<1>2. /\ DOMAIN t = DOMAIN a /\ 1 \in DOMAIN a /\ t[1] = y /\ a[1] = Head(a)
      /\ \A i \in DOMAIN a : i # 1 => t[i] = a[i] /\ 1 < i
  BY <1>1, Zenon DEF Replaced
<1>3. k0 \in Nat /\ k0 <= hi /\ \A i \in DOMAIN a : 1 < i => k0 < Key(a[i])
  BY <1>2, Zenon DEF Stream
<1>4. /\ \A i \in DOMAIN a : About(a[i], r) => lo <= Key(a[i])
      /\ \A k \in lo .. hi : \E i \in DOMAIN a : Key(a[i]) = k /\ About(a[i], r)
      /\ lo <= hi + 1
  BY Zenon DEF RankStream
<1>5. ASSUME About(y, r) <=> About(Head(a), r) PROVE RankStream(t, r, lo, hi)
  <2>1. ASSUME NEW i \in DOMAIN a
        PROVE  /\ Key(t[i]) = Key(a[i])
               /\ About(t[i], r) => About(a[i], r)
               /\ About(a[i], r) => About(t[i], r)
    <3>1. CASE i = 1
      BY <3>1, <1>2, <1>5
    <3>2. CASE i # 1
      BY <3>2, <1>2
    <3> QED
      BY <3>1, <3>2, Zenon
  <2>2. ASSUME NEW i \in DOMAIN t, About(t[i], r) PROVE lo <= Key(t[i])
    BY <2>1, <2>2, <1>2, <1>4, Zenon
  <2>3. ASSUME NEW k \in lo .. hi PROVE \E i \in DOMAIN t : Key(t[i]) = k /\ About(t[i], r)
    <3>1. PICK i \in DOMAIN a : Key(a[i]) = k /\ About(a[i], r)
      BY <1>4, Zenon
    <3> QED
      BY <3>1, <2>1, <1>2, Zenon
  <2> QED
    BY <2>2, <2>3, <1>4, Zenon DEF RankStream
<1>6. ASSUME ~About(y, r), About(Head(a), r) PROVE RankStream(t, r, k0 + 1, hi)
  <2>1. lo <= k0
    BY <1>2, <1>4, <1>6, Zenon
  <2>2. k0 + 1 <= hi + 1
    BY <1>3
  <2>3. ASSUME NEW i \in DOMAIN t, About(t[i], r) PROVE k0 + 1 <= Key(t[i])
    <3>1. i # 1
      BY <2>3, <1>2, <1>6, Zenon
    <3>2. k0 < Key(t[i]) /\ Key(t[i]) \in Nat
      BY <3>1, <1>2, <1>3, Zenon DEF Stream
    <3> QED
      BY <3>2, <1>3, SMTT(30)
  <2>4. ASSUME NEW k \in k0 + 1 .. hi PROVE \E j \in DOMAIN t : Key(t[j]) = k /\ About(t[j], r)
    <3>1. k \in lo .. hi /\ k # k0
      BY <2>1, <1>3
    <3>2. PICK i \in DOMAIN a : Key(a[i]) = k /\ About(a[i], r)
      BY <3>1, <1>4, Zenon
    <3>3. i # 1
      BY <3>1, <3>2, <1>2, Zenon
    <3> QED
      BY <3>2, <3>3, <1>2, Zenon
  <2> HIDE DEF k0
  <2> QED
    BY <2>2, <2>3, <2>4, Zenon DEF RankStream
<1> QED
  BY <1>5, <1>6, Zenon

\* The channel from q when p took a revoke from it,
LEMMA IncomingRevoke ==
  ASSUME GroupSets, NEW p, NEW q, Pair(p, q), NEW c, NEW b, NEW xp, NEW xq,
         Between(p, q, c, b, xp, xq), xp # <<>>, Head(xp).type = "revoke",
         NEW d, NEW R, SpStep(p, c, d, R, Others(p), Key(Head(xp)) + 1)
  PROVE  PeerOK(p, q, Tail(xp), d, b)
<1>1. /\ PeerOK(p, q, xp, c, b) /\ xp \in Seq(PeerMsgs(q)) /\ c.num \in Nat /\ b.num \in Nat
  BY SpNumbers, Zenon DEF Between
<1>2. SpUp(q, b) \in Int
  BY <1>1, UpRange, Zenon
<1>3. Stream(xp, 0, SpUp(q, b))
  BY <1>1, Zenon DEF PeerOK
<1>4. /\ Key(Head(xp)) \in Nat /\ Stream(Tail(xp), Key(Head(xp)) + 1, SpUp(q, b))
  BY <1>1, <1>2, <1>3, StreamHead, SMTT(30)
<1>5. Stream(Tail(xp), 0, SpUp(q, b))
  <2>1. 0 <= Key(Head(xp)) + 1 /\ Key(Head(xp)) + 1 \in Int /\ SpUp(q, b) <= SpUp(q, b)
    BY <1>2, <1>4
  <2> QED
    BY <1>2, <1>4, <2>1, StreamWeaken, SMTT(30)
<1>6. ASSUME NEW r \in SpRanks(q)
      PROVE  RankStream(Tail(xp), r, FromPeer(d, r), SpUp(q, b))
  <2>1. FromPeer(d, r) = Key(Head(xp)) + 1
    BY Zenon DEF SpStep, Pair
  <2>2. RankStream(xp, r, FromPeer(c, r), SpUp(q, b)) /\ FromPeer(c, r) \in Nat
    BY <1>1, FromPeerCases, Zenon DEF PeerOK
  <2>3. About(Head(xp), r)
    BY Zenon DEF About
  <2> QED
    BY <1>1, <1>2, <1>3, <2>1, <2>2, <2>3, RankStreamTail, ZenonT(30)
<1>7. ASSUME NEW i \in DOMAIN Tail(xp) PROVE PeerMsgVer(p, d, Tail(xp)[i])
  <2>1. i + 1 \in DOMAIN xp /\ Tail(xp)[i] = xp[i + 1]
    BY <1>1, RemoveHead, Zenon DEF Removed
  <2>2. PeerMsgVer(p, d, xp[i + 1])
    BY <2>1, PeerMsgsKept, Zenon DEF SpStep
  <2> QED
    BY <2>1, <2>2, Zenon
<1> QED
  BY <1>5, <1>6, <1>7, Zenon DEF PeerOK

\* and when it took the first entry of a message.
LEMMA IncomingEntry ==
  ASSUME GroupSets, NEW p, NEW q, Pair(p, q), NEW c, NEW b, NEW xp, NEW xq,
         Between(p, q, c, b, xp, xq), xp # <<>>, Head(xp).type = "entries",
         NEW d, NEW R, SpStep(p, c, d, R, {FirstRank(Head(xp))}, Key(Head(xp)) + 1)
  PROVE  PeerOK(p, q, WithoutFirst(xp), d, b)
<1> DEFINE m == Head(xp)
           r0 == FirstRank(m)
           rest == Only(Group \ {r0}, m.entries)
           y == EntriesMsg(rest)
           hi == SpUp(q, b)
<1>1. /\ PeerOK(p, q, xp, c, b) /\ xp \in Seq(PeerMsgs(q)) /\ c.num \in Nat /\ b.num \in Nat /\ q \in SP
  BY SpNumbers, Zenon DEF Between, Pair
<1>2. hi \in Int
  BY <1>1, UpRange, Zenon
<1>3. Stream(xp, 0, hi)
  BY <1>1, Zenon DEF PeerOK
<1>4. m \in EntriesMsgs(SpRanks(q)) /\ WithoutFirst(xp) \in Seq(PeerMsgs(q))
  BY <1>1, WithoutFirstOK, Zenon
<1>5. /\ m.entries \in [Group -> Nat] /\ r0 \in Held(m.entries) /\ Held(m.entries) \subseteq SpRanks(q)
      /\ m.type = "entries" /\ Key(m) = 2 * FirstSeq(m) /\ FirstSeq(m) \in Nat
  <2>1. m.type = "entries" /\ Held(m.entries) \subseteq SpRanks(q)
    BY <1>4, Zenon DEF EntriesMsgs, EntriesOf
  <2> QED
    BY <2>1, <1>4, KeyNat, Zenon DEF FirstRank
<1>6. WithoutFirst(xp) = IF Held(rest) = {} THEN Tail(xp) ELSE <<y>> \o Tail(xp)
  BY Zenon DEF WithoutFirst
<1>7. xp[1] = m /\ 1 \in DOMAIN xp
  BY <1>1, RemoveHead, Zenon DEF Removed
<1>8. Uniform(m.entries, FirstSeq(m))
  BY <1>1, <1>5, <1>7, Zenon DEF PeerOK, PeerMsgVer
<1>9. ASSUME NEW r \in SpRanks(q)
      PROVE  /\ RankStream(xp, r, FromPeer(c, r), hi) /\ FromPeer(c, r) \in Nat
             /\ r = r0 => FromPeer(d, r) = Key(m) + 1
             /\ r # r0 => FromPeer(d, r) = FromPeer(c, r)
  BY <1>1, FromPeerCases, Zenon DEF PeerOK, SpStep, Pair
<1>10. /\ rest \in [Group -> Nat] /\ rest[r0] = 0
       /\ \A r \in Group : r # r0 => rest[r] = m.entries[r]
  <2>1. r0 \in Group
    BY <1>5, Zenon DEF Held
  <2> HIDE DEF m, r0
  <2> QED
    BY <2>1, <1>5, Zenon DEF Only
<1>11. About(m, r0)
  BY <1>5, Zenon DEF About, Held
<1>12. ASSUME NEW i \in DOMAIN xp PROVE PeerMsgVer(p, d, xp[i])
  BY PeerMsgsKept, Zenon DEF SpStep
<1> HIDE DEF m, r0, rest, hi
<1>13. CASE Held(rest) = {}
  <2>1. WithoutFirst(xp) = Tail(xp)
    BY <1>6, <1>13, Zenon
  <2>2. /\ Key(m) \in Nat /\ Stream(Tail(xp), Key(m) + 1, hi)
    <3>1. 0 \in Int
      OBVIOUS
    <3> QED
      BY <3>1, <1>1, <1>2, <1>3, StreamHead, ZenonT(30) DEF m
  <2>3. Stream(Tail(xp), 0, hi)
    <3>1. 0 <= Key(m) + 1 /\ Key(m) + 1 \in Int /\ hi <= hi
      BY <1>2, <2>2
    <3> QED
      BY <1>2, <2>2, <3>1, StreamWeaken, SMTT(30)
  <2>4. ASSUME NEW r \in SpRanks(q) PROVE RankStream(Tail(xp), r, FromPeer(d, r), hi)
    <3>1. /\ About(m, r) => RankStream(Tail(xp), r, Key(m) + 1, hi)
          /\ ~About(m, r) => RankStream(Tail(xp), r, FromPeer(c, r), hi)
      BY <1>1, <1>2, <1>3, <1>9, RankStreamTail, ZenonT(30) DEF m
    <3>2. r # r0 => ~About(m, r)
      <4>1. r \in Group
        BY Zenon DEF SpRanks
      <4>2. r # r0 => m.entries[r] = 0
        BY <4>1, <1>10, <1>13, Zenon DEF Held
      <4>3. m.type # "revoke"
        BY <1>5
      <4> QED
        BY <4>2, <4>3, Zenon DEF About
    <3> QED
      BY <3>1, <3>2, <1>9, <1>11, ZenonT(30)
  <2>5. ASSUME NEW i \in DOMAIN Tail(xp) PROVE PeerMsgVer(p, d, Tail(xp)[i])
    <3>1. i + 1 \in DOMAIN xp /\ Tail(xp)[i] = xp[i + 1]
      BY <1>1, RemoveHead, Zenon DEF Removed
    <3> QED
      BY <3>1, <1>12, Zenon
  <2> QED
    BY <2>1, <2>3, <2>4, <2>5, Zenon DEF PeerOK, hi
<1>14. CASE Held(rest) # {}
  <2> DEFINE t == <<y>> \o Tail(xp)
  <2>1. WithoutFirst(xp) = t
    BY <1>6, <1>14, Zenon
  <2>2. Uniform(rest, FirstSeq(m))
    BY <1>8, <1>10, Zenon DEF Uniform, Held
  <2>3. /\ FirstSeq(y) = FirstSeq(m) /\ Key(y) = Key(m) /\ y.type = "entries" /\ y.entries = rest
    BY <1>5, <1>10, <1>14, <2>2, EntriesKey, Zenon
  <2>4. y \in PeerMsgs(q)
    <3>1. Held(rest) \subseteq SpRanks(q)
      BY <1>5, <1>10, Zenon DEF Held
    <3> QED
      BY <3>1, <1>10, <1>14, Zenon DEF EntriesMsg, EntriesMsgs, EntriesOf, PeerMsgs
  <2> HIDE DEF y
  <2>5. Replaced(xp, y, t)
    BY <1>1, <2>4, ReplaceHead, Zenon
  <2> HIDE DEF t
  <2>6. /\ DOMAIN t = DOMAIN xp /\ t[1] = y
        /\ \A i \in DOMAIN xp : i # 1 => t[i] = xp[i]
    BY <2>5, Zenon DEF Replaced
  <2>7. \A i \in DOMAIN xp : Key(t[i]) = Key(xp[i])
    BY <2>3, <2>6, <1>7, Zenon
  <2>8. Stream(t, 0, hi)
    BY <1>3, <2>6, <2>7, Zenon DEF Stream
  <2>9. ASSUME NEW r \in SpRanks(q) PROVE RankStream(t, r, FromPeer(d, r), hi)
    <3>1. /\ About(y, r) /\ About(m, r) => RankStream(t, r, FromPeer(c, r), hi)
          /\ ~About(y, r) /\ ~About(m, r) => RankStream(t, r, FromPeer(c, r), hi)
          /\ ~About(y, r) /\ About(m, r) => RankStream(t, r, Key(m) + 1, hi)
      BY <1>1, <1>2, <1>3, <1>9, <2>3, <2>4, RankStreamReplace, ZenonT(30) DEF m, t
    <3>2. CASE r = r0
      <4>1. y.type # "revoke" /\ y.entries[r] = 0
        BY <3>2, <2>3, <1>10, SMTT(30)
      <4>2. ~About(y, r)
        BY <4>1, Zenon DEF About
      <4> QED
        BY <4>2, <3>1, <3>2, <1>9, <1>11, ZenonT(30)
    <3>3. CASE r # r0
      <4>1. y.type = m.type /\ y.entries[r] = m.entries[r]
        BY <3>3, <2>3, <1>5, <1>10, Zenon DEF SpRanks
      <4>2. About(y, r) <=> About(m, r)
        BY <4>1, Zenon DEF About
      <4> QED
        BY <4>2, <3>1, <3>3, <1>9, Zenon
    <3> QED
      BY <3>2, <3>3, Zenon
  <2>10. ASSUME NEW i \in DOMAIN t PROVE PeerMsgVer(p, d, t[i])
    <3>1. CASE i = 1
      <4>1. y.type # "revoke" /\ Uniform(y.entries, FirstSeq(y))
        BY <2>2, <2>3, SMTT(30)
      <4> QED
        BY <4>1, <3>1, <2>6, ZenonT(30) DEF PeerMsgVer
    <3>2. CASE i # 1
      BY <3>2, <2>6, <1>12, Zenon
    <3> QED
      BY <3>1, <3>2, Zenon
  <2> QED
    BY <2>1, <2>8, <2>9, <2>10, Zenon DEF PeerOK, hi
<1> QED
  BY <1>13, <1>14, Zenon

-----------------------------------------------------------------------------
(* The channels between an SP and its clients *)

\* An SP takes the next message of a rank.
LEMMA RankTaken ==
  ASSUME NEW S, NEW r, NEW ch \in Seq(S), ch # <<>>, NEW c, c.num \in Nat,
         NEW d, FromRanks(d, r) = Key(Head(ch)) + 1,
         NEW h, HostUp(h) \in Int, FromRankOK(r, ch, c, h)
  PROVE  FromRankOK(r, Tail(ch), d, h)
<1>1. FromRanks(c, r) \in Int
  <2>1. FromRanks(c, r) \in Nat
    BY PositionsInt, Zenon
  <2> QED
    BY <2>1
<1>2. /\ Key(Head(ch)) \in Nat /\ Key(Head(ch)) <= HostUp(h)
      /\ Stream(Tail(ch), Key(Head(ch)) + 1, HostUp(h))
  BY <1>1, StreamHead, Zenon DEF FromRankOK
<1>3. Key(Head(ch)) + 1 <= HostUp(h) + 1
  BY <1>2
<1> QED
  BY <1>2, <1>3, Zenon DEF FromRankOK

\* An SP sends nothing, or the next message, to a rank of the group,
LEMMA RankSent ==
  ASSUME NEW ch \in Seq(HostMsgs), NEW c, NEW d, c.num \in Nat, d.num \in Nat,
         SendsDown(c, d), d.toHosts \in Seq(HostMsgs),
         NEW h, HostFrom(h) \in Nat, ToRankOK(ch, c, h)
  PROVE  ToRankOK(ch \o d.toHosts, d, h)
<1>1. SpDown(c) \in Int /\ SpDown(d) \in Int
  BY PositionsInt, Zenon
<1>2. Stream(ch, HostFrom(h), SpDown(c)) /\ HostFrom(h) <= SpDown(c) + 1
  BY Zenon DEF ToRankOK
<1>3. CASE d.toHosts = <<>> /\ SpDown(c) <= SpDown(d)
  <2>1. ch \o d.toHosts = ch
    BY <1>3
  <2>2. HostFrom(h) <= SpDown(d) + 1 /\ HostFrom(h) <= HostFrom(h) /\ HostFrom(h) \in Int
    BY <1>1, <1>2, <1>3, SMTT(30)
  <2>3. Stream(ch, HostFrom(h), SpDown(d))
    BY <1>1, <1>2, <1>3, <2>2, StreamWeaken, ZenonT(30)
  <2> QED
    BY <2>1, <2>2, <2>3, Zenon DEF ToRankOK
<1>4. CASE SpDown(c) < SpDown(d) /\ \E m : d.toHosts = <<m>> /\ Key(m) = SpDown(d)
  <2>1. PICK m : d.toHosts = <<m>> /\ Key(m) = SpDown(d)
    BY <1>4, Zenon
  <2>2. /\ HostFrom(h) \in Int /\ SpDown(c) + 1 \in Int /\ SpDown(d) \in Nat /\ SpDown(c) + 1 <= SpDown(d)
        /\ SpDown(d) <= SpDown(d) /\ SpDown(c) <= SpDown(d) /\ HostFrom(h) <= SpDown(d) + 1
    BY <1>1, <1>2, <1>4, SMTT(30)
  <2>3. Stream(<<m>>, SpDown(c) + 1, SpDown(d))
    BY <1>1, <2>1, <2>2, StreamOne, ZenonT(30)
  <2>4. Stream(d.toHosts, SpDown(c) + 1, SpDown(d))
    BY <2>1, <2>3, Zenon
  <2>5. Stream(ch \o d.toHosts, HostFrom(h), SpDown(d))
    BY <1>1, <1>2, <2>2, <2>4, StreamConcat, ZenonT(30)
  <2> QED
    BY <2>2, <2>5, Zenon DEF ToRankOK
<1> QED
  BY <1>3, <1>4, Zenon DEF SendsDown

\* The elements of a concatenation come from its parts.
FromParts(a, b, t) ==
  \A i \in DOMAIN t : (i \in DOMAIN a /\ t[i] = a[i]) \/ \E j \in DOMAIN b : t[i] = b[j]

\* The elements of a concatenation.
LEMMA ConcatElements ==
  ASSUME NEW S, NEW a \in Seq(S), NEW b \in Seq(S)
  PROVE  FromParts(a, b, a \o b)
<1> DEFINE t == a \o b
<1>1. /\ t \in Seq(S) /\ Len(t) = Len(a) + Len(b) /\ Len(a) \in Nat /\ Len(b) \in Nat
      /\ \A k \in 1 .. Len(a) + Len(b) : t[k] = IF k <= Len(a) THEN a[k] ELSE b[k - Len(a)]
  BY ConcatProperties
<1> HIDE DEF t
<1>2. ASSUME NEW i \in DOMAIN t
      PROVE  (i \in DOMAIN a /\ t[i] = a[i]) \/ \E j \in DOMAIN b : t[i] = b[j]
  <2>1. i \in 1 .. Len(a) + Len(b)
    BY <1>1
  <2>2. CASE i <= Len(a)
    <3>1. i \in DOMAIN a /\ t[i] = a[i]
      BY <1>1, <2>1, <2>2, SMTT(30)
    <3> QED
      BY <3>1, Zenon
  <2>3. CASE ~(i <= Len(a))
    <3>1. i - Len(a) \in DOMAIN b /\ t[i] = b[i - Len(a)]
      BY <1>1, <2>1, <2>3, SMTT(30)
    <3> QED
      BY <3>1, Zenon
  <2> QED
    BY <2>2, <2>3, Zenon
<1> QED
  BY <1>2, Zenon DEF FromParts, t

\* and to its other clients.
LEMMA ClientSent ==
  ASSUME GroupSets, NEW ch \in Seq(HostMsgs), NEW c, NEW d, c.num \in Nat, d.num \in Nat,
         SendsDown(c, d), d.toHosts \in Seq(HostMsgs), ToOK(ch, c)
  PROVE  ToOK(ch \o d.toHosts, d)
<1> DEFINE z == d.toHosts
<1>1. SpDown(c) \in Int /\ SpDown(d) \in Int
  BY PositionsInt, Zenon
<1>2. SpDown(c) <= SpDown(d)
  <2>1. SpDown(c) <= SpDown(d) \/ SpDown(c) < SpDown(d)
    BY Zenon DEF SendsDown
  <2> QED
    BY <2>1, <1>1
<1>3. ASSUME NEW j \in DOMAIN z
      PROVE  (z[j].type = "entries" => Uniform(z[j].entries, FirstSeq(z[j]))) /\ Key(z[j]) <= SpDown(d)
  <2>1. z # <<>>
    BY <1>3
  <2>2. PICK m : z = <<m>> /\ Key(m) = SpDown(d) /\ (m.type = "entries" => Uniform(m.entries, FirstSeq(m)))
    BY <2>1, Zenon DEF SendsDown
  <2>3. z[j] = m /\ SpDown(d) <= SpDown(d)
    BY <2>2, <1>1, <1>3, SMTT(30)
  <2> QED
    BY <2>2, <2>3, Zenon
<1> HIDE DEF z
<1>4. ASSUME NEW i \in DOMAIN ch
      PROVE  (ch[i].type = "entries" => Uniform(ch[i].entries, FirstSeq(ch[i]))) /\ Key(ch[i]) <= SpDown(d)
  <2>1. (ch[i].type = "entries" => Uniform(ch[i].entries, FirstSeq(ch[i]))) /\ Key(ch[i]) <= SpDown(c)
    BY Zenon DEF ToOK
  <2>2. Key(ch[i]) \in Nat
    <3>1. ch[i] \in HostMsgs
      OBVIOUS
    <3> QED
      BY <3>1, KeyNat, Zenon DEF HostMsgs
  <2>3. Key(ch[i]) <= SpDown(d)
    BY <2>1, <2>2, <1>1, <1>2, SMTT(30)
  <2> QED
    BY <2>1, <2>3, Zenon
<1> DEFINE t == ch \o z
<1>5. FromParts(ch, z, t)
  <2>1. z \in Seq(HostMsgs)
    BY Zenon DEF z
  <2> QED
    BY <2>1, ConcatElements
<1> HIDE DEF t
<1>6. ASSUME NEW i \in DOMAIN t
      PROVE  (t[i].type = "entries" => Uniform(t[i].entries, FirstSeq(t[i]))) /\ Key(t[i]) <= SpDown(d)
  <2>1. (i \in DOMAIN ch /\ t[i] = ch[i]) \/ \E j \in DOMAIN z : t[i] = z[j]
    BY <1>5, Zenon DEF FromParts
  <2>2. CASE i \in DOMAIN ch /\ t[i] = ch[i]
    BY <2>2, <1>4, Zenon
  <2>3. CASE \E j \in DOMAIN z : t[i] = z[j]
    BY <2>3, <1>3, Zenon
  <2> QED
    BY <2>1, <2>2, <2>3, Zenon
<1>7. ToOK(t, d)
  BY <1>6, Zenon DEF ToOK
<1> QED
  BY <1>7, Zenon DEF t, z

-----------------------------------------------------------------------------
(* A step of an SP *)

\* With two SPs, the ranks that are not of one are of the other.
LEMMA SpsPaired ==
  ASSUME TwoSps, NEW p \in SP, NEW q \in SP, p # q
  PROVE  Pair(p, q)
<1>1. \A r \in Group : spOf[r] \in {p, q}
  <2>1. \A r \in Group : spOf[r] \in SP
    BY TopologyAssumption, Zenon DEF TopologyAssumption
  <2> QED
    BY <2>1, Zenon DEF TwoSps
<1>2. \A r : r \in Group \ SpRanks(p) <=> r \in SpRanks(q)
  BY <1>1, Zenon DEF SpRanks
<1>3. \A r : r \in Group \ SpRanks(q) <=> r \in SpRanks(p)
  BY <1>1, Zenon DEF SpRanks
<1>4. SpRanks(p) # {} /\ SpRanks(q) # {}
  BY Zenon DEF TwoSps
<1>5. Group \ SpRanks(p) = SpRanks(q)
  BY <1>2
<1>6. Group \ SpRanks(q) = SpRanks(p)
  BY <1>3
<1> QED
  BY <1>4, <1>5, <1>6, Zenon DEF Pair, Others

\* What is known of the two SPs and the channels between them.
LEMMA SpsBetween ==
  ASSUME IInv, VInv, NEW p \in SP, NEW q \in SP, p # q
  PROVE  Between(p, q, sp[p], sp[q], peer[q][p], peer[p][q])
<1>1. SpOK(p, sp[p]) /\ SpOK(q, sp[q]) /\ peer[q][p] \in Seq(PeerMsgs(q)) /\ peer[p][q] \in Seq(PeerMsgs(p))
  BY Zenon DEF IInv, SpPart, PeersOK
<1>2. SpVer(p, sp[p]) /\ SpVer(q, sp[q]) /\ PeerVer(p, q) /\ PeerVer(q, p)
  BY Zenon DEF VInv
<1> QED
  BY <1>1, <1>2, Zenon DEF Between, PeerVer

\* Caches that differ in the meta-events and in what is being sent.
Alike(c, d) == \A x \in SpFields \ {"ongoing", "toPeers", "toHosts"} : d[x] = c[x]

\* Caches that differ only in what VInv does not mention.
LEMMA AlikeFields ==
  ASSUME NEW c, NEW d, Alike(c, d)
  PROVE  /\ d.num = c.num /\ d.entries = c.entries /\ d.failed = c.failed /\ d.global = c.global
         /\ d.local = c.local /\ d.revoked = c.revoked /\ d.revoke_posted = c.revoke_posted
         /\ d.sp_ranks = c.sp_ranks /\ d.pending_adds = c.pending_adds
         /\ d.pending_entries = c.pending_entries
         /\ d.pending_revokes_from_sps = c.pending_revokes_from_sps
         /\ d.pending_revokes_from_ranks = c.pending_revokes_from_ranks
BY DEF Alike, SpFields, CommonFields

\* They are at the same version, and at the same place in all streams.
LEMMA AlikeVersion ==
  ASSUME NEW c, NEW d, Alike(c, d), NEW p
  PROVE  /\ SpVer(p, c) => SpVer(p, d)
         /\ d.num = c.num /\ d.revoked = c.revoked /\ d.entries = c.entries /\ Cur(d) = Cur(c)
         /\ SpUp(p, d) = SpUp(p, c) /\ SpDown(d) = SpDown(c)
         /\ \A r : FromRanks(d, r) = FromRanks(c, r) /\ FromPeer(d, r) = FromPeer(c, r)
<1>1. /\ d.num = c.num /\ d.entries = c.entries /\ d.failed = c.failed /\ d.global = c.global
      /\ d.local = c.local /\ d.revoked = c.revoked /\ d.revoke_posted = c.revoke_posted
      /\ d.sp_ranks = c.sp_ranks /\ d.pending_adds = c.pending_adds
      /\ d.pending_entries = c.pending_entries
      /\ d.pending_revokes_from_sps = c.pending_revokes_from_sps
      /\ d.pending_revokes_from_ranks = c.pending_revokes_from_ranks
  BY AlikeFields, Zenon
<1>2. Cur(d) = Cur(c) /\ SpUp(p, d) = SpUp(p, c) /\ SpDown(d) = SpDown(c)
  BY <1>1, SamePositions, Zenon
<1>3. \A r : FromRanks(d, r) = FromRanks(c, r)
  BY <1>1, <1>2, Zenon DEF FromRanks, Added
<1>4. \A r : FromPeer(d, r) = FromPeer(c, r)
  BY <1>1, <1>2, Zenon DEF FromPeer, Pending
<1>5. SpCore(p, c) => SpCore(p, d)
  BY <1>1, Zenon DEF SpCore, RanksCounted
<1>6. AddsVer(c) => AddsVer(d)
  BY <1>1, Zenon DEF AddsVer
<1>7. EntriesVer(c) => EntriesVer(d)
  BY <1>1, Zenon DEF EntriesVer
<1>8. RevokesVer(p, c) => RevokesVer(p, d)
  BY <1>1, Zenon DEF RevokesVer
<1> QED
  BY <1>1, <1>2, <1>3, <1>4, <1>5, <1>6, <1>7, <1>8, ZenonT(30) DEF SpVer

\* They are alike for the channels, too.
LEMMA AlikeChannels ==
  ASSUME NEW c, NEW d, Alike(c, d), NEW p
  PROVE  /\ \A q, ch, b : PeerOK(p, q, ch, c, b) => PeerOK(p, q, ch, d, b)
         /\ \A q, ch, b : PeerOK(q, p, ch, b, c) => PeerOK(q, p, ch, b, d)
         /\ \A r, ch, h : FromRankOK(r, ch, c, h) => FromRankOK(r, ch, d, h)
         /\ \A ch, h : ToRankOK(ch, c, h) => ToRankOK(ch, d, h)
         /\ \A ch : ToOK(ch, c) => ToOK(ch, d)
<1>1. /\ d.revoked = c.revoked /\ SpUp(p, d) = SpUp(p, c) /\ SpDown(d) = SpDown(c)
      /\ \A r : FromRanks(d, r) = FromRanks(c, r) /\ FromPeer(d, r) = FromPeer(c, r)
  BY AlikeVersion, Zenon
<1>2. ASSUME NEW q, NEW ch, NEW b, PeerOK(p, q, ch, c, b) PROVE PeerOK(p, q, ch, d, b)
  <2>1. \A m : PeerMsgVer(p, c, m) => PeerMsgVer(p, d, m)
    BY <1>1, Zenon DEF PeerMsgVer
  <2> QED
    BY <1>1, <1>2, <2>1, Zenon DEF PeerOK
<1>3. ASSUME NEW q, NEW ch, NEW b, PeerOK(q, p, ch, b, c) PROVE PeerOK(q, p, ch, b, d)
  BY <1>1, <1>3, Zenon DEF PeerOK
<1>4. ASSUME NEW r, NEW ch, NEW h, FromRankOK(r, ch, c, h) PROVE FromRankOK(r, ch, d, h)
  BY <1>1, <1>4, Zenon DEF FromRankOK
<1>5. ASSUME NEW ch, NEW h, ToRankOK(ch, c, h) PROVE ToRankOK(ch, d, h)
  BY <1>1, <1>5, ZenonT(30) DEF ToRankOK
<1>6. ASSUME NEW ch, ToOK(ch, c) PROVE ToOK(ch, d)
  BY <1>1, <1>6, ZenonT(30) DEF ToOK
<1> QED
  BY <1>2, <1>3, <1>4, <1>5, <1>6, ZenonT(30)

\* The cache that a handler leaves, once its messages are sent.
LEMMA CommitAlike ==
  ASSUME NEW p, NEW d, SpOK(p, d)
  PROVE  Alike(d, [d EXCEPT !.toPeers = <<>>, !.toHosts = <<>>])
<1>1. DOMAIN d = SpFields
  BY SpDomain, Zenon
<1>2. ASSUME NEW x \in SpFields \ {"ongoing", "toPeers", "toHosts"}
      PROVE  [d EXCEPT !.toPeers = <<>>, !.toHosts = <<>>][x] = d[x]
  BY <1>1, Zenon
<1> QED
  BY <1>2, Zenon DEF Alike

\* What is left of the channels from the ranks when p left the cache d.
RanksKept(p, d) ==
  /\ \A s \in SpRanks(p) : FromRankOK(s, fromRank'[s], d, host[s])
  /\ \A s \in Others(p) : fromRank'[s] = fromRank[s]

\* A handler of p leaves the cache d and sends its messages.  The message it
\* took came from a rank or from the other SP: net is what is left of the
\* channels between the SPs, and fromRank' that of those from the ranks.
LEMMA SpStepKeeps ==
  ASSUME GroupSets, TwoSps, IInv, VInv, NEW p \in SP, NEW d, SpOK(p, d),
         NEW R, NEW Q, NEW n, SpStep(p, sp[p], d, R, Q, n),
         Commit(p, d), NEW net, SendToPeers(p, d, net), UNCHANGED host,
         PeersOK(net), net[p] = peer[p],
         \A q \in SP : q # p => PeerOK(p, q, net[q][p], d, sp[q]),
         RanksKept(p, d)
  PROVE  VInv'
<1> DEFINE e == [d EXCEPT !.toPeers = <<>>, !.toHosts = <<>>]
<1>1. sp' = [sp EXCEPT ![p] = e]
  BY Zenon DEF Commit
<1>2. Alike(d, e)
  BY CommitAlike, Zenon
<1> HIDE DEF e
<1>3. /\ DOMAIN sp = SP /\ SpOK(p, sp[p]) /\ SpVer(p, sp[p]) /\ sp[p].num \in Nat /\ d.num \in Nat
      /\ d.toHosts \in Seq(HostMsgs)
  <2>1. DOMAIN sp = SP /\ SpOK(p, sp[p]) /\ SpVer(p, sp[p])
    BY Zenon DEF IInv, SpPart, VInv
  <2>2. d.toHosts \in Seq(HostMsgs)
    BY Zenon DEF SpOK, SpCaches
  <2> QED
    BY <2>1, <2>2, SpNumbers, Zenon
<1>4. sp'[p] = e /\ \A q \in SP : q # p => sp'[q] = sp[q]
  BY <1>1, <1>3, Zenon
<1>5. SpVer(p, d) /\ SendsUp(p, sp[p], d) /\ SendsDown(sp[p], d)
  BY Zenon DEF SpStep
<1>6. SpVer(p, e)
  BY <1>2, <1>5, AlikeVersion, Zenon
<1>7. /\ \A q, ch, b : PeerOK(p, q, ch, d, b) => PeerOK(p, q, ch, e, b)
      /\ \A q, ch, b : PeerOK(q, p, ch, b, d) => PeerOK(q, p, ch, b, e)
      /\ \A r, ch, h : FromRankOK(r, ch, d, h) => FromRankOK(r, ch, e, h)
      /\ \A ch, h : ToRankOK(ch, d, h) => ToRankOK(ch, e, h)
      /\ \A ch : ToOK(ch, d) => ToOK(ch, e)
  BY <1>2, AlikeChannels, Zenon
<1>8. \A q \in SP : SpVer(q, sp'[q])
  BY <1>4, <1>6, Zenon DEF VInv
<1>9. /\ \A q \in SP : q # p => peer'[q][p] = net[q][p]
      /\ \A q \in SP : q # p => peer'[p][q] = peer[p][q] \o d.toPeers
  BY Zenon DEF SendToPeers, PeersOK
<1>10. ASSUME NEW q \in SP, q # p
       PROVE  PeerOK(p, q, peer'[q][p], e, sp[q]) /\ PeerOK(q, p, peer'[p][q], sp[q], e)
  <2>1. PeerOK(p, q, peer'[q][p], e, sp[q])
    BY <1>7, <1>9, <1>10, Zenon
  <2>2. Pair(p, q) /\ Between(p, q, sp[p], sp[q], peer[q][p], peer[p][q])
    BY <1>10, SpsPaired, SpsBetween, Zenon
  <2>3. PeerOK(q, p, peer[p][q] \o d.toPeers, sp[q], d)
    BY <2>2, <1>5, OutgoingSent, Zenon
  <2> QED
    BY <2>1, <2>3, <1>7, <1>9, <1>10, ZenonT(30)
<1>11. ASSUME NEW a \in SP, NEW b \in SP, a # b
       PROVE  PeerOK(a, b, peer'[b][a], sp'[a], sp'[b])
  <2>1. a = p \/ b = p
    BY <1>11, Zenon DEF TwoSps
  <2> QED
    BY <2>1, <1>4, <1>10, <1>11, ZenonT(30)
<1>12. toRank' = [r \in Rank |-> IF r \in Clients(p) THEN toRank[r] \o d.toHosts ELSE toRank[r]]
  BY Zenon DEF Commit
<1>13. ASSUME NEW r \in Rank, spOf[r] = p
       PROVE  /\ toRank'[r] = toRank[r] \o d.toHosts /\ sp'[spOf[r]] = e
              /\ toRank[r] \in Seq(HostMsgs) /\ ToOK(toRank'[r], e)
  <2>1. toRank'[r] = toRank[r] \o d.toHosts /\ sp'[spOf[r]] = e
    BY <1>4, <1>12, <1>13, Zenon DEF Clients
  <2>2. toRank[r] \in Seq(HostMsgs) /\ ToOK(toRank[r], sp[p])
    BY <1>13, Zenon DEF IInv, ToPart, VInv, ToVer
  <2>3. ToOK(toRank[r] \o d.toHosts, d)
    BY <2>2, <1>3, <1>5, ClientSent, ZenonT(30)
  <2> QED
    BY <2>1, <2>2, <2>3, <1>7, ZenonT(30)
<1>14. ASSUME NEW r \in Rank, spOf[r] # p
       PROVE  toRank'[r] = toRank[r] /\ sp'[spOf[r]] = sp[spOf[r]]
  <2>1. spOf[r] \in SP
    BY TopologyAssumption, Zenon DEF TopologyAssumption
  <2> QED
    BY <2>1, <1>4, <1>12, <1>14, ZenonT(30) DEF Clients
<1>15. ASSUME NEW r \in Rank PROVE ToOK(toRank'[r], sp'[spOf[r]])
  BY <1>13, <1>14, Zenon DEF VInv, ToVer
<1>16. ASSUME NEW r \in Group
       PROVE  /\ HostVer(r, host[r]) /\ FromRankOK(r, fromRank'[r], sp'[spOf[r]], host[r])
              /\ ToRankOK(toRank'[r], sp'[spOf[r]], host[r])
  <2>1. r \in Rank /\ RankVer(r)
    BY TopologyAssumption, Zenon DEF TopologyAssumption, VInv
  <2>2. CASE spOf[r] = p
    <3>1. r \in SpRanks(p)
      BY <2>2, Zenon DEF SpRanks
    <3>2. FromRankOK(r, fromRank'[r], e, host[r])
      BY <3>1, <1>7, Zenon DEF RanksKept
    <3>3. HostFrom(host[r]) \in Nat
      <4>1. host[r].num \in Nat /\ host[r].global \in {0, 1}
        BY <2>1, Zenon DEF IInv, HostPart, HostOK, HostCaches, RankVer, HostVer
      <4> QED
        BY <4>1, HostRange, Zenon
    <3>4. ToRankOK(toRank[r], sp[p], host[r])
      BY <2>1, <2>2, Zenon DEF RankVer
    <3>5. ToRankOK(toRank[r] \o d.toHosts, d, host[r])
      BY <2>1, <2>2, <1>3, <1>5, <1>13, <3>3, <3>4, RankSent, ZenonT(30)
    <3> QED
      BY <2>1, <2>2, <3>2, <3>5, <1>7, <1>13, ZenonT(30) DEF RankVer
  <2>3. CASE spOf[r] # p
    <3>1. fromRank'[r] = fromRank[r]
      BY <2>3, Zenon DEF RanksKept, Others, SpRanks
    <3> QED
      BY <3>1, <2>1, <2>3, <1>14, ZenonT(30) DEF RankVer
  <2> QED
    BY <2>2, <2>3, Zenon
<1>17. \A r \in Group : RankVer(r)'
  BY <1>16, Zenon DEF RankVer
<1>18. \A r \in Rank : ToVer(r)'
  BY <1>15, Zenon DEF ToVer
<1>19. \A a, b \in SP : a # b => PeerVer(a, b)'
  BY <1>11, Zenon DEF PeerVer
<1> QED
  BY <1>8, <1>17, <1>18, <1>19, ZenonT(30) DEF VInv

-----------------------------------------------------------------------------
(* The messages of the ranks *)

\* The next add of a rank is about the version its SP is at, or the one after.
LEMMA AddInTurn ==
  ASSUME NEW r, NEW c, NEW h, NEW up, NEW down, RankOf(r, c, h, up, down),
         up # <<>>, Head(up).type = "add"
  PROVE  /\ Head(up) \in AddMsgs({r}) /\ Key(Head(up)) = 2 * Head(up).seq
         /\ \/ Head(up).seq = Cur(c) /\ r \notin Held(c.entries)
            \/ Head(up).seq = Cur(c) + 1 /\ c.revoked = Group
<1> DEFINE m == Head(up)
<1>1. /\ c.num \in Nat /\ Cur(c) \in Nat /\ Cur(h) \in Nat /\ HostUp(h) \in Int /\ HostFrom(h) \in Nat
      /\ SpDown(c) \in Int /\ FromRanks(c, r) \in Nat
      /\ HostFrom(h) <= SpDown(c) + 1 /\ 2 * Cur(h) <= HostFrom(h) /\ HostUp(h) <= 2 * Cur(h) + 1
      /\ SpDown(c) <= 2 * Cur(c) + 1 /\ 2 * Cur(c) <= FromRanks(c, r)
  BY RankBounds, Zenon
<1>2. up \in Seq(RankMsgs(r)) /\ Stream(up, FromRanks(c, r), HostUp(h)) /\ r \in Group
  BY Zenon DEF RankOf, FromRankOK
<1>3. /\ FromRanks(c, r) <= Key(m) /\ Key(m) <= HostUp(h) /\ m \in RankMsgs(r)
  <2>1. FromRanks(c, r) \in Int
    BY <1>1
  <2> QED
    BY <2>1, <1>1, <1>2, StreamHead, ZenonT(30)
<1>4. m \in AddMsgs({r}) /\ m.seq \in Nat
  <2>1. {r} \cap Group = {r}
    BY <1>2, Zenon
  <2>2. m \in AddMsgs({r} \cap Group)
    BY <1>3, Zenon DEF RankMsgs, RankRevokeMsgs
  <2> QED
    BY <2>1, <2>2, Zenon DEF AddMsgs, Version
<1>5. Key(m) = 2 * m.seq
  BY DEF Key
<1> HIDE DEF m
<1>6. m.seq = Cur(c) \/ (m.seq = Cur(c) + 1 /\ SpDown(c) >= 2 * Cur(c) + 1)
  <2>1. Cur(c) <= m.seq
    BY <1>1, <1>3, <1>4, <1>5, SMTT(30)
  <2>2. m.seq <= Cur(h)
    BY <1>1, <1>3, <1>4, <1>5, SMTT(30)
  <2>3. 2 * Cur(h) <= SpDown(c) + 1
    BY <1>1
  <2>4. m.seq <= Cur(c) + 1
    BY <1>1, <1>4, <2>2, <2>3, SMTT(30)
  <2>5. m.seq = Cur(c) + 1 => SpDown(c) >= 2 * Cur(c) + 1
    BY <1>1, <1>4, <2>2, <2>3, SMTT(30)
  <2>6. m.seq = Cur(c) \/ m.seq = Cur(c) + 1
    BY <1>1, <1>4, <2>1, <2>4, SMTT(30)
  <2> QED
    BY <2>5, <2>6, SMTT(30)
<1>7. m.seq = Cur(c) => r \notin Held(c.entries)
  <2>1. r \in Held(c.entries) => FromRanks(c, r) >= 2 * Cur(c) + 1
    BY <1>1, FromRanksCases, Zenon
  <2> QED
    BY <2>1, <1>1, <1>3, <1>4, <1>5, SMTT(30)
<1>8. SpDown(c) >= 2 * Cur(c) + 1 => c.revoked = Group
  BY <1>1, DownRange, Zenon
<1> QED
  BY <1>4, <1>5, <1>6, <1>7, <1>8, ZenonT(30) DEF m

\* The next revoke of a rank is about the version its SP holds, and holds completely.
LEMMA RankRevokeInTurn ==
  ASSUME NEW r, NEW c, NEW h, NEW up, NEW down, RankOf(r, c, h, up, down),
         up # <<>>, Head(up).type = "revoke"
  PROVE  /\ Head(up).rank = r /\ Head(up) \in RankRevokeMsgs(SpRanks(spOf[r]))
         /\ Key(Head(up)) = 2 * c.num + 1 /\ Head(up).seq = c.num
         /\ Held(c.entries) = Group /\ r \notin c.revoked
<1> DEFINE m == Head(up)
<1>1. /\ c.num \in Nat /\ Cur(c) \in Nat /\ Cur(h) \in Nat /\ HostUp(h) \in Int /\ HostFrom(h) \in Nat
      /\ SpDown(c) \in Int /\ FromRanks(c, r) \in Nat
      /\ HostFrom(h) <= SpDown(c) + 1 /\ 2 * Cur(h) <= HostFrom(h) /\ HostUp(h) <= 2 * Cur(h) + 1
      /\ SpDown(c) <= 2 * Cur(c) + 1 /\ 2 * Cur(c) <= FromRanks(c, r)
      /\ HostUp(h) >= 2 * Cur(h) + 1 => HostFrom(h) = 2 * Cur(h) + 1
  BY RankBounds, Zenon
<1>2. up \in Seq(RankMsgs(r)) /\ Stream(up, FromRanks(c, r), HostUp(h)) /\ r \in Group
  BY Zenon DEF RankOf, FromRankOK
<1>3. /\ FromRanks(c, r) <= Key(m) /\ Key(m) <= HostUp(h) /\ m \in RankMsgs(r)
  <2>1. FromRanks(c, r) \in Int
    BY <1>1
  <2> QED
    BY <2>1, <1>1, <1>2, StreamHead, ZenonT(30)
<1>4. m \in RankRevokeMsgs(SpRanks(spOf[r])) /\ m.rank = r /\ m.seq \in Nat
  <2>1. m \in RankRevokeMsgs({r} \cap Group)
    BY <1>3, Zenon DEF RankMsgs, AddMsgs
  <2> QED
    BY <2>1, Zenon DEF RankRevokeMsgs, SpRanks
<1>5. Key(m) = 2 * m.seq + 1
  BY DEF Key
<1> HIDE DEF m
<1>6. m.seq = Cur(c) /\ SpDown(c) >= 2 * Cur(c) /\ FromRanks(c, r) <= 2 * Cur(c) + 1
  <2>1. SpDown(c) >= 2 * m.seq
    BY <1>1, <1>3, <1>4, <1>5, SMTT(30)
  <2>2. Cur(c) <= m.seq
    BY <1>1, <1>3, <1>4, <1>5, SMTT(30)
  <2>3. m.seq <= Cur(c)
    BY <2>1, <1>1, <1>4, SMTT(30)
  <2>4. m.seq = Cur(c)
    BY <2>2, <2>3, <1>1, <1>4, SMTT(30)
  <2> QED
    BY <2>1, <2>4, <1>3, <1>5, SMTT(30)
<1>7. r \notin c.revoked
  <2>1. r \in c.revoked => FromRanks(c, r) >= 2 * Cur(c) + 2
    BY <1>1, FromRanksCases, Zenon
  <2> QED
    BY <2>1, <1>1, <1>6, SMTT(30)
<1>8. c.revoked = Group \/ Held(c.entries) = Group
  BY <1>1, <1>6, DownRange, Zenon
<1>9. Held(c.entries) = Group
  BY <1>2, <1>7, <1>8, Zenon
<1>10. Cur(c) = c.num
  BY <1>2, <1>9, Zenon DEF Cur
<1> QED
  BY <1>4, <1>5, <1>6, <1>7, <1>9, <1>10, ZenonT(30) DEF m

\* A handler that takes a message of rank r leaves the other channels alone.
LEMMA FromRankKept ==
  ASSUME IInv, VInv, NEW r \in Group, fromRank[r] # <<>>,
         fromRank' = [fromRank EXCEPT ![r] = Tail(@)],
         NEW d, FromRanks(d, r) = Key(Head(fromRank[r])) + 1,
         \A s \in SpRanks(spOf[r]) \ {r} : FromRanks(d, s) = FromRanks(sp[spOf[r]], s)
  PROVE  RanksKept(spOf[r], d)
<1>1. r \in Rank /\ r \in SpRanks(spOf[r]) /\ DOMAIN fromRank = Rank
  BY TopologyAssumption, Zenon DEF TopologyAssumption, IInv, FromPart, SpRanks
<1>2. fromRank'[r] = Tail(fromRank[r]) /\ \A s \in Rank : s # r => fromRank'[s] = fromRank[s]
  BY <1>1, Zenon
<1>3. FromRankOK(r, fromRank'[r], d, host[r])
  <2>1. RankOf(r, sp[spOf[r]], host[r], fromRank[r], toRank[r])
    BY RankState, Zenon
  <2>2. sp[spOf[r]].num \in Nat /\ HostUp(host[r]) \in Int
    BY <2>1, RankBounds, Zenon
  <2>3. fromRank[r] \in Seq(RankMsgs(r)) /\ FromRankOK(r, fromRank[r], sp[spOf[r]], host[r])
    BY <2>1, ZenonT(30) DEF RankOf
  <2>4. FromRankOK(r, Tail(fromRank[r]), d, host[r])
    BY <2>2, <2>3, RankTaken, SMTT(30)
  <2> QED
    BY <1>2, <2>4, Zenon
<1>4. ASSUME NEW s \in SpRanks(spOf[r]), s # r PROVE FromRankOK(s, fromRank'[s], d, host[s])
  <2>1. s \in Group /\ s \in Rank /\ spOf[s] = spOf[r]
    BY TopologyAssumption, Zenon DEF TopologyAssumption, SpRanks
  <2>2. FromRankOK(s, fromRank[s], sp[spOf[r]], host[s])
    BY <2>1, Zenon DEF VInv, RankVer
  <2>3. FromRanks(d, s) = FromRanks(sp[spOf[r]], s) /\ fromRank'[s] = fromRank[s]
    BY <1>2, <1>4, <2>1, ZenonT(30)
  <2> QED
    BY <2>2, <2>3, Zenon DEF FromRankOK
<1>5. ASSUME NEW s \in Others(spOf[r]) PROVE fromRank'[s] = fromRank[s]
  <2>1. s \in Rank /\ s # r
    BY <1>1, TopologyAssumption, Zenon DEF TopologyAssumption, Others
  <2> QED
    BY <2>1, <1>2, Zenon
<1> QED
  BY <1>3, <1>4, <1>5, Zenon DEF RanksKept

\* and one that takes none of a rank leaves them all alone.
LEMMA FromRanksKept ==
  ASSUME VInv, NEW p \in SP, UNCHANGED fromRank,
         NEW d, \A s \in SpRanks(p) : FromRanks(d, s) = FromRanks(sp[p], s)
  PROVE  RanksKept(p, d)
<1>1. ASSUME NEW s \in SpRanks(p) PROVE FromRankOK(s, fromRank[s], d, host[s])
  <2>1. FromRankOK(s, fromRank[s], sp[p], host[s])
    BY Zenon DEF VInv, RankVer, SpRanks
  <2> QED
    BY <2>1, Zenon DEF FromRankOK
<1> QED
  BY <1>1, Zenon DEF RanksKept

\* A handler that takes no message of another SP.
LEMMA PeersKept ==
  ASSUME GroupSets, TwoSps, IInv, VInv, NEW p \in SP, NEW d, NEW R, NEW n, SpStep(p, sp[p], d, R, {}, n)
  PROVE  \A q \in SP : q # p => PeerOK(p, q, peer[q][p], d, sp[q])
<1> SUFFICES ASSUME NEW q \in SP, q # p PROVE PeerOK(p, q, peer[q][p], d, sp[q])
  BY Zenon
<1>1. Pair(p, q) /\ Between(p, q, sp[p], sp[q], peer[q][p], peer[p][q])
  BY SpsPaired, SpsBetween, Zenon
<1> QED
  BY <1>1, IncomingSame, Zenon

-----------------------------------------------------------------------------
(* The meta-events of an SP *)

\* The meta-events that are still to complete play no part in a step.
LEMMA AlikeStep ==
  ASSUME NEW a, NEW c, Alike(a, c), NEW p, NEW d, NEW R, NEW Q, NEW n, SpStep(p, c, d, R, Q, n)
  PROVE  SpStep(p, a, d, R, Q, n)
<1>1. /\ c.num = a.num /\ c.revoked = a.revoked /\ c.entries = a.entries
      /\ SpUp(p, c) = SpUp(p, a) /\ SpDown(c) = SpDown(a)
      /\ \A r : FromRanks(c, r) = FromRanks(a, r) /\ FromPeer(c, r) = FromPeer(a, r)
  BY AlikeVersion, Zenon
<1>2. \A m : UpMsg(p, c, m) => UpMsg(p, a, m)
  BY <1>1, Zenon DEF UpMsg
<1>3. SendsUp(p, a, d)
  <2>1. SendsUp(p, c, d)
    BY Zenon DEF SpStep
  <2> QED
    BY <1>1, <1>2, <2>1, Zenon DEF SendsUp
<1>4. SendsDown(a, d)
  <2>1. SendsDown(c, d)
    BY Zenon DEF SpStep
  <2> QED
    BY <1>1, <2>1, Zenon DEF SendsDown
<1> QED
  BY <1>1, <1>3, <1>4, Zenon DEF SpStep

-----------------------------------------------------------------------------
(* The messages of the other SP *)

\* The next revoke of the other SP is about the version the SP holds, and holds
\* completely; it is the first one about it.
LEMMA SpRevokeInTurn ==
  ASSUME NEW p, NEW q, Pair(p, q), NEW c, NEW b, NEW xp, NEW xq, Between(p, q, c, b, xp, xq),
         xp # <<>>, Head(xp).type = "revoke"
  PROVE  /\ RevokeInTurn(p, c, Head(xp)) /\ Held(c.entries) = Group
         /\ Key(Head(xp)) = 2 * c.num + 1
<1> DEFINE m == Head(xp)
<1>1. /\ SpRanks(q) # {} /\ SpRanks(p) # {} /\ Others(p) = SpRanks(q) /\ SpRanks(p) \subseteq Group
      /\ SpVer(p, c) /\ PeerOK(p, q, xp, c, b) /\ xp \in Seq(PeerMsgs(q)) /\ c.num \in Nat /\ b.num \in Nat
  BY SpNumbers, Zenon DEF Pair, Between, SpRanks
<1>2. /\ SpUp(q, b) <= 2 * Cur(c) + 2 /\ SpUp(q, b) \in Int /\ Cur(c) \in Nat
      /\ SpUp(q, b) >= 2 * Cur(c) + 1 => SpRanks(p) \subseteq Held(c.entries) \/ SpRanks(p) \subseteq c.revoked
  BY <1>1, BetweenBound, PositionsInt, Zenon
<1>3. 1 \in DOMAIN xp /\ m = xp[1] /\ m \in PeerMsgs(q) /\ \A i \in DOMAIN xp : i # 1 => 1 < i
  BY <1>1
<1>4. m \in SpRevokeMsgs
  BY <1>3, Zenon DEF PeerMsgs, EntriesMsgs
<1>5. m.seq \in Nat /\ Key(m) = 2 * m.seq + 1
  BY <1>4, SMTT(30) DEF SpRevokeMsgs, Key
<1>6. /\ Key(m) <= SpUp(q, b) /\ PeerMsgVer(p, c, m)
      /\ \A r \in SpRanks(q) : FromPeer(c, r) <= Key(m)
  BY <1>1, <1>3, Zenon DEF PeerOK, Stream, RankStream, About
<1>7. m.type = "revoke"
  BY Zenon
<1> HIDE DEF m
<1>8. \A r : /\ FromPeer(c, r) \in Nat /\ FromPeer(c, r) >= 2 * Cur(c)
             /\ FromPeer(c, r) <= 2 * Cur(c) + 1 /\ Held(c.entries) # {}
                  => /\ r \notin Pending(c) /\ r \notin c.revoked
                     /\ c.pending_revokes_from_sps = <<>>
                     /\ r \notin Held(c.entries) => FromPeer(c, r) = 2 * Cur(c)
  BY <1>1, FromPeerCases, Zenon
<1>9. m.seq = Cur(c) /\ SpUp(q, b) >= 2 * Cur(c) + 1
  <2>1. PICK r \in SpRanks(q) : TRUE
    BY <1>1, Zenon
  <2>2. 2 * Cur(c) <= 2 * m.seq + 1
    BY <2>1, <1>2, <1>5, <1>6, <1>8, SMTT(30)
  <2>3. 2 * m.seq + 1 <= 2 * Cur(c) + 2
    BY <1>2, <1>5, <1>6, SMTT(30)
  <2>4. m.seq = Cur(c)
    BY <2>2, <2>3, <1>2, <1>5, SMTT(30)
  <2> QED
    BY <2>4, <1>5, <1>6, Zenon
<1>10. Held(c.entries) # {} /\ SpRanks(p) \subseteq Held(c.entries)
  <2>1. SpRanks(p) \subseteq c.revoked => Held(c.entries) = Group
    BY <1>1, RevokedFull, Zenon
  <2> QED
    BY <2>1, <1>1, <1>2, <1>9, ZenonT(30)
<1>11. Cur(c) = c.num
  BY <1>10, Zenon DEF Cur
<1>12. ASSUME NEW r \in SpRanks(q)
       PROVE  /\ r \notin Pending(c) /\ r \notin c.revoked /\ c.pending_revokes_from_sps = <<>>
              /\ r \in Held(c.entries)
  <2>1. FromPeer(c, r) <= 2 * Cur(c) + 1
    BY <1>5, <1>6, <1>9, ZenonT(30)
  <2>2. r \in Held(c.entries)
    <3> SUFFICES ASSUME r \notin Held(c.entries) PROVE FALSE
      BY Zenon
    <3>1. FromPeer(c, r) = 2 * Cur(c)
      BY <2>1, <1>8, <1>10, ZenonT(30)
    <3>2. 2 * Cur(c) \in FromPeer(c, r) .. SpUp(q, b)
      BY <3>1, <1>2, <1>9, SMTT(30)
    <3>3. PICK i \in DOMAIN xp : Key(xp[i]) = 2 * Cur(c)
      BY <3>2, <1>1, Zenon DEF PeerOK, RankStream
    <3>4. Key(m) = 2 * Cur(c) + 1
      BY <1>5, <1>9, Zenon
    <3>5. i # 1
      BY <3>3, <3>4, <1>2, <1>3, SMTT(30)
    <3>6. Key(m) < Key(xp[i])
      BY <3>5, <1>1, <1>3, ZenonT(30) DEF PeerOK, Stream
    <3> QED
      BY <3>3, <3>4, <3>6, <1>2, SMTT(30)
  <2> QED
    BY <2>1, <2>2, <1>8, <1>10, ZenonT(30)
<1>13. Held(c.entries) = Group
  <2>1. Held(c.entries) \subseteq Group
    BY Zenon DEF Held
  <2>2. \A r \in Group : r \in SpRanks(p) \/ r \in Others(p)
    BY Zenon DEF Others
  <2> QED
    BY <2>1, <2>2, <1>1, <1>10, <1>12, ZenonT(30)
<1>14. /\ Others(p) # {} /\ Others(p) \cap c.revoked = {} /\ Others(p) \cap Pending(c) = {}
       /\ c.pending_revokes_from_sps = <<>>
  BY <1>1, <1>12, Zenon
<1>15. RevokeInTurn(p, c, m)
  BY <1>4, <1>6, <1>7, <1>9, <1>11, <1>14, ZenonT(30) DEF RevokeInTurn, PeerMsgVer
<1> QED
  BY <1>5, <1>9, <1>11, <1>13, <1>15, ZenonT(30) DEF m

\* The channels net are those between the SPs with t as the one from q to p.
Taken(p, q, t, net) == PeersOK(net) /\ net[p] = peer[p] /\ net[q][p] = t

\* A message that p takes off the channel from q, or shortens.
LEMMA ChannelTaken ==
  ASSUME IInv, NEW p \in SP, NEW q \in SP, p # q, NEW t \in Seq(PeerMsgs(q)),
         NEW net, net = [peer EXCEPT ![q][p] = t]
  PROVE  Taken(p, q, t, net)
<1>1. /\ DOMAIN peer = SP
      /\ \A a \in SP : /\ DOMAIN peer[a] = SP /\ peer[a][a] = <<>>
                       /\ \A b \in SP : peer[a][b] \in Seq(PeerMsgs(a))
  BY Zenon DEF IInv, PeersOK
<1> DEFINE y == [peer[q] EXCEPT ![p] = t]
<1>2. DOMAIN y = SP /\ y[p] = t /\ \A b \in SP : b # p => y[b] = peer[q][b]
  BY <1>1, Zenon
<1>3. net = [peer EXCEPT ![q] = y]
  BY <1>1, Zenon
<1> HIDE DEF y
<1>4. DOMAIN net = SP /\ net[q] = y /\ \A a \in SP : a # q => net[a] = peer[a]
  BY <1>1, <1>3, Zenon
<1>5. ASSUME NEW a \in SP
      PROVE  /\ DOMAIN net[a] = SP /\ net[a][a] = <<>>
             /\ \A b \in SP : net[a][b] \in Seq(PeerMsgs(a))
  BY <1>1, <1>2, <1>4, Zenon
<1> QED
  BY <1>2, <1>4, <1>5, Zenon DEF PeersOK, Taken

\* The entry f of rank r that is the first one of the message m: it is of the
\* version that the SP is at, and the SP has none of r yet, or it is of the next
\* version and the SP is revoking.
EntryDue(p, c, m, r, f) ==
  /\ r \in Others(p) /\ f \in [Group -> Nat] /\ Held(f) = {r}
  /\ FirstEntry(m) = EntriesMsg(f) /\ Key(m) + 1 = 2 * f[r] + 1
  /\ \/ f[r] = Cur(c) /\ r \notin Held(c.entries)
     \/ f[r] = Cur(c) + 1 /\ c.revoked # {}

\* The next entry of the other SP is due.
LEMMA EntryInTurn ==
  ASSUME GroupSets, NEW p, NEW q, Pair(p, q), NEW c, NEW b, NEW xp, NEW xq,
         Between(p, q, c, b, xp, xq), xp # <<>>, Head(xp).type = "entries",
         NEW r, r = FirstRank(Head(xp)), NEW f, f = Only({r}, Head(xp).entries)
  PROVE  EntryDue(p, c, Head(xp), r, f)
<1> DEFINE m == Head(xp)
<1>1. /\ SpRanks(p) # {} /\ Others(p) = SpRanks(q) /\ PeerOK(p, q, xp, c, b)
      /\ xp \in Seq(PeerMsgs(q)) /\ c.num \in Nat /\ b.num \in Nat
  BY SpNumbers, Zenon DEF Pair, Between
<1>2. /\ SpUp(q, b) <= 2 * Cur(c) + 2 /\ SpUp(q, b) \in Int /\ Cur(c) \in Nat
      /\ SpUp(q, b) >= 2 * Cur(c) + 2 => SpRanks(p) \subseteq c.revoked
  BY <1>1, BetweenBound, PositionsInt, Zenon
<1>3. 1 \in DOMAIN xp /\ m = xp[1] /\ m \in PeerMsgs(q)
  BY <1>1
<1>4. m \in EntriesMsgs(SpRanks(q))
  BY <1>3, Zenon DEF PeerMsgs, SpRevokeMsgs
<1>5. FirstEntry(m) = EntriesMsg(f)
  BY Zenon DEF FirstEntry
<1>6. r = Min(Held(m.entries)) /\ f = Only({r}, m.entries)
  BY Zenon DEF FirstRank
<1> HIDE DEF m
<1>7. /\ Key(m) = 2 * FirstSeq(m) /\ m.entries \in [Group -> Nat] /\ r \in Held(m.entries)
  BY <1>4, <1>6, KeyNat, Zenon
<1>8. r \in SpRanks(q) /\ r \in Group /\ m.entries[r] \in Nat /\ m.entries[r] # 0
  BY <1>4, <1>7, Zenon DEF EntriesMsgs, EntriesOf, Held
<1>9. f \in [Group -> Nat] /\ Held(f) = {r} /\ f[r] = m.entries[r]
  <2>1. 0 \in Nat
    OBVIOUS
  <2>2. f = [s \in Group |-> IF s \in {r} THEN m.entries[s] ELSE 0]
    BY <1>6, Zenon DEF Only
  <2>3. f \in [Group -> Nat] /\ f[r] = m.entries[r] /\ \A s \in Group : s # r => f[s] = 0
    BY <2>1, <2>2, <1>7, <1>8, Zenon
  <2> QED
    BY <2>3, <1>8, Zenon DEF Held
<1>10. Key(m) = 2 * f[r] /\ f[r] \in Nat
  BY <1>6, <1>7, <1>8, <1>9, Zenon DEF FirstSeq
<1>11. Key(m) <= SpUp(q, b) /\ FromPeer(c, r) <= Key(m)
  <2>1. About(xp[1], r)
    BY <1>3, <1>8, Zenon DEF About
  <2>2. RankStream(xp, r, FromPeer(c, r), SpUp(q, b)) /\ Stream(xp, 0, SpUp(q, b))
    BY <1>1, <1>8, Zenon DEF PeerOK
  <2> QED
    BY <2>1, <2>2, <1>3, Zenon DEF Stream, RankStream
<1>12. /\ FromPeer(c, r) \in Nat /\ FromPeer(c, r) >= 2 * Cur(c)
       /\ FromPeer(c, r) <= 2 * Cur(c) => r \notin Held(c.entries)
  BY <1>1, FromPeerCases, ZenonT(30)
<1>13. f[r] = Cur(c) \/ f[r] = Cur(c) + 1
  BY <1>2, <1>10, <1>11, <1>12, SMTT(30)
<1>14. CASE f[r] = Cur(c)
  <2>1. r \notin Held(c.entries)
    BY <1>10, <1>11, <1>12, <1>14, Zenon
  <2> QED
    BY <2>1, <1>1, <1>5, <1>8, <1>9, <1>10, <1>14, ZenonT(30) DEF m, EntryDue
<1>15. CASE f[r] = Cur(c) + 1
  <2>1. SpUp(q, b) >= 2 * Cur(c) + 2
    BY <1>2, <1>10, <1>11, <1>15, SMTT(30)
  <2>2. c.revoked # {}
    BY <2>1, <1>1, <1>2, Zenon
  <2> QED
    BY <2>2, <1>1, <1>5, <1>8, <1>9, <1>10, <1>15, ZenonT(30) DEF m, EntryDue
<1> QED
  BY <1>13, <1>14, <1>15, Zenon

\* The cache that peer_cache_entries_recv_cb leaves.
LEMMA PeerEntriesOK ==
  ASSUME GroupSets, NEW p \in SP, NEW c, SpOK(p, c), NEW m \in EntriesMsgs(Group \ SpRanks(p)),
         NEW d, d = PeerEntriesRecv(p, c, m)
  PROVE  SpOK(p, d)
<1> DEFINE F == Unless(FirstSeq(m) >= c.num, "entries_seq")
           e == CheckEntriesSeq(c, m)
           x == Append(e.pending_entries, m)
           w == [e EXCEPT !.pending_entries = x]
<1>1. d = IF MustQueueEntries(e, m) THEN QueueEntries(e, m) ELSE HandlePeerEntries(p, e, m.entries)
  BY Zenon DEF PeerEntriesRecv
<1>2. F \in SUBSET (Names \ {"cache_populated", "revoke_posted"})
  BY Zenon DEF Unless, Names
<1>3. e = [c EXCEPT !.failed = @ \cup F] /\ m.entries \in EntriesOf(Group \ SpRanks(p))
  BY Zenon DEF CheckEntriesSeq, EntriesMsgs
<1> HIDE DEF F, e
<1>4. SpOK(p, e)
  BY <1>2, <1>3, FailOK, SMTT(30)
<1>5. e.global \in Nat
  BY <1>4, Zenon DEF SpOK, SpCaches
<1>6. QueueEntries(e, m) = w
  BY <1>4, Zenon DEF QueueEntries, SpOK, SpCaches
<1>7. SpOK(p, w)
  <2>1. x \in Seq(EntriesMsgs(Group \ SpRanks(p)))
    BY <1>4 DEF SpOK, SpCaches
  <2> HIDE DEF x
  <2>2. w \in SpCaches(p)
    BY <1>4, <2>1, Zenon DEF SpOK, SpCaches
  <2>3. SameForInv(e, w)
    BY <1>4, Zenon DEF SameForInv, SpOK, SpCaches
  <2> HIDE DEF w
  <2> QED
    BY <1>4, <2>2, <2>3, SameForInvOK, ZenonT(30) DEF SpOK
<1> HIDE DEF w
<1>8. CASE MustQueueEntries(e, m)
  BY <1>1, <1>6, <1>7, <1>8, Zenon
<1>9. CASE ~MustQueueEntries(e, m)
  <2>1. e.global = 0
    BY <1>5, <1>9 DEF MustQueueEntries
  <2>2. SpOK(p, HandlePeerEntries(p, e, m.entries))
    BY <2>1, <1>3, <1>4, HandlePeerEntriesOK, Zenon
  <2> QED
    BY <2>2, <1>1, <1>9, Zenon
<1> QED
  BY <1>8, <1>9, Zenon

-----------------------------------------------------------------------------
(* The actions of an SP: the messages of the ranks *)

\* add_group_rank_recv_cb.
LEMMA RecvAddKeeps ==
  ASSUME GroupSets, HandlersInTurn, TwoSps, IInv, VInv, NEW r \in Rank, RecvAdd(r)
  PROVE  VInv' /\ SpActs
<1> DEFINE p == spOf[r]
           m == Head(fromRank[r])
           c == sp[p]
           d == AddRecv(p, c, r, m)
<1>1. fromRank[r] # <<>> /\ m.type = "add" /\ fromRank' = [fromRank EXCEPT ![r] = Tail(@)] /\ UNCHANGED host
  BY Zenon DEF RecvAdd
<1>2. Commit(p, d) /\ SendToPeers(p, d, peer)
  BY Zenon DEF RecvAdd, AddRecv
<1>3. p \in SP
  BY TopologyAssumption, Zenon DEF TopologyAssumption
<1>4. m \in RankMsgs(r)
  BY <1>1, RankMsgOK, Zenon
<1>5. r \in Group
  BY <1>1, <1>4, Zenon DEF RankMsgs, AddMsgs, RankRevokeMsgs
<1>6. RankOf(r, c, host[r], fromRank[r], toRank[r])
  BY <1>5, RankState, Zenon
<1>7. /\ m \in AddMsgs({r}) /\ Key(m) = 2 * m.seq
      /\ \/ m.seq = Cur(c) /\ r \notin Held(c.entries)
         \/ m.seq = Cur(c) + 1 /\ c.revoked = Group
  BY <1>1, <1>6, AddInTurn, Zenon
<1>8. SpReady(p, c)
  BY <1>3, Zenon DEF SpReady, IInv, SpPart, VInv
<1>9. r \in SpRanks(p)
  BY <1>5, Zenon DEF SpRanks
<1> HIDE DEF m, c, p
<1>10. m.seq \in Nat /\ m.seq >= c.num
  <2>1. m.seq \in Nat
    BY <1>7, Zenon DEF AddMsgs, Version
  <2>2. c.num \in Nat /\ Cur(c) \in Nat /\ (Cur(c) = c.num \/ Cur(c) = c.num + 1)
    BY <1>8, SpNumbers, PositionsInt, Zenon DEF Cur, SpReady
  <2> QED
    BY <1>7, <2>1, <2>2, SMTT(30)
<1>11. SpOK(p, d) /\ SpStep(p, c, d, {r}, {}, 2 * m.seq + 1)
  <2>1. AddsInTurn
    BY Zenon DEF HandlersInTurn
  <2> QED
    BY <2>1, <1>3, <1>7, <1>8, <1>9, <1>10, ZenonT(30) DEF AddsInTurn
<1>12. SpStep(p, c, d, {r}, {}, 2 * m.seq + 1)
  BY <1>11, Zenon
<1> HIDE DEF d
<1>13. /\ FromRanks(d, r) = Key(m) + 1
       /\ \A s \in SpRanks(p) \ {r} : FromRanks(d, s) = FromRanks(c, s)
  BY <1>7, <1>12, Zenon DEF SpStep
<1>14. RanksKept(p, d)
  BY <1>1, <1>5, <1>13, FromRankKept, Zenon DEF p, c, m
<1>15. SpStep(p, sp[p], d, {r}, {}, 2 * m.seq + 1)
  BY <1>12, Zenon DEF c
<1>16. \A q \in SP : q # p => PeerOK(p, q, peer[q][p], d, sp[q])
  BY <1>3, <1>15, PeersKept, Zenon
<1>17. PeersOK(peer)
  BY Zenon DEF IInv
<1>18. VInv'
  BY <1>1, <1>2, <1>3, <1>11, <1>14, <1>15, <1>16, <1>17, SpStepKeeps, ZenonT(30)
<1>19. SpActs
  BY <1>1, <1>2, <1>3, <1>11, Zenon DEF SpActs
<1> QED
  BY <1>18, <1>19, Zenon

\* revoke_group_from_rank_recv_cb.
LEMMA RecvRankRevokeKeeps ==
  ASSUME GroupSets, HandlersInTurn, TwoSps, IInv, VInv, NEW r \in Rank, RecvRankRevoke(r)
  PROVE  VInv' /\ SpActs
<1> DEFINE p == spOf[r]
           m == Head(fromRank[r])
           c == sp[p]
           d == HandleRankRevoke(c, m)
<1>1. fromRank[r] # <<>> /\ m.type = "revoke" /\ fromRank' = [fromRank EXCEPT ![r] = Tail(@)] /\ UNCHANGED host
  BY Zenon DEF RecvRankRevoke
<1>2. Commit(p, d) /\ SendToPeers(p, d, peer)
  BY Zenon DEF RecvRankRevoke
<1>3. p \in SP
  BY TopologyAssumption, Zenon DEF TopologyAssumption
<1>4. m \in RankMsgs(r)
  BY <1>1, RankMsgOK, Zenon
<1>5. r \in Group
  BY <1>1, <1>4, Zenon DEF RankMsgs, AddMsgs, RankRevokeMsgs
<1>6. RankOf(r, c, host[r], fromRank[r], toRank[r])
  BY <1>5, RankState, Zenon
<1>7. /\ m.rank = r /\ m \in RankRevokeMsgs(SpRanks(p))
      /\ Key(m) = 2 * c.num + 1 /\ m.seq = c.num
      /\ Held(c.entries) = Group /\ r \notin c.revoked
  BY <1>1, <1>6, RankRevokeInTurn, Zenon
<1>8. SpReady(p, c)
  BY <1>3, Zenon DEF SpReady, IInv, SpPart, VInv
<1>9. r \in SpRanks(p)
  BY <1>5, Zenon DEF SpRanks
<1> HIDE DEF m, c, p
<1>10. SpOK(p, d) /\ SpStep(p, c, d, {r}, {}, 2 * c.num + 2)
  <2>1. RankRevokesInTurn
    BY Zenon DEF HandlersInTurn
  <2> QED
    BY <2>1, <1>3, <1>7, <1>8, <1>9, ZenonT(30) DEF RankRevokesInTurn
<1>11. SpStep(p, c, d, {r}, {}, 2 * c.num + 2)
  BY <1>10, Zenon
<1> HIDE DEF d
<1>12. FromRanks(d, r) = 2 * c.num + 2 /\ \A s \in SpRanks(p) \ {r} : FromRanks(d, s) = FromRanks(c, s)
  BY <1>11, Zenon DEF SpStep
<1>13. FromRanks(d, r) = Key(m) + 1
  <2>1. c.num \in Nat
    BY <1>8, SpNumbers, Zenon DEF SpReady
  <2> QED
    BY <2>1, <1>7, <1>12
<1>14. RanksKept(p, d)
  BY <1>1, <1>5, <1>12, <1>13, FromRankKept, Zenon DEF p, c, m
<1>15. SpStep(p, sp[p], d, {r}, {}, 2 * c.num + 2)
  BY <1>11, Zenon DEF c
<1>16. \A q \in SP : q # p => PeerOK(p, q, peer[q][p], d, sp[q])
  BY <1>3, <1>15, PeersKept, Zenon
<1>17. PeersOK(peer)
  BY Zenon DEF IInv
<1>18. VInv'
  BY <1>1, <1>2, <1>3, <1>10, <1>14, <1>15, <1>16, <1>17, SpStepKeeps, ZenonT(30)
<1>19. SpActs
  BY <1>1, <1>2, <1>3, <1>10, Zenon DEF SpActs
<1> QED
  BY <1>18, <1>19, Zenon

-----------------------------------------------------------------------------
(* The meta-events of an SP *)

\* group_cache_send_to_local_ranks_cb and revoke_send_to_host_cb.
LEMMA MetaEventCompletedKeeps ==
  ASSUME GroupSets, HandlersInTurn, TwoSps, IInv, VInv, NEW p \in SP, NEW i \in DOMAIN sp[p].ongoing,
         MetaEventCompleted(p, i)
  PROVE  VInv' /\ SpActs
<1> DEFINE c == sp[p]
           d == Completed(p, c, i)
<1>1. Commit(p, d) /\ SendToPeers(p, d, peer) /\ UNCHANGED <<host, fromRank>>
  BY Zenon DEF MetaEventCompleted, Completed
<1>2. SpReady(p, c)
  BY Zenon DEF SpReady, IInv, SpPart, VInv
<1>3. SpOK(p, d) /\ SpStep(p, c, d, {}, {}, 2 * c.num + 2)
  <2>1. CallbacksInTurn
    BY Zenon DEF HandlersInTurn
  <2> QED
    BY <2>1, <1>2, Zenon DEF CallbacksInTurn
<1> HIDE DEF d
<1>4. \A s \in SpRanks(p) : FromRanks(d, s) = FromRanks(sp[p], s)
  BY <1>3, Zenon DEF SpStep
<1>5. RanksKept(p, d)
  BY <1>1, <1>4, FromRanksKept, Zenon
<1>6. \A q \in SP : q # p => PeerOK(p, q, peer[q][p], d, sp[q])
  BY <1>3, PeersKept, Zenon
<1>7. PeersOK(peer)
  BY Zenon DEF IInv
<1>8. VInv'
  BY <1>1, <1>3, <1>5, <1>6, <1>7, SpStepKeeps, Zenon
<1>9. SpActs
  BY <1>1, <1>3, Zenon DEF SpActs
<1> QED
  BY <1>8, <1>9, Zenon

-----------------------------------------------------------------------------
(* The messages of the other SP *)

\* revoke_group_from_sp_recv_cb.
LEMMA RecvSpRevokeKeeps ==
  ASSUME GroupSets, HandlersInTurn, TwoSps, IInv, VInv, NEW p \in SP, NEW q \in SP, RecvSpRevoke(p, q)
  PROVE  VInv' /\ SpActs
<1> DEFINE x == peer[q][p]
           m == Head(x)
           c == sp[p]
           d == HandleSpRevoke(c, m)
           net == [peer EXCEPT ![q][p] = Tail(@)]
<1>0. net = [peer EXCEPT ![q][p] = Tail(x)]
  BY Zenon
<1>1. /\ x # <<>> /\ m.type = "revoke" /\ Commit(p, d) /\ SendToPeers(p, d, net)
      /\ UNCHANGED host /\ UNCHANGED fromRank
  BY Zenon DEF RecvSpRevoke
<1>2. p # q /\ x \in Seq(PeerMsgs(q)) /\ DOMAIN peer = SP /\ DOMAIN peer[q] = SP
  BY <1>1, Zenon DEF IInv, PeersOK
<1>3. Pair(p, q) /\ Between(p, q, c, sp[q], x, peer[p][q])
  BY <1>2, SpsPaired, SpsBetween, Zenon
<1>4. RevokeInTurn(p, c, m) /\ Held(c.entries) = Group /\ Key(m) = 2 * c.num + 1
  BY <1>1, <1>3, SpRevokeInTurn, Zenon
<1>5. SpReady(p, c)
  BY Zenon DEF SpReady, IInv, SpPart, VInv
<1>6. Tail(x) \in Seq(PeerMsgs(q))
  BY <1>1, <1>2
<1> HIDE DEF net
<1>7. Taken(p, q, Tail(x), net)
  BY <1>0, <1>2, <1>6, ChannelTaken, Zenon
<1> HIDE DEF m
<1>8. SpOK(p, d) /\ SpStep(p, c, d, {}, Others(p), 2 * c.num + 2)
  <2>1. SpRevokesInTurn
    BY Zenon DEF HandlersInTurn
  <2> QED
    BY <2>1, <1>4, <1>5, Zenon DEF SpRevokesInTurn
<1>9. SpStep(p, c, d, {}, Others(p), 2 * c.num + 2)
  BY <1>8, Zenon
<1>10. 2 * c.num + 2 = Key(m) + 1
  <2>1. c.num \in Nat
    BY <1>5, SpNumbers, Zenon DEF SpReady
  <2> HIDE DEF c
  <2> QED
    BY <2>1, <1>4
<1> HIDE DEF d
<1>11. SpStep(p, c, d, {}, Others(p), Key(m) + 1)
  BY <1>9, <1>10, Zenon
<1>12. PeerOK(p, q, Tail(x), d, sp[q])
  BY <1>1, <1>3, <1>11, IncomingRevoke, Zenon DEF m
<1>13. \A s \in SP : s # p => PeerOK(p, s, net[s][p], d, sp[s])
  <2>1. \A s \in SP : s # p => s = q
    BY <1>2, Zenon DEF TwoSps
  <2> QED
    BY <2>1, <1>7, <1>12, Zenon DEF Taken
<1>14. \A s \in SpRanks(p) : FromRanks(d, s) = FromRanks(sp[p], s)
  BY <1>9, Zenon DEF SpStep
<1>15. RanksKept(p, d)
  BY <1>1, <1>14, FromRanksKept, Zenon
<1>16. VInv'
  BY <1>1, <1>7, <1>8, <1>11, <1>13, <1>15, SpStepKeeps, ZenonT(30) DEF Taken
<1>17. SpActs
  BY <1>1, <1>8, Zenon DEF SpActs
<1> QED
  BY <1>16, <1>17, Zenon

\* peer_cache_entries_recv_cb.
LEMMA RecvPeerEntriesKeeps ==
  ASSUME GroupSets, HandlersInTurn, TwoSps, IInv, VInv, NEW p \in SP, NEW q \in SP, RecvPeerEntries(p, q)
  PROVE  VInv' /\ SpActs
<1> DEFINE x == peer[q][p]
           c == sp[p]
           r == FirstRank(Head(x))
           f == Only({r}, Head(x).entries)
           d == PeerEntriesRecv(p, c, FirstEntry(Head(x)))
           t == WithoutFirst(x)
           net == [peer EXCEPT ![q][p] = WithoutFirst(@)]
<1>1. net = [peer EXCEPT ![q][p] = t]
  BY Zenon
<1>2. /\ x # <<>> /\ Head(x).type = "entries" /\ Commit(p, d) /\ SendToPeers(p, d, net)
      /\ UNCHANGED host /\ UNCHANGED fromRank
  BY Zenon DEF RecvPeerEntries, PeerEntriesRecv
<1>3. p # q /\ x \in Seq(PeerMsgs(q))
  BY <1>2, Zenon DEF IInv, PeersOK
<1>4. Pair(p, q) /\ Between(p, q, c, sp[q], x, peer[p][q])
  BY <1>3, SpsPaired, SpsBetween, Zenon
<1>5. t \in Seq(PeerMsgs(q)) /\ Head(x) \in EntriesMsgs(SpRanks(q))
  BY <1>2, <1>3, WithoutFirstOK, Zenon
<1>6. FirstEntry(Head(x)) \in EntriesMsgs(Group \ SpRanks(p))
  BY <1>3, <1>5, FirstEntryOK, Zenon
<1> HIDE DEF net, t
<1>7. Taken(p, q, t, net)
  BY <1>1, <1>3, <1>5, ChannelTaken, Zenon
<1>8. SpReady(p, c)
  BY Zenon DEF SpReady, IInv, SpPart, VInv
<1>9. SpOK(p, d)
  BY <1>6, <1>8, PeerEntriesOK, Zenon DEF SpReady
<1> HIDE DEF f, r, x, c
<1>10. r = FirstRank(Head(x)) /\ f = Only({r}, Head(x).entries)
  BY Zenon DEF f, r
<1>11. /\ r \in Others(p) /\ f \in [Group -> Nat] /\ Held(f) = {r}
       /\ FirstEntry(Head(x)) = EntriesMsg(f) /\ Key(Head(x)) + 1 = 2 * f[r] + 1
       /\ \/ f[r] = Cur(c) /\ r \notin Held(c.entries)
          \/ f[r] = Cur(c) + 1 /\ c.revoked # {}
  <2>1. EntryDue(p, c, Head(x), r, f)
    BY <1>2, <1>4, <1>10, EntryInTurn, ZenonT(30)
  <2> QED
    BY <2>1, Zenon DEF EntryDue
<1>12. d = PeerEntriesRecv(p, c, EntriesMsg(f))
  BY <1>11, Zenon
<1> HIDE DEF d
<1>13. SpStep(p, c, d, {}, {r}, 2 * f[r] + 1)
  <2>1. EntriesInTurn
    BY Zenon DEF HandlersInTurn
  <2>2. SpOK(p, PeerEntriesRecv(p, c, EntriesMsg(f)))
    BY <1>9, <1>12, Zenon
  <2>3. SpStep(p, c, PeerEntriesRecv(p, c, EntriesMsg(f)), {}, {r}, 2 * f[r] + 1)
    BY <2>1, <2>2, <1>8, <1>11, Zenon DEF EntriesInTurn
  <2> QED
    BY <2>3, <1>12, Zenon
<1>14. SpStep(p, c, d, {}, {FirstRank(Head(x))}, Key(Head(x)) + 1)
  BY <1>10, <1>11, <1>13, Zenon
<1>15. PeerOK(p, q, t, d, sp[q])
  BY <1>2, <1>4, <1>14, IncomingEntry, Zenon DEF t
<1>16. \A s \in SP : s # p => PeerOK(p, s, net[s][p], d, sp[s])
  <2>1. \A s \in SP : s # p => s = q
    BY <1>3, Zenon DEF TwoSps
  <2> QED
    BY <2>1, <1>7, <1>15, Zenon DEF Taken
<1>17. SpStep(p, sp[p], d, {}, {r}, 2 * f[r] + 1)
  BY <1>13, Zenon DEF c
<1>18. \A s \in SpRanks(p) : FromRanks(d, s) = FromRanks(sp[p], s)
  BY <1>17, Zenon DEF SpStep
<1>19. RanksKept(p, d)
  BY <1>2, <1>18, FromRanksKept, Zenon
<1>20. VInv'
  BY <1>2, <1>7, <1>9, <1>16, <1>17, <1>19, SpStepKeeps, ZenonT(30) DEF Taken
<1>21. SpActs
  BY <1>2, <1>9, Zenon DEF SpActs
<1> QED
  BY <1>20, <1>21, Zenon

==============================================================================
