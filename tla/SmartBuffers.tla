----------------------------- MODULE SmartBuffers -----------------------------
(***************************************************************************)
(* The smart buffers: the buffers for the payloads of the notifications    *)
(* that UCX receives with its rendez-vous protocol.                        *)
(*                                                                         *)
(* Buckets of chunks of one size each share a first piece of memory.  A    *)
(* receive takes a chunk from the bucket for the size of its payload and   *)
(* returns it when it completes; receives complete in any order.  An empty *)
(* bucket grows, and a payload that is larger than all chunks gets a new   *)
(* bucket.  The buckets are in a dynamic array: when it is full, adding    *)
(* one may move it, and with it the heads of the lists of chunks.          *)
(***************************************************************************)
EXTENDS Integers, Sequences, FiniteSets, SequencesExt, FiniteSetsExt

CONSTANTS
  BucketSizes,   \* the sizes of the chunks of the initial buckets, ascending
  BucketMem,     \* the share of an initial bucket in the first piece of memory
  Page,          \* the size of a page
  Sizes,         \* the sizes of the payloads
  MaxHeld,       \* bound: the receives that are pending at a time
  MaxBuckets,    \* bound: the buckets, as long as their array is not moved
  MaxMems        \* bound: the pieces of memory

ASSUME SmartBuffersAssumption ==
  /\ BucketSizes \in Seq(Nat \ {0}) /\ BucketSizes # <<>>
  /\ BucketMem \in Nat /\ \A i \in DOMAIN BucketSizes : BucketSizes[i] <= BucketMem
  /\ Page \in Nat \ {0} /\ Sizes \subseteq Nat \ {0}
  /\ MaxHeld \in Nat \ {0} /\ MaxBuckets \in Nat /\ MaxMems \in Nat

VARIABLES
  buckets,   \* the buckets
  mems,      \* the sizes of the pieces of memory (base_mem_chunks)
  held,      \* the pending receives: the size of the payload and the chunk
  failed,    \* what ended the execution: a NULL pointer, or a moved array
  up         \* whether the smart buffers exist

vars == <<buckets, mems, held, failed, up>>

NumInit == Len(BucketSizes)

\* The capacity of the array for n buckets: it grows by its initial one, which
\* has an entry more than there are initial buckets.
Capacity(n) == (((n - 1) \div (NumInit + 1)) + 1) * (NumInit + 1)

-----------------------------------------------------------------------------
(* Operations on buckets.  A chunk is known by its bucket and its number    *)
(* there, and has its place in memory.                                      *)

\* The chunks numbered from..from + n - 1 of bucket i, on piece of memory m from
\* an offset on.
Chunks(i, size, from, n, m, off) ==
  [k \in 1..n |-> [bucket |-> i, seq |-> from + k - 1, size |-> size,
                   mem |-> m, off |-> off + (k - 1) * size]]

\* SMART_BUFFS_INIT, for one bucket.  (NoSys: sys is left NULL.)
MinSize(i) == IF i = 1 THEN 0 ELSE BucketSizes[i - 1] + 1
NoSys(i) ==
  LET n == BucketMem \div BucketSizes[i]
  IN  [min |-> MinSize(i), max |-> BucketSizes[i], sys |-> FALSE, initial_size |-> n, next |-> n,
       pool |-> Chunks(i, BucketSizes[i], 0, n, 1, (i - 1) * BucketMem)]
InitialBucket(i) ==
  LET n == BucketMem \div BucketSizes[i]
  IN  [min |-> MinSize(i), max |-> BucketSizes[i], sys |-> TRUE, initial_size |-> n, next |-> n,
       pool |-> Chunks(i, BucketSizes[i], 0, n, 1, (i - 1) * BucketMem)]

\* SMART_BUFFS_GROW_BUCKET on piece of memory m: every chunk is prepended.
GrowBucket(b, i, m) ==
  [b EXCEPT !.pool = Reverse(Chunks(i, b.max, b.next, b.initial_size, m, 0)) \o @,
            !.next = @ + b.initial_size]

\* The bucket for a size.  (Loose: the bucket only has to be large enough by
\* the size before.)
Loose(b, sz) == sz <= b.max + 1
Suits(b, sz) == b.min <= sz /\ sz <= b.max
BucketFor(bs, sz) ==
  IF \E i \in DOMAIN bs : Suits(bs[i], sz)
  THEN Min({i \in DOMAIN bs : Suits(bs[i], sz)})
  ELSE 0

\* The new bucket of SMART_BUFF_GET: as large as the page after the payload, or
\* twice as large as the last bucket.  Its memory is for two chunks, and there
\* are three; sys is not set.
NewMax(last, sz) == Max({((sz \div Page) + 1) * Page, 2 * last})
NewBucket(i, last, sz, m) ==
  LET max == NewMax(last, sz)
  IN  [min |-> last + 1, max |-> max, sys |-> FALSE, initial_size |-> 3, next |-> 3,
       pool |-> Chunks(i, max, 0, 3, m, 0)]

\* SMART_BUFF_RETURN: the chunk is prepended.  (Lost: it is not.)
Lost(b, c) == b
Returned(b, c) == [b EXCEPT !.pool = <<c>> \o @]

-----------------------------------------------------------------------------
(* The system *)

Init ==
  /\ buckets = [i \in 1..NumInit |-> InitialBucket(i)]
  /\ mems = <<NumInit * BucketMem>>
  /\ held = {}
  /\ failed = {}
  /\ up = TRUE

Running == up /\ failed = {}

\* The head of the pool of bucket i is for the receive.
Take(bs, i, sz) ==
  /\ buckets' = [bs EXCEPT ![i].pool = Tail(@)]
  /\ held' = held \union {[sz |-> sz, chunk |-> Head(bs[i].pool)]}

\* SMART_BUFF_GET: a bucket has a chunk,
GetChunk(sz) ==
  LET i == BucketFor(buckets, sz)
  IN  /\ Running /\ Cardinality(held) < MaxHeld
      /\ i # 0 /\ buckets[i].pool # <<>>
      /\ Take(buckets, i, sz)
      /\ UNCHANGED <<mems, failed, up>>

\* is empty and grows, for which it needs sys,
GetGrown(sz) ==
  LET i == BucketFor(buckets, sz)
      m == Len(mems) + 1
  IN  /\ Running /\ Cardinality(held) < MaxHeld
      /\ i # 0 /\ buckets[i].pool = <<>>
      /\ IF buckets[i].sys
         THEN /\ m <= MaxMems
              /\ mems' = Append(mems, buckets[i].initial_size * buckets[i].max)
              /\ Take([buckets EXCEPT ![i] = GrowBucket(@, i, m)], i, sz)
              /\ UNCHANGED failed
         ELSE /\ failed' = {"sys is NULL"}
              /\ UNCHANGED <<buckets, mems, held>>
      /\ UNCHANGED up

\* or there is none and a new one is added; the array may be moved.
GetOversize(sz) ==
  LET i == Len(buckets) + 1
      m == Len(mems) + 1
      b == NewBucket(i, Last(buckets).max, sz, m)
  IN  /\ Running /\ Cardinality(held) < MaxHeld
      /\ BucketFor(buckets, sz) = 0
      /\ \/ /\ i <= MaxBuckets /\ m <= MaxMems
            /\ mems' = Append(mems, 2 * b.max)
            /\ Take(Append(buckets, b), i, sz)
            /\ UNCHANGED failed
         \/ /\ i > Capacity(i - 1)
            /\ failed' = {"moved"}
            /\ UNCHANGED <<buckets, mems, held>>
      /\ UNCHANGED up

\* A receive completes: SMART_BUFF_RETURN with the size of its payload.
ReturnChunk(h) ==
  /\ Running
  /\ held' = held \ {h}
  /\ LET i == BucketFor(buckets, h.sz)
     IN  buckets' = [buckets EXCEPT ![i] = Returned(@, h.chunk)]
  /\ UNCHANGED <<mems, failed, up>>

\* SMART_BUFFS_FINI, once the UCX worker is gone and with it all receives.
Fini ==
  /\ Running
  /\ up' = FALSE
  /\ buckets' = <<>> /\ mems' = <<>> /\ held' = {}
  /\ UNCHANGED failed

Next ==
  \/ \E sz \in Sizes : GetChunk(sz) \/ GetGrown(sz) \/ GetOversize(sz)
  \/ \E h \in held : ReturnChunk(h)
  \/ Fini

Spec == Init /\ [][Next]_vars

-----------------------------------------------------------------------------
(* Properties *)

\* The third chunk of a bucket for larger payloads.
PastTheEnd(c) == c.bucket > NumInit /\ c.seq = 2

\* Two pending receives never write to the same memory, and none writes outside
\* of the memory that was allocated: the chunk is as large as the payload, and
\* its place is its own.  The third chunk of a new bucket lies past the end of
\* its memory; it is the only exception.
MemoryOwned ==
  \A h \in held :
    /\ h.sz <= h.chunk.size
    /\ h.chunk.off + h.chunk.size <= mems[h.chunk.mem] <=> ~ PastTheEnd(h.chunk)
    /\ \A g \in held \ {h} :
         h.chunk.mem = g.chunk.mem =>
           \/ h.chunk.off + h.chunk.size <= g.chunk.off
           \/ g.chunk.off + g.chunk.size <= h.chunk.off

\* Whatever the order in which chunks are taken and returned, while buckets grow
\* and are added: every chunk of a bucket is either in its pool, once, or held by
\* one receive.
ChunksConserved ==
  \A i \in DOMAIN buckets :
    LET pool  == ToSet(buckets[i].pool)
        inUse == {h.chunk : h \in {g \in held : g.chunk.bucket = i}}
    IN  /\ Cardinality(pool) = Len(buckets[i].pool)
        /\ Cardinality(inUse) = Cardinality({h \in held : h.chunk.bucket = i})
        /\ pool \intersect inUse = {}
        /\ {c.seq : c \in pool \union inUse} = 0..(buckets[i].next - 1)
        /\ \A c \in pool : c.bucket = i

\* Payloads for which there are initial buckets never fail: only a bucket for
\* larger payloads of which all three chunks are in use, or a second such
\* bucket.
OnlyOversizeFails ==
  /\ "sys is NULL" \in failed =>
       \E i \in DOMAIN buckets : /\ i > NumInit
                                 /\ Cardinality({h \in held : h.chunk.bucket = i}) = 3
  /\ "moved" \in failed => Len(buckets) > NumInit
=============================================================================
