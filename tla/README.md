# A TLA+ model of the DPU offload service

The library lets the ranks of a parallel job use *service processes* (SPs) that
run on the DPUs of their hosts. A rank is a client of the SPs of its host, an SP
is a server for its ranks, and the SPs are connected to each other. Everything
they say to each other goes through one notification system on top of UCX. On
top of it, ranks and SPs keep a cache of the endpoints of every group
(communicator), built when a group is created and forgotten when it is freed.

Line numbers below use these abbreviations:

| | |
|---|---|
| EC | `src/src/dpu_offload_event_channels.c` |
| GC | `src/src/dpu_offload_group_cache.c` |
| SD | `src/src/dpu_offload_service_daemon.c` |
| IC | `src/src/inter_dpus_comm.c` |
| UT | `src/src/dpu_offload_utils.c` |
| T  | `src/include/dpu_offload_types.h` |
| DS | `src/include/dynamic_structs.h` |

The exact lines behind every definition are in the `map` of `PROJECT.json`.

The build modelled is the default one: `USE_AM_IMPLEM` is 1 (active messages),
`OFFLOADING_MT_ENABLE` is 0 (the lock macros are empty, T:1237-1246, but the
connection thread is started all the same), and `configure.ac:64-70` defines
`NDEBUG`, so assertions are not evaluated. The models carry on after a failing
assertion and record it in a field `failed`, which `AssertionsHold` looks at.

## 1. The system

| Part | State | Operations | Interacts with | What is hard |
|---|---|---|---|---|
| Group cache | per group: entries, sequence number `num`, counters of entries and revokes, four pending lists | add, exchange of entries, sending the cache, revoke of a rank, revoke of an SP, final revoke, switch to the next version | notifications, meta-events | a rank may be two steps ahead of another; messages of the next version arrive before the last one is forgotten everywhere |
| Event system, sending | pool of events, list of ongoing events, sub-events of meta-events | get, emit, complete, progress, return | UCX requests, completion callbacks | a send completes at once, later or with an error; callbacks post events; an event must return to the pool once |
| Event system, receiving | handlers, default handlers, pending notifications | register, deregister, receive eager, receive rendezvous | execution contexts coming and going | a message arrives before its handler, or after its context is freed |
| Bootstrapping | slots of clients, counters of ongoing and connected clients, mailboxes | accept, three-step exchange, finalize, step 4 | connection thread and main thread | two threads share counters |
| Termination | active servers and clients, engine state | termination messages, their completions | group of all SPs, daemon | everyone waits for someone; the last one must notice |
| Connections between SPs | list of DPUs, configuration file, IDs, plan, counter of connections | parse, start the server, connect, accept, count, start the server for the host | bootstrapping, termination | every SP plans alone; the main thread blocks in `connect` while another thread accepts |
| Lookup tables | counters, bitsets, hash tables and tables of a group by SP and host | learn of a rank, populate, look up, reset | group cache | every process learns of the ranks in another order; three kinds of IDs |
| Smart buffers | buckets of chunks, pieces of memory | get, grow, add a bucket, return | rendezvous receives | chunks come back in any order; the array of buckets may move |
| Single-entry requests, configuration on hosts, operations, cross-GVMI registration, start-up scripts, debug | | | | see section 8 |

The main hazards the code is exposed to, with the lines where they bite and the
properties that cover them, are the `hazards` of `PROJECT.json`; section 6 has some more
that no property covers.

## 2. Modules

| Module | Models | About |
|---|---|---|
| `GroupCache` | the group handlers of EC (1496-2227), GC 23-443, the senders of `dpu_offload_utils.c` (38-802) and the macros around them | one group on all ranks and SPs |
| `GroupBarrier` | what `GroupCache` promises to ranks | abstract specification |
| `GroupCacheInvariant` | | the inductive invariants of `GroupCache` |
| `GroupCacheHandlers`, `GroupCacheSteps` | | lemmas: the handlers, and the steps for every setting |
| `GroupVersionHandlers`, `GroupVersionNet`, `GroupVersionHosts` | | lemmas: versions on SPs, on channels and in ranks |
| `GroupCacheProofs` | | theorems about `GroupCache` |
| `MCGroupCache` | | topologies for TLC |
| `EventSystem` | EC, the sending side | the pool of one execution context |
| `MCEventSystem` | | a pool for TLC |
| `Notifications` | EC, the receiving side | one process |
| `Bootstrap` | SD, the server and its two threads, and its clients | one server, several clients |
| `BootstrapProofs` | | theorems about `Bootstrap` |
| `LookupTables` | GC 445-1505 and 1679-1737, the macros of T (1735-1779, 2050-2377) | the cache of one group in one process |
| `MCLookupTables` | | placements of ranks for TLC |
| `SmartBuffers` | DS 535-911 | the buffers of one engine |
| `MCSmartBuffers` | | sizes for TLC |
| `Termination` | EC, IC | the handlers of termination, on all SPs |
| `Startup` | IC, UT 647-653 and 1226-1427, SD, the `job_persistent` daemon | extends `Termination`: the life of all SPs |
| `MCStartup` | | lists of DPUs and configuration files for TLC |
| `StartupProofs` | | theorems about `Startup` |
| `TerminationDaemon` | the main program of the `job_persistent` daemon | extends `Termination` |

### GroupCache

Variables: `sp[p]` is the cache an SP keeps of the group, `host[r]` the one of a
rank; `fromRank[r]`, `peer[p][q]` and `toRank[r]` are the messages on their way
between a rank and its SP and between SPs. The fields keep the names of the code
(`num`, `num_local_entries`, `global`, `pending_entries`,
`pending_revokes_from_ranks`, ...). `entries[r]` is the version an entry was
made for, 0 when it is not set: an entry is all data of a rank, of which the
protocol looks only at the rank and at the version.

| Action | Code |
|---|---|
| `Create(r)` | the rank adds itself to the group, `send_add_group_rank_request` |
| `Free(r)` | `send_revoke_group_rank_request_through_rank_info` |
| `RecvAdd(r)` | `add_group_rank_recv_cb` on the SP, with everything it triggers: pending entries, exchange with the SPs, sending the cache to the ranks |
| `RecvPeerEntries(p, q)` | `peer_cache_entries_recv_cb` on an SP |
| `RecvRankRevoke(r)` | `revoke_group_from_rank_recv_cb` |
| `RecvSpRevoke(p, q)` | `revoke_group_from_sp_recv_cb` on an SP |
| `MetaEventCompleted(p, i)` | the completion callback of a meta-event: the cache was sent to all ranks, or the revoke was |
| `RecvCache(r)` | `peer_cache_entries_recv_cb` on a rank |
| `RecvFinalRevoke(r)` | `revoke_group_from_sp_recv_cb` on a rank, with the add that waited for it |
| `Idle` | progress with nothing to do |

A handler is an operator from a cache to a cache, and an action applies one and
appends the messages it emits. `Persistent` is `MIMOSA_PERSISTENT_CACHE`;
`EagerFree` lets an application free a group before its cache is populated.
Meta-events of an SP complete in any order: `progress_econtext_sends` walks the whole
list of ongoing events, and a cache sent by rendezvous may take longer than a revoke
sent after it.

`GroupBarrier` says what a rank may rely on: it sees a version populated only
after all members created it, and revoked only after all freed it.
`ImplementsBarrier` is the refinement, with the mapping at the end of
`GroupCache`.

Abstractions. Channels are first in, first out, as UCX keeps the order of eager messages;
entries sent by rendezvous could be overtaken. The world group is populated and
all SPs are connected before groups are created, as the code requires. The
completion of a meta-event is always a step of its own. Pending adds and pending
entries are drained by `Merge`, which takes the list as a whole; the code walks it.

### EventSystem

Variables: `sys` is the pool (every event with its flags), the list of ongoing
events and the ghost fields; `emits` and `errors` count against the bounds.
Actions: `EmitEvent`, `EmitMetaEvent`, `SendCompletes` (`notification_emit_cb`),
`Progress` (`progress_econtext_sends`), `PollAndReturn` (`event_completed` and
`event_return` by the application). An emission has three outcomes, chosen by
`Oracle`: completed at once, pending, or failed. Completion callbacks do nothing
or post another event, as those of the library do. The next event of the free
list is the least free one.

### Notifications

Variables: `econtext` is the execution context, or that there is none;
`defaults` are the handlers contexts start with; `ev_sys` has the handlers and
the pending notifications; `wire` and `rdv` are the messages under way;
`dropped`, `emitted`, `changes` and `failed` are ghosts or count against bounds.
Actions: `RegisterDefault`, `Register`, `Deregister`, `Open`, `Close`, `EmitToSelf`,
`PeerEmits`, `ReceiveEager`, `PostRdv`, `ReceiveRdv`, `Idle`. Where the code would use a
null pointer the model goes on without the message and records it. There is one context
for a peer: how `get_associated_econtext` (EC:83-141) finds the one of a message by its
scope, sender and IDs is not modelled.

### Bootstrap

Variables: `counters` (ongoing, connected and total), `slot` (what the server knows of a
client), `thread` (where the connection thread is), `final` (a finalization in
progress), `client`, `mail` and `info` (what is being exchanged), `cached` (who was sent
the cache of the world group), `term`, `done`, `failed`, and the history variable
`overlapped`. Actions: `Accept`, `GenerateId`, `LoadOngoing`, `StoreOngoing` (connection
thread), `PostRecv`, `UcxRecv`, `SendInfo`, `Finalize`, `FinalizeOngoing`,
`FinalizeCounters`, `TermMsg` (main thread), `ClientSend`, `ClientReady`, `ClientFini`,
`Idle`.

Nothing keeps the two threads apart. In the default build `ECONTEXT_LOCK` is empty, and
`finalize_client_connection` is called without the lock in any build, so every access to
a shared counter is a step of its own: the two that `generate_unique_client_id` adds up
are read one after the other, in either order, and `num_ongoing_connections` is loaded
and stored in two steps by both threads, either of which may lose the update of the
other. `overlapped` becomes true, for good, when the connection thread is between
`accept` and the end of `oob_server_listen` at the same time as the main thread is in
`finalize_client_connection`. Statements that fail after such an overlap are made for
the behaviours before it (`IdsUniqueApart`, `OwnDataApart`, `ServerDone`); `OngoingBounded` and
`AssertionsHold` are made for all.

It is the server of the only SP of a job, for the ranks of its host; the server for other
SPs does the same without step 4. The finalization of the last rank completes the cache of
the world group, which is sent to the addresses in the first slots. A client terminates when it got
it, as the test programs do: the library does not enforce it. With more SPs the cache is
complete later, which delays departures and nothing else.

### Termination, Startup and TerminationDaemon

Variables of `Termination`: `sp` (counters and state of every SP), `term` (messages
on their way), `failed`. It has the handlers `RecvFromRank`, `RecvFromSp` and
`TermCompleted`, and is used twice.

`Startup` puts the establishment of the connections before them: one module for the
life of an SP from reading its configuration to its termination. Variables:
`config` (the file), `pc` (where the daemon is), `plan` (what an SP made of the
list), `link` and `slot` (a connection as its client and its server see it),
`accepting` (whether the connection thread runs), `connected`.

| Action | Code |
|---|---|
| `StartServer(i)` | `get_dpu_config` with `dpu_offload_parse_list_dpus`, and `inter_dpus_connect_mgr` up to its connections |
| `Connect(i)` | `connect_to_remote_service_proc`: the client's blocking `connect` and the server's `oob_server_listen` meet |
| `AllStarted(i)` | `connect_to_service_procs` returns |
| `SendBootstrap(i, j)` | `progress_client_econtext`, steps 1 to 3 |
| `ClientConnected(i, j)`, `ServerConnected(j, i)` | the two ends find the connection established, with `connected_to_server_dpu` and `client_service_proc_connected` |
| `StartHostServer(i)` | `all_service_procs_connected` is true: the server for the host |
| `RankLeaves(i)`, `SpLeaves(i, j)`, `LeaveCompleted(i, j)` | the handlers of `Termination` |

An SP may be any number of steps ahead of another. Where an SP connects follows from
the configuration: `Reached` says who listens at the address of a DPU and at the port
that was stored for a global ID. Ports are stored in the order of the file and read
in the order of the list, so a file in another order leads to nobody; the instances
contain such a file, and the liveness properties exclude it (`Consistent`). The
exchange of addresses (`Bootstrap`) is the one step `SendBootstrap` here.

`WorldFirst` says that a rank leaves only after the cache of its world group is
complete, for which all SPs have to be connected and have their ranks. The test
programs wait for it, the library does not enforce it.

SP i is a client of the SPs with higher IDs and a server for those with lower ones
(`Servers`, `Clients`); that the plans which SPs derive from the list come to this is
`PlansAgree`. Messages are handled between two passes of the progress function. A
negative counter stands for a `size_t` that wrapped. `TerminationDaemon` adds what the
`job_persistent` daemon does when the server for its host is done (`pc`; `Handlers`,
`LeaveLoop`, `FiniClient`, `ClientFreed`, `Exit`), from established connections on.

### LookupTables

One process and one group. Variables: `me` (an SP, a rank, or a rank in the world
group), `shadow` (the mapping of ranks to SPs), `gp` (its group cache), `version`,
`failed`. `GroupCache` models when a process learns of entries; here it learns of
them in any order, in the portions that messages have: `AddRank`, `RecvEntries` (an
SP), `HostAddLocalRank`, `HostConnected`, `RecvCache` (a rank), each with the whole
handler, including the population of the tables on an SP. `FirstLookup` populates
them in any process, at any time, from the entries there are: no lookup asks whether
the cache is complete (GC:488-497). The history variable `basis` is the set of ranks the
tables of this version come from, all of them unless a lookup came early. `Revoke` resets
everything. A rank of the world group adds itself when it is connected, and updates the topology
twice (SD:1909); the loop of `populate_sp_ranks` (GC:1210) then looks for one rank more than
there are and reads past the bitset, which the model has as a last entry `CRASH` of the table,
and in `failed`.

The lookups are operators with the names of the functions, over the tables as they
are. The reference is the mapping itself: `GroupSps`, `RanksOf`, `SpsOn`, `Position`.
A bitset is the set of its bits; that a bit is in the memory of its bitset is
`InBitset`. Each rank has one SP, as the library sets it up.

### SmartBuffers

Variables: `buckets`, `mems` (sizes of the pieces of memory), `held` (pending
receives), `failed`, `up`. Actions: `GetChunk`, `GetGrown`, `GetOversize` (the three
outcomes of `SMART_BUFF_GET`), `ReturnChunk`, `Fini`. A chunk is its bucket, its
number and its place in memory. Using a null pointer, or list heads in an array that
moved, ends the model: it is recorded in `failed`. The build switches smart buffers
off (`BUDDY_BUFFER_SYS_ENABLE` is 0); the module models the code behind the switch.

## 3. Runs

Passing runs (`tlc -config X.cfg M`). Deadlock is checked except in `LookupTables` and
`SmartBuffers`, which end where their bounds or the finalization end them:

| Run | Instance | What it shows |
|---|---|---|
| `GroupCachePairs` | 4 ranks on 2 SPs of 2 hosts, created and freed twice, not persistent | no cache mixes versions (`EntriesOfOneVersion`), a version is revoked only when all ranks freed it (`RevokeIsGlobal`), versions follow each other (`VersionStep`, `LifecycleInv`), no assertion fails (`AssertionsHold`); every creation completes, unless an SP took a version for sent that it had not sent (`CreateCompletes`; see below), in the end everything is forgotten (`EveryoneForgets`), and the ranks see two barriers per version (`ImplementsBarrier`) |
| `GroupCachePersistent` | 3 ranks on 2 SPs, persistent cache (the default) | the first version stays (`PersistentStays`) and reaches everyone (`PersistentPopulates`) |
| `EventSystem` | a pool of 5, 3 emissions, meta-events of up to 2 sub-events, 1 failing send, up to 2 events posted by callbacks | events in use are on one list and counted (`PoolConsistent`), callbacks happen once (`CallbackOnce`), meta-events are last (`MetaAfterSubs`), everything returns to the pool and is called back unless a send failed (`EventsReturned`, `CallbackInvoked`) |
| `Notifications` | 3 types, one of them internal, 3 messages, 2 changes of handlers | no message is lost or duplicated (`InOnePlace`), eager messages of a type are delivered in order (`DeliveredInOrder`), all eventually (`MessagesDelivered`) |
| `Bootstrap` | 3 clients, two threads that race | until an acceptance and a finalization overlap, IDs are unique (`IdsUniqueApart`) and a slot has the data of its client (`OwnDataApart`); if they never do, every client connects and leaves and the server gets done (`ServerDone`). Whatever overlaps, and even if updates are lost, the number of ongoing connections is never too high and does not wrap (`OngoingBounded`), the number of connected clients does not go below zero, and the server is done once (`AssertionsHold`) |
| `Startup` | 4 SPs on 2 DPUs with 2 ranks each, a file in the order of the list and one in another, each with a DPU the job does not use | the plans fit together (`PlansAgree`), an SP that counted its connections can reach everyone (`ReachesEveryone`), the counters of active servers and clients are right (`ActiveCounted`) and never taken below zero (`AssertionsHold`), nobody terminates too early (`TerminatedLast`), all SPs connect in whatever order they start (`EveryoneConnects`), every SP but the last terminates (`Terminates`) |
| `LookupTables` | every mapping of 4 ranks to 4 SPs on 2 hosts, in every SP, rank and rank of the world group, 2 versions | counters, bitsets and hash tables describe the entries (`TopologyCounted`), tables are those of the ranks they were built from, in all processes and versions, and a revocation ends them (`TablesRight`); with tables of the complete cache, lookups agree with the mapping and invert each other (`LookupsRight`; `SpLookupsRight` for groups of the first SPs of the job). The rank that counts itself twice is an exact exception in the first two: a rank too many in the counters, and a last entry that is no rank in the table. The lookups of that rank, which read it, are left out |
| `SmartBuffers` | 2 initial buckets, payloads of 4 sizes (one per bucket, two larger), 4 pending receives | pending receives have memory of their own (`MemoryOwned`), no chunk is lost or handed out twice (`ChunksConserved`), payloads with an initial bucket never fail (`OnlyOversizeFails`). The third chunk of an added bucket, past the end of its memory (DS:816), is an exact exception |

The bounds are named in the modules (`MaxCreates`, `MaxEmits`, `MaxSubs`,
`MaxErrors`, `MaxPosted`, `MaxMsgs`, `MaxChanges`, `SizeMax`, `NumSps`, `NumRanks`,
`MaxVersions`, `MaxHeld`, `MaxBuckets`, `MaxMems`).
Why they are enough:

- Two creations are the least number for which a version follows another, which is
  where messages of two versions meet; the protocol knows only the current version
  and the next. Two ranks per SP are needed for an SP to wait for its own ranks, two
  SPs for the exchange. Two SPs are not enough for everything: with three, an SP can relay
  what another one said. `GroupCacheThreeSps` shows that the protocol does not stand it, so
  `RevokeIsGlobal`, `AssertionsHold` and `ImplementsBarrier` are statements about groups with
  ranks on two SPs. For two ranks or more on each of them, they are also proved for any number
  of ranks and creations (section 5).
- In `EventSystem`, a meta-event with two sub-events, of which one completes before
  the other, and another event that uses what was returned meanwhile, fit in a pool
  of five. `Available` keeps an event for each one a callback will post, because the
  code's list grows where the model's pool does not.
- Three messages let a pending one be overtaken by one of the same type and by one of
  another; two changes let a handler be removed and registered again.
- Three clients: one finalized, one connecting and one accepted at the same time.
  `SizeMax` is large enough that a counter wraps only by going below zero. An ID is at most
  the sum of two counters, each less than the number of clients, so that slots up to that sum
  are enough even when IDs are skipped.
- With four SPs there are one that is only a client, one that is only a server, and
  two that are both; with two per DPU, connections within and between DPUs, and plans
  that begin in the middle of a DPU.
- Every mapping of four ranks to four SPs includes groups with gaps, SPs with several
  ranks, and hosts without any; the hosts alternate, so that no order of SPs is an order
  of hosts. Two versions show what a revocation leaves behind.
- Four receives exhaust an initial bucket, one that grew, and the three chunks of an
  added bucket; two larger sizes make the array of buckets full.

Violation runs, each with a finding in `PROJECT.json` that quotes the line of the
code it contradicts:

| Run | Property | What happens |
|---|---|---|
| `GroupCacheUninvolved` | `QueuedEntriesHandled` | An SP without a rank of the group queues the entries of the next version, since `is_group_ready` compares versions the wrong way round (EC:1509), and nothing handles its queue. |
| `GroupCacheThreeSps` | `RevokesOfThisVersion` | With ranks on three SPs, `group_cache_send_to_local_ranks_cb` counts the queued revokes of SP A on SP B (GC:83) before the ranks of B revoked; B's own revoke message then carries those of A too (UT:520). SP C ends the version with them and begins the next one while A's message is still on its way, and counts it for the new version: the number in the message is compared in assertions only (EC:1945). |
| `BootstrapRace` | `IdsUnique` | The connection thread adds up the counters while the main thread moves a client from one to the other, without the lock that the comment at SD:2603 asks for: two clients get the same ID (SD:2607 against SD:1546-1548). |
| `TerminationDaemon` | `ConnectedWhenTermArrives` | The daemon finalizes clients that already sent their termination message; the counter of the receiver goes below zero (EC:2279). |

Ten more disagreements can be reproduced by changing the constants or the invariant of a run:

| Change | Property | What happens |
|---|---|---|
| `GroupCachePairs` with `Rank = Group = {0, 1}` and `spOf <- SingleSpOf` | `AssertionsHold` | An SP with one rank of the group queues the entries of a peer, then gets the add of its rank, and sends the full cache twice (EC:1851-1852). A rank that freed the group meanwhile queues the second copy and stores it as the next version (GC:305). |
| `GroupCacheThreeSps`, with the invariant on the right | `RevokeIsGlobal` | The late message of `GroupCacheThreeSps` completes the set of revokes of the next version too early: an SP tells its ranks that all ranks revoked a version which one of them still uses. |
| `GroupCachePairs` with `Rank = Group = {0, 1}`, `spOf <- SingleSpOf`, `EagerFree = TRUE` and `MaxCreates = 1` | `QueuedRevokesHandled` | A revoke that arrives before the cache is populated is queued on a list that is never drained (EC:2099). |
| `GroupCachePairs`, with the invariant on the right | `SentAsRecorded` | `sent_to_host` is "the group sequence number for which it was sent" (T:1934-1936). `group_cache_send_to_local_ranks_cb` sets it to the version the cache is at when the sends complete (GC:79). If that is after the final revoke was sent, and the first rank was added to the next version, the SP takes the next version for sent when it is complete (GC:178) and its ranks never get it: `CreateCompletes` without its hypothesis `[]SentAsRecorded` fails too. |
| `LookupTables`, with the invariant on the right | `SpsInGroup` | "Lookup table for all the service processes that are actively part of the group" (T:2036): it is filled with the first SPs of the job instead of those in the group (GC:1282 uses the index in the table where the index of the bit is meant). |
| `LookupTables`, with the invariant on the right | `GroupIdsReturned` | `get_global_sp_id_by_group` (GC:466) and `get_nth_sp_by_group_host_idx` (GC:1002) return the ID of an SP in the job. The header says that it is the ID in the group, "a group assigning a contiguous set of identifiers to all service processs that are involved in the said group" (`dpu_offload_group_cache.h:309-315`, 587). |
| `LookupTables`, with the invariant on the right | `TablesCurrent` | A lookup before the cache is complete builds the tables from a part of it, for good (GC:488), although `dpu_offload_group_cache.h:298` says that building them "assumes the cache is fully ppopulated". |
| `LookupTables` with `NumRanks = 2` and `NumSps = 9` | `AccessesInBounds` | The bitsets of SPs have as many bits as the group has ranks, rounded up to a multiple of eight, and are indexed by IDs in the job (GC:1396). |
| `Notifications`, with the invariant on the right | `RdvAlwaysReceived` | A rendezvous message for a freed execution context is not received but dereferences it (EC:240, against the comment at EC:325). |
| `Startup` with three SPs of one rank, `ThreeDpus`, `ThreeDpuConfigs` and `WorldFirst = FALSE` | `AssertionsHold` | An SP leaves while another is not connected yet. The server between SPs is done too early, once more when the other leaves, and `servers.num_active` goes below zero (EC:2288). |

Every property of a passing run has a mutant in `PROJECT.json`: a plausible bug in
one definition, for which TLC finds the property violated.

## 4. Fairness

Ranks and SPs call the progress functions in loops (`offload_engine_progress`, the
`while` loop of the daemon, `client_fini`), and UCX delivers and completes what is
posted. This justifies weak fairness of handlers and completions.

- `GroupCache`: as long as something is in flight or ongoing, some library step is
  taken. Nothing is assumed of the application: the properties say that *if* all ranks
  created or freed the group, something follows. The formula is weak fairness of
  `Library`, written with `CanProgress` and `LibraryStep` because TLC evaluates it much
  faster (that the two agree was checked on the small instances); the violation runs, which are small, use `WF_vars(Library)` itself.
- `EventSystem`: sends complete, the context is progressed, and an application returns
  the events it manages. Again the weak fairness of three actions, spelled out.
- `Notifications`: receives happen. Registering a handler is not fair.
- `Bootstrap`: both threads run, and clients connect, progress and leave (`client_init`,
  `client_fini`).
- `Startup`: each SP takes a step when it can (weak fairness of `Step(i)`): daemons are
  started, repeat `connect` until they are accepted (SD:483-497), progress their engine in
  a loop, and their ranks leave. One condition per SP, not one per action: nothing is
  assumed on which of its steps an SP takes. An SP that waits to be accepted is enabled
  as long as the other's thread accepts.
- `LookupTables` and `SmartBuffers` have safety properties only.

`Idle` is a pass of the progress function that finds nothing to do. It makes a model
that is finished stutter rather than deadlock.

## 5. Proofs

### GroupCache

`GroupCacheProofs` proves, for every set of ranks and SPs, every placement of ranks on SPs,
every `MaxCreates`, both values of `EagerFree` and any order in which meta-events complete, except
where a hypothesis says otherwise:

| Theorem | Statement |
|---|---|
| `TypeCorrect` | `Spec => []TypeOK` |
| `LifecycleCorrect` | `Spec => []LifecycleInv` |
| `CountersCorrect` | `Spec => []EntriesCounted` |
| `SentCachesComplete` | `Spec => []CacheMsgsComplete` |
| `VersionsInTurn` | `Spec => VersionStep` |
| `FinalRevokesGlobal` | `ASSUME TwoSps, ~Persistent, ~EagerFree PROVE Spec => []RevokeIsGlobal` |
| `CacheIsBarrier` | `ASSUME TwoSps, ~Persistent, ~EagerFree PROVE Spec => ImplementsBarrier` |
| `RevokedAssertionsHold` | `ASSUME TwoSps, ~Persistent, ~EagerFree PROVE Spec => []AssertionsHold` |
| `RevokedOneVersion` | `ASSUME TwoSps, ~Persistent, ~EagerFree PROVE Spec => []EntriesOfOneVersion` |
| `PersistentAssertionsHold` | `ASSUME Persistent PROVE Spec => []AssertionsHold` |
| `PersistentOneVersion` | `ASSUME Persistent PROVE Spec => []EntriesOfOneVersion` |
| `PersistentCacheStays` | `ASSUME Persistent PROVE Spec => PersistentStays` |

The first five hold with and without a persistent cache; the last three are about the default
setting, in which a group is freed locally. The four in the middle are about caches that are revoked.
There assertions fail for some placements, and the hypotheses leave out those for which section 3
has a behaviour that goes wrong:

- `TwoSps`: there are one or two SPs, and each has two ranks of the group or more. With three SPs, a
  revoke is counted for another version (`GroupCacheThreeSps`); an SP with one rank may send the
  full cache twice.
- `~EagerFree`: ranks free a group that is populated. A revoke that comes earlier is never handled.

`GroupCachePairs` satisfies both of them. An SP may have any number of clients that are not in the group.

The only assumption is `TopologyAssumption`: ranks are finitely many natural numbers, the group is a
nonempty set of ranks, and every rank has an SP.

Neither `EntriesCounted` nor `VersionStep` is inductive. That an entry is counted once
depends on what the messages hold: an SP gets entries only of ranks of the sender, so
`n_local_ranks_populated`, which counts the SP's own ranks, stays right when entries of
peers are stored. That a version begins only when the last one ended depends on the
order in which a final revoke is posted and completed: `num` is `revoke_posted` or one
more; it is `revoke_posted` while the cache is empty; and there is one revoke ongoing at
most, during which the cache is not empty. These facts are `SpCacheInv` and
`HostCacheInv`. The inductive invariant `IInv` is `TypeOK` and `LifecycleInv`, arranged
by variable, so that an action needs to show only the parts it touches; both are
invariants of `GroupCachePairs`.

Handlers are operators on caches, and so are the lemmas: every operator keeps
`SpOK` (type and `SpCacheInv`) or `HostOK`, and says how it moves the version (`Forward`).
An action's lemma combines those of the handlers it calls; `NextOK` collects them. These lemmas
are in `GroupCacheHandlers` (the handlers that several modules need) and `GroupCacheSteps`. What they
need about finite sets of ranks is the hypothesis `GroupSets`, which `GroupCacheProofs` derives from
the library's theorems on cardinalities.

**Versions.** Nothing of the kind `RevokeIsGlobal` is inductive: that all ranks freed a version when
an SP has counted all revokes depends on which revokes can be in a channel, which in turn depends
on the caches at both of its ends. The second invariant, `VInv`, says where all processes and messages are
in relation to each other. Version n of a group makes two messages in each channel: its entries,
which get the key 2n, and its revoke, with the key 2n+1. The cache of a sender determines the last key it
has sent (`SpUp` to the other SP, `SpDown` to the ranks, `HostUp` from a rank); the cache of a receiver, with its
pending lists, the next key that it waits for (`FromPeer`, `FromRanks`, `HostFrom`). `VInv` says that

- a channel holds increasing keys from the one to the other (`Stream`), that the receiver is not
  more than one key behind what is in the channel, and, between SPs, that no message about a rank is missing
  (`RankStream`): entries of several ranks share a message, which the receiver takes one by one;
- a revoke of an SP covers all of its ranks, and besides them only ranks which the receiver knows to be
  revoked (`PeerMsgVer`): this is what fails with three SPs;
- an SP has entries of one version, has counted each revoke once, revokes only when the cache is complete,
  and has put off only adds and entries of the next version and at most one revoke (`SpVer`);
- a rank has its own entry or all of them, and its counters of calls agree with its version
  (`HostVer`).

A handler's lemma is about one cache (`SpStep`): the cache it leaves satisfies `SpVer`, the positions of
the senders whose message it took advance by one and those of others do not move, and what it sends is the next
key of its stream. They are in `GroupVersionHandlers`. `GroupVersionNet` shows that such a step keeps the streams of
all channels, for any handlers that are as `HandlersInTurn` says, and that the first message of a
channel is one the handlers wait for. `GroupVersionHosts` has the steps of ranks and of other clients, and the steps
of `GroupBarrier` that actions of `GroupCache` correspond to. `NextVersions` brings them together. Then no assertion fails because no
message is out of turn, and the barriers hold since a cache is only complete, or revoked, for a rank when the keys of all
others have gone as far. TLC checked `VInv` with four ranks on two SPs and two creations (31,077 states) and
with two ranks and a client outside the group on one SP and four creations (8,160).

**Clients outside the group.** An SP sends its messages about a group to all of its clients. `VInv` only says of a
client that is not in the group that the messages on their way to it are of one version each; its cache follows from
them in a way of its own. It stores the first version as it comes. After that `is_group_cache_ready_for` compares
the version of the cache with that of the entries, and nothing that such a client does moves its version on
before the entries come: it puts the entries of every later version off, and stores them when the revoke of that
version comes. The third invariant, `OInv`, is that such a client has no entries or all entries of one version,
that at most one message is put off, which holds all entries of the next version (`OutCache`), and that the channel to it
holds every key from the one that follows from its cache (`OutFrom`). The last part needs the ranks: `VInv` only
orders the keys of a channel, and an SP that skipped one would still satisfy it. But an SP never sends a key that
its ranks do not wait for (`MembersWait`, from `IInv` and `VInv`), so that the key of a message is the next one for
all clients, and `OutVer` counts them: what a client has taken and is yet to take is what each rank of the SP has. TLC
checked `OInv` and `MembersWait` on the second of the instances above, and with four ranks on two SPs, a client outside
the group and two creations (92,443 states). `NextOutside` proves them for all.

**Persistent caches.** These theorems need an invariant of their own beside `IInv`, `PInv` of `GroupCacheSteps`. It says that there is one version and that nobody ever learns of another: every
cache is empty or at version 1 with entries of version 1 (`FirstVersion`), no entries and
no revokes are queued, and every message on its way is an add, entries or a cache of version 1. The
message part is what makes it inductive: an entry of another version, or any revoke, in one channel
would reach a cache one step later. A handler that does nothing but add entries is shown to keep
`FirstVersion` and to lose nothing (`SpGrows`); `Grows` is the same for a step of the system, and
`PersistentStays` follows from it. TLC checked `PInv` on three ranks and three SPs, one of them
without a rank, with two creations.

### Startup

`StartupProofs` proves, for every list of DPUs, every number of SPs per DPU and of ranks and
every set of configuration files:

| Theorem | Statement |
|---|---|
| `NoAssertionFails` | `ASSUME WorldFirst PROVE Spec => []AssertionsHold` |
| `EnginesCountRight` | `ASSUME WorldFirst PROVE Spec => []ActiveCounted` |
| `CountedIsConnected` | `ASSUME WorldFirst PROVE Spec => []ReachesEveryone` |
| `TerminatesAfterItsClients` | `ASSUME WorldFirst PROVE Spec => []TerminatedLast` |

The assumptions on the constants are `TerminationAssumption` and `StartupAssumption`: there
is an SP and a rank, each DPU is once in the list and once in the file, with as many ports
as SPs. `WorldFirst` is needed: without it the assertions fail (the last
reproduction of section 3).

None of the four is inductive. An assertion fails when a counter is zero that should not be,
so one needs to know what the counters count. The inductive invariant `IInv` says, in four parts:

- `Types`, and `failed = {}`;
- `Counts`: `connected`, `peers` and `ongoing` of an SP are the cardinalities of sets of
  connections in certain states, and likewise the active clients;
- `PairInv`: for every two SPs, how far the client's end, the server's end, the message under
  way and the client's context can be apart;
- `SpInv`: for every SP, what `pc` says of its plan, its servers and its connections. Here
  `WorldFirst` enters: nobody left before all SPs were at `"run"`.

TLC checked `IInv` as an invariant of the instance of `Startup` before it was proved. From `Counts` and
`connected + 1 = NumSps` follows that the set of connections is everything
(`CountedIsConnected`), by the cardinality of a subset of the other SPs. That a server which is done has no
client left follows from the counts in the same way. There is one lemma per action. What they need about counting is
the hypothesis `SpCounting`, derived from the library's theorems at the end of the module. A step of such a lemma states the guards, what is unchanged, the new
values, the types and then the parts of the invariant.

That the plans of `PlansAgree` fit together is not proved: `ParseList` is a recursive function, and its
value for every list needs induction. The proofs use of a plan only whether `from` is positive.

### Bootstrap

`BootstrapProofs` proves, for every finite set of clients and every `SizeMax`:

| Theorem | Statement |
|---|---|
| `UniqueIds` | `ASSUME Countable PROVE Spec => []IdsUniqueApart` |
| `OwnDataOnly` | `ASSUME Countable PROVE Spec => []OwnDataApart` |
| `OngoingNeverTooHigh` | `ASSUME Countable PROVE Spec => []OngoingBounded` |
| `TermAssertionsHold` | `ASSUME Countable PROVE Spec => []AssertionsHold` |

`Countable` says that there are at most `SizeMax` clients: with more than a counter can
count, IDs repeat. Nothing is assumed about the threads, which race in every theorem.
The first two are about states that no overlap of an acceptance and a finalization came
before; after one IDs do repeat (`BootstrapRace`). The last two are about all states.

None of them is inductive. The inductive invariant `IInv` has a part for all states,
`RaceInv`, and one that holds until an overlap, `OrderInv`.

`RaceInv` bounds what a race can do to the counters:

- `OngoingInv`: `num_ongoing_connections`, and the copies of it that the threads loaded, are at most the
  number of clients accepted, and less while an increment is outstanding. A lost update leaves a
  counter that is too low, never one that is too high. A decrement starts from a copy that is
  not zero, since the main thread only reaches a slot when the counter is positive;
- `TotalInv`: `num_total_connected_clients`, which only the main thread changes, with the slots
  that are connecting and the updates under way, is at most the number of clients accepted. Two
  clients with the same ID share a slot, which makes it less;
- `LeaveInv`: clients leave after the total has reached the number of clients, so that all connections
  are finalized by then, and the server is done when all have departed.

`OrderInv` says that a thread's copies are up to date (`ApartInv`); that the sum of the counters is the number of
clients accepted, up to the updates under way (`CountInv`), so that the next ID is new; that IDs are
different and below that number, and that the other slots are empty (`IdInv`); and that what a
slot received and what is on its way to it are the messages that its client sent (`DataInv`).

TLC checked `IInv` with three clients. There are two lemmas per action, one for each part.

### Only model-checked

- `PlansAgree`: the value of a recursive function for every list;
- `EventSystem`, `Notifications` and `LookupTables`: their operators are folds and selections over
  sequences, about which nothing can be proved without induction over data;
- `SmartBuffers`, whose places in memory are products of variables;
- liveness, which is out of the prover's reach.

## 6. What the models leave open

- `CreateCompletes` has the hypothesis `[]SentAsRecorded`, which fails in some behaviours (section 3):
  an SP may record a version as sent when the sends of the last one complete late. All other properties
  of `GroupCachePairs` hold in those behaviours too.
- A group's topology is fixed over its versions. UIDs of different groups do not interact.
- Handlers are atomic: the progress of a process is a single thread. The one exception,
  the connection thread, is modelled in `Bootstrap`.
- Processes do not crash; the code has no recovery.
- `Bootstrap` (one server in detail) and `Startup` (all SPs, the exchange of addresses as one
  step) are not composed: `Startup` takes for granted that an acceptance is atomic, which holds only
  where the threads of `Bootstrap` do not overlap. `LookupTables` and `GroupCache` share the entries, but are separate models: the
  order in which a process learns of entries is free in the first.
- A rank has one SP in `LookupTables`; an entry could have several (`shadow_service_procs`).
- No property of a run is about bitsets of SPs in jobs of nine SPs or more, where they are too small
  (`AccessesInBounds`, section 3).
- `SpLookupsRight` is limited to groups of the first SPs of the job, where IDs in the job and in the group
  agree. Elsewhere the table of SPs is wrong (`SpsInGroup`), two lookups return the ID in the job
  (`GroupIdsReturned`), and `get_sp_group_gid` compares an ID in the job with a number in the group
  (GC:1039). `LookupsRight` has no such limit and uses none of them.
- `LookupsRight` and `SpLookupsRight` are about tables built from the complete cache; after an early lookup the tables are
  what `TablesRight` says, and the lookups read them past their ends.
Hazards that no property covers:

- The cache is sent by reference (GC:149); a revocation that resets the entries while a send is
  pending changes what is sent. Messages are values in the model.
- Creating and freeing a group twice before its first creation completes queues two revokes of a
  rank (UT:245). Applications in the model free a group once per creation.
- A send that fails leaves its event, or the meta-event it belongs to, out of the pool for good
  (EC:735); a plain event whose send completes at once is returned without its callback
  (EC:760). Both are modelled, and are exceptions in the properties of `EventSystem`.
- `posted_sends` (T:919) is not decremented for sub-events. It is modelled, but no send consults it.
- Contexts of clients are freed in the middle of a pass that progresses them (SD:1952), and while
  `client_fini` waits for them (SD:2496). A pass is not divided into steps in the models.
- `broadcast_group_cache` does nothing when not all SPs are connected (UT:720), and nobody repeats it.
- Hostnames of DPUs are compared as prefixes (IC:194): `dpu10` also finds itself at `dpu1`. They are
  model values, none a prefix of another.
- A refused `connect` is repeated for ever on the same socket (SD:485).
- `get_local_sp_id_by_group` accepts an ID that is one too large (GC:499), which the model has as `CRASH`.
- A client that leaves before its connection was finalized takes `num_connected_clients` below zero
  (EC:2279). Clients in `Bootstrap` wait for the cache of the world group.

## 7. Plan

1. The entries of the world group's cache in `Bootstrap`.
2. Several SPs per rank in `LookupTables`.

## 8. Not modelled

- Requests for single cache entries: `do_get_cache_entry_by_group_rank` calls `abort()` (GC:1550)
  before it would ask another process, so that the requests are never sent.
- The syntax of configuration files, and the host's side of them (UT:1466-1520), which
  reads the address and the port of one SP. What SPs take from them is in `Startup`.
- `SMART_ARRAY`, `SMART_LIST`, recycling and splitting of smart chunks: nothing uses them. The growth of
  dynamic lists.
- Offload operations: their progress functions are stubs.
- Cross-GVMI registration: calls of UCX and verbs only.
- Start-up on hosts and the other daemons: process management around the same library.
- Memory management, debug output, and the tag-based notifications that are compiled out.
- Failing sockets and the UCX listener mode in `Bootstrap`.
