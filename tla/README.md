# TLA+ models of the nexus replication coordinator

This directory holds TLA+ models of `src/internal/raft/replicator.go`, the
coordinator that sits between a user Store and the etcd raft engine, with the
TLC configurations that check them. `PROJECT.json` lists the components,
runs, mutants, the map from every TLA+ definition to the Go lines it models,
the findings and the hazards.

## 1. Inventory

### Components and their state

| Component | Source | State | Operations |
|---|---|---|---|
| Replication coordinator | `replicator.go` `Save`, `Load`, `AddMember`, `RemoveMember`, `proposeConfigChange` | none of its own beyond `confChangeCount`; each call keeps its id, its result channel and `child_ctx` | allocate id, register, propose / read-index, `select` on result vs deadline, trigger own id on failure |
| Commit-applier loop | `readCommits` | position in `commitC` | nil: load snapshot + `store.Restore` (skip `ErrNoSnapshot`, panic otherwise); EntryNormal: unmarshal, `store.Save`, `waiter.Trigger`; EntryConfChange: unmarshal, `waiter.Trigger`; every entry: `applyWait.Trigger(index)`; on close: drain `errorC`, fatal |
| Read-state loop | `readReadStates` | none | decode request id, `waiter.Trigger(id, index)` |
| Pending-request registry | etcd `pkg/wait.Wait` (`waiter`) | map id -> capacity-1 channel | `Register` (panics on a duplicate), `Trigger` (deletes, sends; no-op if absent) |
| Apply-index waiter | etcd `pkg/wait.WaitTime` (`applyWait`) | last triggered index, waiters by index | `Wait(i)`, `Trigger(i)` |
| ID generator | etcd `idutil.Generator` | 16-bit node prefix, ms timestamp, counter | `Next()` |
| Consensus engine + raftNode | not in `src/` | raft log, commit index, leader, read-index queue, `commitC`, `readStateC`, `errorC`, snapshots | `Propose`, `ProposeConfChange`, `ReadIndex`, publish entries, take snapshots |
| Membership view | `ListMembers` | none (reads leader id, raft role, transport activity) | status of every peer |
| Lifecycle | `NewReplicator`, `Start`, `Stop` | `stopc`, Store, stats client | start the two loops and raft; close `stopc`, Store, stats |
| gRPC client | `internal/grpc/client.go` | a client connection | `Save`, `Load`, `AddNode`, `RemoveNode`, `ListNodes`, `Close`, each under a 10 s timeout |
| gRPC stubs | `pkg/api/nexus_grpc.pb.go` | none (generated) | marshal and dispatch |
| Public constructor | `src/unnamed/part_000` | none | validate arguments, build the replicator |

### How they interact

A client goroutine in `Save` registers an id in the wait list, proposes an
envelope `{id, payload}` to raft and selects on its result channel and on
`child_ctx` (the caller's ctx bounded by `ReplTimeout`). Raft commits the entry
and raftNode publishes it on `commitC`; `readCommits` applies it to the Store,
triggers the id with the Store's result, then advances `applyWait`. `Load`
registers an id, asks raft for a read index with the id as request context,
receives the index through `readReadStates` and the wait list, waits on
`applyWait` for that index and reads the Store. `AddMember`/`RemoveMember`
take an id from `confChangeCount` and go the `Save` way with a ConfChange.
All three kinds of ids share one wait list.

### What is hard

- Interleavings of client goroutines, the two loops and raft: a result and a
  deadline ready at once (Go's `select` picks either), a Load reading while
  `readCommits` is between `store.Save` and `applyWait.Trigger`.
- Failures: raft drops proposals and read requests, loses its leader,
  `Propose` fails after raft took the proposal, the process dies (every
  `log.Fatal`/`log.Panic` in `readCommits`) and restarts, replaying the log
  behind a snapshot.
- Ids: ConfChange ids are a per-process counter in a wait list that also sees
  every other node's committed ConfChanges.
- Timeouts: every wait must end; `ProposeConfChange` runs under the caller's
  ctx.

### What makes each component correct

- Coordinator: a successful call is answered by its own entry (Save,
  ConfChange); a successful Load sees every write committed before it began
  (linearizability); every call returns; the wait list holds only ids of
  calls still waiting.
- Commit-applier + snapshot gate: the Store is exactly the committed log
  prefix received so far, each write once, across restarts.
- Membership view: the statuses follow the spec's rules for what the call
  read, the node itself reporting its own raft role (best effort
  otherwise), also when raft elects a leader while the loop runs.
- Lifecycle: nothing uses the Store after `Close` (the spec also wants a
  second Stop to be a no-op; the code panics, a two-call sequence that a
  unit test reaches, so no run is spent on it).
- gRPC client: a failed RPC is an error, never a panic.

## 2. Plan

Modules, in order of importance:

1. `Replicator` (done): coordinator, both loops, wait list, apply wait, the
   raft environment, crash/restart with snapshot restore, `Stop`.
   `MCReplicator` instantiates it.
2. `Replicator` (done): request-id collisions from the 16-bit node prefix
   and id reuse after a restart, the run-time snapshot sentinel (a lagging
   follower installing the leader's snapshot), the apply cursor after a
   restore (line 253).
3. `ReplicatedStore` (done, abstract): a store whose writes take effect one
   at a time, once each; `Replicator` is shown to implement it with
   `INSTANCE ReplicatedStore WITH` (section 3.1).
4. `Membership` (done): `ListMembers` as a loop of one step per peer, with
   raft elections and transport changes between steps, checked against the
   spec's status rules (section 4.F).
5. `NexusClient` (done): the gRPC client's calls, results and `Close`, with
   the `ListNodes` nil-response dereference.
6. `Replicator` (done): responses tagged by sender, so that a Load whose
   id collides with another node's write decodes that write's Store result
   as its read index (line 165).
7. Not reachable from here: the membership change a ConfChange carries
   (raftNode's `rpeers`) would link `Membership` to `Replicator`, but
   raftNode's apply is outside `src/` (section 6).

## 3. The `Replicator` model

State (`VARIABLES`) and what it stands for:

- `pc[c]`, `op[c]`: where client goroutine `c` is (`save_wait`, `load_wait`,
  `load_apply`, `cc_propose`, `cc_wait`) and its id, ctx-deadline flag, commit
  index at the call, read index.
- `nextReq`, `confCount`: `idGen` and `confChangeCount`. With
  `IdReuseOnRestart`, a restart may set `nextReq` back (a clock step back,
  or a counter that ran ahead of the clock); with `CollidingReqIds`, other
  nodes' writes may carry this node's ids (same low 16 bits of node id).
- `pending`, `slot`: the wait list; `slot[id]` is the buffer of the id's
  capacity-1 channel.
- `props`, `log`, `commit`, `leader`, `readReqs`, `readStates`, `snap`: raft
  and raftNode as the environment (proposals in flight, the log, the commit
  index, whether a leader is known, pending read-index requests,
  `readStateC`, the latest snapshot).
- `rc`, `rcResp`, `recvIdx`, `sentinel`: `readCommits`'s position: the step
  left for the current entry, the response to deliver, the last index
  received, whether a nil is queued.
- `store`: the Store as the sequence of request ids it applied.
- `lastTrigger`: `applyWait`'s cursor.
- `stopCalls`, `panicked`: calls of `Stop` (after the first, `stopc` and the
  Store are closed; raft refuses every request with `ErrStopped`) and whether
  a second `close(stopc)` panicked.
- `inc`: process incarnation; `lastRet`: the call returned by the last step
  (history for the properties).

Actions: `Save`, `SaveRecv`, `SaveTimeout`; `Load`, `LoadIndex`,
`LoadTimeout`, `LoadRead`, `LoadApplyTimeout`; `ConfReject`, `ConfStart`,
`ConfPropose`, `ConfProposeCtxDone`, `ConfRecv`, `ConfTimeout`; `ReadState`;
`LoadSnapshot`, `ApplyNormal`, `TriggerSaved`, `ApplyConfChange`,
`ApplyEmpty`, `AdvanceApplied`; the raft environment `Raft*`; `Stop`; `Restart`.
`readCommits` is split at the points where a client can observe the
difference: after `store.Save`, after `waiter.Trigger`, after
`applyWait.Trigger`. A `Propose` failure and its `Trigger` are one step: the
id was registered by the same goroutine and nobody else can see it yet.

Abstractions: a payload is its request id; a response (`Resp`) is tagged
with its sender (a read index from `readReadStates`, a Store result or a
ConfChange's data from `readCommits`) and carries the log index it names,
or is `StoreErr` when `store.Save` failed. `LoadIndex` decodes any
response as a read index (`Decoded`): a read index is itself, the bytes of
a Store result any index (a result shorter than 8 bytes would panic; the
model takes results of at least 8 bytes) (with `StoreErrors`, the
Store may fail any `Save` or `Load`; the error reaches the caller through
the channel, and `store` records every write `store.Save` was given); request ids (`ReqId`) and ConfChange ids (`CcId`) are tagged
apart because `idGen` ids are far above any counter value; the raft engine
is nondeterministic and unfair (it may stop for ever).

Fairness: weak fairness for each in-progress client call (every wait selects
on a ctx that expires: `child_ctx`, or the caller's ctx when it has a
deadline), and for `readCommits` and `readReadStates` (goroutines blocked only
on their channel). Raft, the callers starting calls and crashes get none.
Under this fairness `live` checks that every call returns (`OpsTerminate`)
and that every committed index reaches `applyWait`
(`AppliedEventuallyVisible`): the code calls `applyWait.Trigger` outside the
`len(entry.Data) > 0` test, so a new leader's empty entry wakes Loads too.

### 3.1 The abstract store and the refinement

`ReplicatedStore` says what the replicator promises, without raft: a
sequence `committed` of writes in effect, the request ids `issued`, each
caller's call in progress and the last successful return. `Invoke` takes a
fresh id (it may fail at once), `Commit` puts an issued write (or another
node's) into effect once, `Return` fails or returns a result the store
allows (a Save only once its write is in effect; a Load a prefix of the
writes in effect, no shorter than when it was called), `Crash` fails every
call in progress.

`Replicator` maps onto it: `committed` is the writes of the committed log
prefix, `issued` the ids `idGen` handed out, a call in progress its kind,
id and (Load) the writes committed at the call, `ret` the last successful
return. `ImplementsReplicatedStore` (`RS!Spec`) is checked in the `restart`
and `core` runs: with restarts, snapshot installs, raft failures, other
nodes' writes, Store errors, ConfChanges and `Stop`. Runtime snapshot installs are spec-modelled from raftNode
(`RaftInstallSnapshot`): the entries a snapshot covers are skipped, the Store
is restored on the nil, and a Save whose write the snapshot contains is
never answered (it times out, which the abstract store allows).

## 4. Runs

| Run | Bounds | Checks | Result |
|---|---|---|---|
| `core` | 2 clients (symmetric), 2 request ids, 1 ConfChange id, log of 2, no restart, one Stop, Store errors | `TypeOK`, `RegistryNoLeak`, `AckIsOwn`, `LoadLinearizable`, `ImplementsReplicatedStore` | pass, 606k states, under 2 min |
| `restart` | 2 clients, 2 request ids, log of 2, 1 restart, run-time snapshot installs, other nodes' writes | `TypeOK`, `RegistryNoLeak`, `AckIsOwn`, `LoadLinearizable`, `StoreIsLogPrefix`, `ImplementsReplicatedStore` | pass, 511k states, under 2 min |
| `cursor_install` | no restart, run-time snapshot installs | `ApplyCursorAtApplied` | violation |
| `ids` | another node's write may carry request id 1; no restart | `AckIsOwn` | violation |
| `conf_foreign` | another node proposes ConfChange id 1; no restart | `AckIsOwn` | violation |
| `conf_restart` | 1 restart, no other node's ConfChanges | `AckIsOwn` | violation |
| `ids_load` | another node's write may carry request id 1; other nodes' writes | `LoadLinearizable` | violation |
| `live` | 1 client, callers' ctx with deadline, one Stop | `OpsTerminate`, `AppliedEventuallyVisible` | pass, 95k states |
| `live_nodeadline` | callers' ctx may lack a deadline | `OpsTerminate` | violation |
| `stop_race` | one Stop racing the loops and clients | `StoreUnusedAfterClose` | violation |
| `membership` | 3 peers, every leader id and raft state raft reports, any transport activity, changing during the call | `TypeOK`, `ListMembersMatchesSpec` | pass, 238k states, 10 s |
| `client_panic` | same | `NoPanic` | violation |

Why the bounds suffice: a log of 2 holds a write and the entry a read must
wait for (or two writes, one committed before a Load and one after); two
clients give a Save racing a Load or two ConfChanges; one restart with a
snapshot exercises restore + replay; one ConfChange id is enough for a
collision. Every mutant listed in `PROJECT.json` (a dropped trigger, an
off-by-one index, a wait released early, a skipped restore, a missing
timeout case) is caught within these bounds.

### Findings

Each id run turns on one cause only, so its trace shows that cause.

- `conf_foreign`: ConfChange ids are a per-process counter (line 216); a
  ConfChange committed from another node with the same value answers this
  node's pending AddMember/RemoveMember, although this node's change may have
  been dropped (raft replaces a ConfChange proposed while another is pending
  by an empty entry). The spec requires unique ids in the commit stream.
- `conf_restart`: the ConfChange counter restarts at 0 (line 59) while raftNode replays
  old ConfChanges after a restart; a replayed one answers a new call.
- `live_nodeadline`: `ProposeConfChange(ctx, ...)` (line 220) uses the
  caller's ctx, not `child_ctx`; with no leader and a caller ctx without a
  deadline, AddMember never returns. The spec bounds every operation by the
  replication timeout. Through `NexusClient` the 10 s timeout hides it.

- `cursor_install`: `readCommits` restores the Store on a nil (line 253)
  but never calls `applyWait.Trigger` with the snapshot's index; the spec
  (section 8) says the cursor resumes from it. After a restart or a
  snapshot install, a Load whose read index the snapshot covers waits for
  some later entry to be applied, and times out on an idle cluster.
- `ids`: `idGen`'s prefix is `uint16(raftNode.id)` (line 62); two
  nodes whose ids agree in the low 16 bits hand out the same ids, and the
  other node's write acknowledges this node's pending Save. The spec says
  the embedded node id prevents collisions.
- `ids_load`: the same request-id collision breaks reads. `Load` decodes
  whatever arrives on its channel as a read index (line 165); another
  node's write with the Load's id is applied after the Load registered, its
  Store result is taken for an index that is already applied, and the Load
  reads a Store missing a write committed before it began (or panics on a
  result shorter than 8 bytes). The spec promises linearizable reads.
- `stop_race`: `Stop` closes the Store (line 210) without waiting for
  `readCommits` or Loads in flight; an entry raft already committed is then
  saved into the closed Store. The spec says operations racing `stop()` fail
  with a Shutdown error.
- `client_panic`: `ListNodes` (client.go line 89) drops the RPC error and
  reads `res.Nodes` from the nil response the stub returns on error: any
  failed `ListNodes` crashes the caller.

## 5. The `Membership` and `NexusClient` models

`Membership` runs `ListMembers` as the code does: `Begin` reads
`getLeaderId()` once into the local `ld`; `Visit(id)` is one iteration of
the range over `rpeers` (in any order, as Go's map iteration), reading
`transport.ActiveSince(id)` and, for the node itself, its raft state at
that moment; `Finish` returns. Between steps `RaftStep` changes leader and
role (always a pair one raft `Status()` can report: a leader leads itself,
a (pre-)candidate has no leader) and `TransportStep` changes a peer's
activity. `MemberStatus` is the branch chain of the code.
`ListMembersMatchesSpec` compares every returned status with the rules of
spec section 4.F applied to the leader id returned and what that visit
read. A node that became leader after the lead was read lists itself
UNKNOWN: best effort, as the spec allows. The order of the branches matters: the
transport has no activity with the node itself, so checking it before the
self branch would list the node as OFFLINE.

`NexusClient` has goroutines calling any method, or `Close`, on one shared
client. `Invoke` stands for the generated stub: on a closed connection it
fails, otherwise the outcome is a transport error, a response with an error
status, or ok. `Return` applies the method's result mapping; `ListNodes`
panics on a transport error, which ends the process (the `client_panic`
run therefore does not check deadlock). Whether a call reports an error
status as an error is a single comparison per method (`Code != 0`), so no
run checks it; the one run is the panic.

## 6. Not modelled (yet)

- `idGen` handing out an id again after a restart (a clock step back):
  the option `IdReuseOnRestart` models it and violates `AckIsOwn` by the
  same steps the `ids` run shows, after a `Restart`; no run is kept for it.
- Leader election, replication and quorum inside raft: the engine is an
  environment; raftNode's WAL and snapshot files are out of `src/`.
- The bit layout and clock of `idGen`: only their two failure modes are
  modelled, as options.
- The length of a Store result: a result shorter than 8 bytes makes a
  Load with a colliding id panic; the model decodes every result to some
  index instead, the outcome that breaks linearizability.
- `rpeers` changing under `ListMembers`: raftNode's apply of a ConfChange
  is outside `src/`, so the peer set is fixed; Go aborts the process on a
  map iterated and written at once (line 83), which the model does not
  represent.
- Statistics, logging, option parsing, the generated gRPC stubs.
- The `RaftReplicator` interface in `src/unnamed/part_000` declares
  `AddMember(ctx, int, string)`, which `*replicator` (`AddMember(ctx,
  string)`) does not implement; this is a build-level mismatch, not a
  behaviour.
