------------------------------ MODULE Replicator ------------------------------
(***************************************************************************)
(* The replication coordinator of nexus (src/internal/raft/replicator.go): *)
(* the client entry points Save, Load, AddMember/RemoveMember, the         *)
(* readCommits loop that applies committed entries to the Store, and the   *)
(* readReadStates loop that answers linearizable reads.                    *)
(*                                                                         *)
(* The coordinator talks to three collaborators, modelled here only as far *)
(* as their interface is concerned:                                        *)
(*  - the wait list (etcd pkg/wait.Wait): pending ids and their one-shot   *)
(*    result channels (pending, slot);                                     *)
(*  - the apply wait (etcd pkg/wait.WaitTime): the apply cursor            *)
(*    lastTrigger;                                                         *)
(*  - the consensus engine and raftNode: proposals, the log, the commit    *)
(*    index, read-index requests and the read-state channel, the latest    *)
(*    snapshot; their behaviour is the environment's nondeterminism.       *)
(* A request payload is abstracted to the request id that envelopes it;    *)
(* the Store's content is the sequence of ids it has applied.              *)
(***************************************************************************)
EXTENDS Naturals, Sequences, FiniteSets, SequencesExt

CONSTANTS
  Clients,         \* goroutines calling the replicator's entry points
  MaxReqIds,       \* bound on ids handed out by idGen.Next()
  MaxConfIds,      \* bound on confChangeCount within one process lifetime
  MaxLog,          \* bound on the length of the raft log
  MaxRestarts,     \* bound on crashes and restarts of this process
  MaxStops,        \* bound on calls of Stop within one process lifetime
  ForeignWrites,   \* can Saves proposed on other nodes reach the log
  ForeignConfIds,  \* ConfChange ids other nodes' replicators propose
  ParentDeadlines, \* whether the caller's ctx has a deadline (subset of BOOLEAN)
  CollidingReqIds, \* idGen values another node's Saves can also carry
  IdReuseOnRestart,\* can idGen hand out old values again after a restart
  InstallSnapshots,\* can raftNode install a leader's snapshot at run time
  StoreErrors      \* can store.Save and store.Load return an error

ASSUME /\ MaxReqIds \in Nat /\ MaxConfIds \in Nat /\ MaxLog \in Nat
       /\ MaxRestarts \in Nat /\ MaxStops \in Nat
       /\ ForeignWrites \in BOOLEAN
       /\ ForeignConfIds \subseteq 1..MaxConfIds
       /\ ParentDeadlines \subseteq BOOLEAN /\ ParentDeadlines # {}
       /\ CollidingReqIds \subseteq 1..MaxReqIds
       /\ IdReuseOnRestart \in BOOLEAN /\ InstallSnapshots \in BOOLEAN
       /\ StoreErrors \in BOOLEAN

VARIABLES
  pc,          \* pc[c]: where client goroutine c is in its current call
  op,          \* op[c]: the id, deadline and read index of c's current call
  nextReq,     \* idGen: number of ids handed out so far (time-seeded, monotone)
  confCount,   \* replicator.confChangeCount
  pending,     \* ids registered in the wait list and not yet triggered
  slot,        \* slot[id]: buffer of id's result channel (capacity 1)
  props,       \* entries proposed and not yet appended or dropped by raft
  log,         \* the raft log
  commit,      \* raft commit index
  leader,      \* does the local raft node know a leader
  readReqs,    \* read-index request contexts not yet answered by raft
  readStates,  \* raftNode.readStateC
  rc,          \* readCommits: "recv", or the step left for the current entry
  rcResp,      \* readCommits: the response of the entry being applied
  recvIdx,     \* index of the last entry received on commitC
  sentinel,    \* a nil (load snapshot) is queued on commitC
  store,       \* the Store: ids of the requests store.Save was given, in order
  lastTrigger, \* applyWait: last index passed to Trigger
  snap,        \* the latest snapshot: index and Store content
  inc,         \* process incarnation (number of restarts)
  stopCalls,   \* calls of Stop so far: stopc is closed and the Store too
  panicked,    \* Stop closed the already closed stopc
  lastRet      \* the call returned by the last step, or NoRet (history)

vars == <<pc, op, nextReq, confCount, pending, slot, props, log, commit,
          leader, readReqs, readStates, rc, rcResp, recvIdx, sentinel, store,
          lastTrigger, snap, inc, stopCalls, panicked, lastRet>>

-----------------------------------------------------------------------------
(* Ids, entries and responses.                                             *)

\* idGen ids (Save, Load) and ConfChange ids live in one wait list; idGen
\* ids carry the node id in their top 16 bits and a millisecond timestamp
\* below, so the two spaces never meet numerically: they are tagged here.
ReqId(n) == <<"req", n>>
CcId(n) == <<"cc", n>>
NoId == <<"none", 0>>
ExtId == <<"ext", 0>>        \* id of a Save proposed on another node
Ids == {ReqId(n) : n \in 1..MaxReqIds} \union {CcId(n) : n \in 1..MaxConfIds}

Foreign == "foreign"
Entry(t, id, by, i) == [type |-> t, id |-> id, by |-> by, inc |-> i]
EmptyEntry == Entry("empty", NoId, Foreign, 0)
Entries == {Entry(t, id, by, i) : t \in {"normal", "cc", "empty"},
             id \in Ids \union {NoId, ExtId}, by \in Clients \union {Foreign},
             i \in 0..MaxRestarts}

\* internalNexusResponse{Res, nil}, tagged with who sent it: readReadStates
\* (Res the 8-byte read index), the apply of a write (Res the Store's
\* result, abstracted to the entry's index) or of a ConfChange (Res the
\* entry's data, abstracted likewise). A result channel is buffered with
\* capacity 1: slot[id] is its buffer.
Resp(k, i) == [kind |-> k, v |-> i]
\* internalNexusResponse{nil, err}: store.Save returned an error.
StoreErr == Resp("error", 0)
Resps == {Resp(k, i) : k \in {"index", "result", "cc"}, i \in 0..MaxLog}
         \union {StoreErr}
NoResp == Resp("none", 0)
SaveResults(i) == {Resp("result", i)} \union (IF StoreErrors THEN {StoreErr} ELSE {})

\* binary.BigEndian.Uint64(inr.Res): a read index decodes to itself; the
\* bytes of a Store result or a ConfChange decode to any number, which
\* stands for an index up to one past the largest the log reaches. (A
\* result shorter than 8 bytes panics instead; the model takes the
\* Store's results to be at least 8 bytes long.)
Decoded(r) == IF r.kind = "index" THEN {r.v} ELSE 0..MaxLog + 1

NoOp == [id |-> NoId, dl |-> TRUE, at |-> 0, ridx |-> 0]

\* What a call returned: its kind, success, the index it was answered with,
\* the commit index when it began (loads) and the Store content it read.
NoRet == [c |-> Foreign, kind |-> "none", ok |-> FALSE, id |-> NoId,
          val |-> 0, at |-> 0, seen |-> <<>>, inc |-> 0]
Ret(c, k, ok, v, s) == [c |-> c, kind |-> k, ok |-> ok, id |-> op[c].id,
                        val |-> v, at |-> op[c].at, seen |-> s, inc |-> inc]
\* Calls that return an error are not recorded: no property is about them.
ErrRet(c, k, id) == NoRet

\* The Store content a prefix of the log produces: the ids of its requests.
RECURSIVE WriteIds(_)
WriteIds(s) == IF s = <<>> THEN <<>>
               ELSE (IF Head(s).type = "normal" THEN <<Head(s).id>> ELSE <<>>)
                    \o WriteIds(Tail(s))

-----------------------------------------------------------------------------
(* The wait list (etcd pkg/wait): Register stores a fresh channel under    *)
(* id; Trigger sends on it and deletes it, and is a no-op for an id that   *)
(* is not registered.                                                      *)

Register(id) ==
  /\ pending' = pending \union {id}
  /\ slot' = [slot EXCEPT ![id] = <<>>]

Trigger(id, r) ==
  IF id \in pending
  THEN /\ pending' = pending \ {id}
       /\ slot' = [slot EXCEPT ![id] = <<r>>]
  ELSE UNCHANGED <<pending, slot>>

\* The caller triggers its own id and returns: whatever is on the channel
\* is never read again, so the channel is dropped.
Abandon(id) ==
  /\ pending' = pending \ {id}
  /\ slot' = [slot EXCEPT ![id] = <<>>]

Return(c, k, v, s) ==
  /\ pc' = [pc EXCEPT ![c] = "idle"]
  /\ op' = [op EXCEPT ![c] = NoOp]
  /\ lastRet' = Ret(c, k, TRUE, v, s)

\* The caller returns the value on its channel (an error when the response
\* carries one); the channel is dropped.
Receive(c, k) ==
  /\ slot[op[c].id] # <<>>
  /\ slot' = [slot EXCEPT ![op[c].id] = <<>>]
  /\ IF Head(slot[op[c].id]) = StoreErr
     THEN /\ pc' = [pc EXCEPT ![c] = "idle"]
          /\ op' = [op EXCEPT ![c] = NoOp]
          /\ lastRet' = ErrRet(c, k, op[c].id)
     ELSE Return(c, k, Head(slot[op[c].id]).v, <<>>)
  /\ UNCHANGED pending

\* child_ctx.Done(): the caller triggers its own id with the ctx error.
TimeOut(c, k) ==
  /\ Abandon(op[c].id)
  /\ pc' = [pc EXCEPT ![c] = "idle"]
  /\ op' = [op EXCEPT ![c] = NoOp]
  /\ lastRet' = ErrRet(c, k, op[c].id)

engineVars == <<props, log, commit, leader, readReqs, readStates, snap>>
applyVars == <<rc, rcResp, recvIdx, sentinel, store, lastTrigger>>
lifeVars == <<inc, stopCalls, panicked>>

\* Stop closed stopc: raft is stopped and refuses every request.
Stopped == stopCalls > 0

\* Propose returned an error: the proposal was dropped or raft is stopped,
\* or the ctx expired while Propose blocked for want of a leader (nothing
\* reached raft), or expired after raft took the proposal (which may then
\* still commit).
ProposeFailed(e) ==
  \/ props' = props
  \/ leader /\ ~Stopped /\ props' = props \union {e}

-----------------------------------------------------------------------------
(* Save (replicator.go Save).                                              *)

\* Allocate an id, register it and propose the envelope under child_ctx.
\* On failure the id is triggered at once and its channel never read.
Save(c) ==
  /\ pc[c] = "idle"
  /\ nextReq < MaxReqIds
  /\ LET id == ReqId(nextReq + 1)
         e == Entry("normal", id, c, inc)
     IN /\ nextReq' = nextReq + 1
        /\ \/ /\ leader
              /\ ~Stopped
              /\ Register(id)
              /\ props' = props \union {e}
              /\ pc' = [pc EXCEPT ![c] = "save_wait"]
              /\ op' = [op EXCEPT ![c] = [NoOp EXCEPT !.id = id]]
              /\ lastRet' = NoRet
           \/ /\ ProposeFailed(e)
              /\ UNCHANGED <<pending, slot, pc, op>>
              /\ lastRet' = ErrRet(c, "save", id)
  /\ UNCHANGED <<confCount, log, commit, leader, readReqs, readStates, snap,
                 applyVars, lifeVars>>

\* select: the result channel delivers the apply result.
SaveRecv(c) ==
  /\ pc[c] = "save_wait"
  /\ Receive(c, "save")
  /\ UNCHANGED <<nextReq, confCount, engineVars, applyVars, lifeVars>>

\* Bug variant: the timeout path returns without triggering its id.
SaveTimeoutKeepsId(c) ==
  /\ pc[c] = "save_wait"
  /\ pc' = [pc EXCEPT ![c] = "idle"]
  /\ op' = [op EXCEPT ![c] = NoOp]
  /\ lastRet' = NoRet
  /\ UNCHANGED <<pending, slot, nextReq, confCount, engineVars, applyVars, lifeVars>>

\* Bug variant: the select has no ctx.Done() case.
SaveWaitsForever(c) == FALSE

\* select: child_ctx expires (it may win even when a result is ready).
SaveTimeout(c) ==
  /\ pc[c] = "save_wait"
  /\ TimeOut(c, "save")
  /\ UNCHANGED <<nextReq, confCount, engineVars, applyVars, lifeVars>>

-----------------------------------------------------------------------------
(* Load (replicator.go Load).                                              *)

\* Allocate an id, register it and ask raft for a read index with the id
\* as request context. ReadIndex does not wait for a leader; it fails only
\* when raft is stopped or child_ctx expires while it steps the node.
Load(c) ==
  /\ pc[c] = "idle"
  /\ nextReq < MaxReqIds
  /\ LET id == ReqId(nextReq + 1)
     IN /\ nextReq' = nextReq + 1
        /\ \/ /\ ~Stopped
              /\ Register(id)
              /\ readReqs' = readReqs \union {id}
              /\ pc' = [pc EXCEPT ![c] = "load_wait"]
              /\ op' = [op EXCEPT ![c] = [NoOp EXCEPT !.id = id, !.at = commit]]
              /\ lastRet' = NoRet
           \/ /\ UNCHANGED <<pending, slot, pc, op, readReqs>>
              /\ lastRet' = ErrRet(c, "load", id)
  /\ UNCHANGED <<confCount, props, log, commit, leader, readStates, snap,
                 applyVars, lifeVars>>

\* select: the read index arrives; the call goes on to wait for it to be
\* applied. A response carrying an error (only a write's, whose id
\* collided with this Load's) ends the call; any other response is
\* decoded as the read index, whoever sent it.
LoadIndex(c) ==
  /\ pc[c] = "load_wait"
  /\ slot[op[c].id] # <<>>
  /\ slot' = [slot EXCEPT ![op[c].id] = <<>>]
  /\ IF Head(slot[op[c].id]) = StoreErr
     THEN /\ pc' = [pc EXCEPT ![c] = "idle"]
          /\ op' = [op EXCEPT ![c] = NoOp]
          /\ lastRet' = ErrRet(c, "load", op[c].id)
     ELSE /\ pc' = [pc EXCEPT ![c] = "load_apply"]
          /\ \E ri \in Decoded(Head(slot[op[c].id])) :
               op' = [op EXCEPT ![c].ridx = ri]
          /\ lastRet' = NoRet
  /\ UNCHANGED <<nextReq, confCount, pending, engineVars, applyVars, lifeVars>>

\* Bug variant: the timeout path returns without triggering its id.
LoadTimeoutKeepsId(c) ==
  /\ pc[c] = "load_wait"
  /\ pc' = [pc EXCEPT ![c] = "idle"]
  /\ op' = [op EXCEPT ![c] = NoOp]
  /\ lastRet' = NoRet
  /\ UNCHANGED <<pending, slot, nextReq, confCount, engineVars, applyVars, lifeVars>>

LoadTimeout(c) ==
  /\ pc[c] = "load_wait"
  /\ TimeOut(c, "load")
  /\ UNCHANGED <<nextReq, confCount, engineVars, applyVars, lifeVars>>

\* Bug variant: store.Load runs as soon as the read index is known.
LoadReadNoWait(c) ==
  /\ pc[c] = "load_apply"
  /\ Return(c, "load", op[c].ridx, store)
  /\ UNCHANGED <<nextReq, confCount, pending, slot, engineVars, applyVars, lifeVars>>

\* Bug variant: the wait is released one index early.
LoadReadOneEarly(c) ==
  /\ pc[c] = "load_apply"
  /\ lastTrigger + 1 >= op[c].ridx
  /\ Return(c, "load", op[c].ridx, store)
  /\ UNCHANGED <<nextReq, confCount, pending, slot, engineVars, applyVars, lifeVars>>

\* applyWait.Wait(index) is closed once Trigger was called with an index
\* at least as large; then store.Load reads the Store, or fails.
LoadRead(c) ==
  /\ pc[c] = "load_apply"
  /\ lastTrigger >= op[c].ridx
  /\ \/ Return(c, "load", op[c].ridx, store)
     \/ /\ StoreErrors
        /\ pc' = [pc EXCEPT ![c] = "idle"]
        /\ op' = [op EXCEPT ![c] = NoOp]
        /\ lastRet' = ErrRet(c, "load", op[c].id)
  /\ UNCHANGED <<nextReq, confCount, pending, slot, engineVars, applyVars, lifeVars>>

\* child_ctx expires while waiting for the apply cursor; the id is
\* already triggered, so nothing is triggered.
LoadApplyTimeout(c) ==
  /\ pc[c] = "load_apply"
  /\ pc' = [pc EXCEPT ![c] = "idle"]
  /\ op' = [op EXCEPT ![c] = NoOp]
  /\ lastRet' = ErrRet(c, "load", op[c].id)
  /\ UNCHANGED <<nextReq, confCount, pending, slot, engineVars, applyVars, lifeVars>>

-----------------------------------------------------------------------------
(* AddMember / RemoveMember and proposeConfigChange.                       *)

\* NewOptions rejects the node url, or (AddMember) the TCP dial to the
\* new node fails: the call returns before any id is taken.
ConfReject(c) ==
  /\ pc[c] = "idle"
  /\ lastRet' = ErrRet(c, "cc", NoId)
  /\ UNCHANGED <<pc, op, nextReq, confCount, pending, slot, engineVars,
                 applyVars, lifeVars>>

\* proposeConfigChange: take the next ConfChange id, register it. The
\* caller's ctx may or may not carry a deadline.
ConfStart(c) ==
  /\ pc[c] = "idle"
  /\ confCount < MaxConfIds
  /\ confCount' = confCount + 1
  /\ Register(CcId(confCount + 1))
  /\ \E dl \in ParentDeadlines :
       op' = [op EXCEPT ![c] = [NoOp EXCEPT !.id = CcId(confCount + 1), !.dl = dl]]
  /\ pc' = [pc EXCEPT ![c] = "cc_propose"]
  /\ lastRet' = NoRet
  /\ UNCHANGED <<nextReq, engineVars, applyVars, lifeVars>>

\* ProposeConfChange(ctx, cc) is called with the caller's ctx, not with
\* child_ctx: it returns once raft has a leader to take the proposal, or
\* at once with ErrStopped after Stop.
ConfPropose(c) ==
  /\ pc[c] = "cc_propose"
  /\ leader \/ Stopped
  /\ LET e == Entry("cc", op[c].id, c, inc)
     IN \/ /\ leader
           /\ ~Stopped
           /\ props' = props \union {e}
           /\ pc' = [pc EXCEPT ![c] = "cc_wait"]
           /\ lastRet' = NoRet
           /\ UNCHANGED <<op, pending, slot>>
        \/ /\ ProposeFailed(e)
           /\ TimeOut(c, "cc")
  /\ UNCHANGED <<nextReq, confCount, log, commit, leader, readReqs,
                 readStates, snap, applyVars, lifeVars>>

\* ProposeConfChange gives up only when the caller's ctx is done.
ConfProposeCtxDone(c) ==
  /\ pc[c] = "cc_propose"
  /\ op[c].dl
  /\ TimeOut(c, "cc")
  /\ UNCHANGED <<nextReq, confCount, engineVars, applyVars, lifeVars>>

ConfRecv(c) ==
  /\ pc[c] = "cc_wait"
  /\ Receive(c, "cc")
  /\ UNCHANGED <<nextReq, confCount, engineVars, applyVars, lifeVars>>

ConfTimeout(c) ==
  /\ pc[c] = "cc_wait"
  /\ TimeOut(c, "cc")
  /\ UNCHANGED <<nextReq, confCount, engineVars, applyVars, lifeVars>>

-----------------------------------------------------------------------------
(* readReadStates: each read state triggers the id its request context     *)
(* encodes with the read index.                                            *)

ReadState ==
  /\ readStates # <<>>
  /\ Trigger(Head(readStates)[1], Resp("index", Head(readStates)[2]))
  /\ readStates' = Tail(readStates)
  /\ lastRet' = NoRet
  /\ UNCHANGED <<pc, op, nextReq, confCount, props, log, commit, leader,
                 readReqs, snap, applyVars, lifeVars>>

-----------------------------------------------------------------------------
(* readCommits: one iteration per value received on commitC.               *)

clientVars == <<pc, op, nextReq, confCount>>

\* Bug variant: the snapshot is never restored (every load error taken
\* for ErrNoSnapshot).
LoadSnapshotSkipped ==
  /\ rc = "recv"
  /\ sentinel
  /\ sentinel' = FALSE
  /\ lastRet' = NoRet
  /\ UNCHANGED <<clientVars, pending, slot, engineVars, rc, rcResp, recvIdx,
                 lastTrigger, store, lifeVars>>

\* nil: load the latest snapshot and restore the Store from it;
\* ErrNoSnapshot is skipped.
LoadSnapshot ==
  /\ rc = "recv"
  /\ sentinel
  /\ sentinel' = FALSE
  /\ store' = IF snap.idx = 0 THEN store ELSE snap.data
  /\ lastRet' = NoRet
  /\ UNCHANGED <<clientVars, pending, slot, engineVars, rc, rcResp, recvIdx,
                 lastTrigger, lifeVars>>

\* The next committed entry raftNode publishes on commitC.
CanReceive == rc = "recv" /\ ~sentinel /\ recvIdx < commit
NextEntry == log[recvIdx + 1]

\* Bug variant: the result names the previous index.
ApplyNormalPrevIndex ==
  /\ CanReceive
  /\ NextEntry.type = "normal"
  /\ recvIdx' = recvIdx + 1
  /\ store' = Append(store, NextEntry.id)
  /\ rcResp' = <<NextEntry.id, Resp("result", recvIdx)>>
  /\ rc' = "trigger"
  /\ lastRet' = NoRet
  /\ UNCHANGED <<clientVars, pending, slot, engineVars, sentinel,
                 lastTrigger, lifeVars>>

\* EntryNormal: unmarshal the envelope and store.Save its payload; the
\* Store's result or error is what the id is triggered with.
ApplyNormal ==
  /\ CanReceive
  /\ NextEntry.type = "normal"
  /\ recvIdx' = recvIdx + 1
  /\ store' = Append(store, NextEntry.id)
  /\ \E r \in SaveResults(recvIdx + 1) : rcResp' = <<NextEntry.id, r>>
  /\ rc' = "trigger"
  /\ lastRet' = NoRet
  /\ UNCHANGED <<clientVars, pending, slot, engineVars, sentinel,
                 lastTrigger, lifeVars>>

\* ... then trigger the envelope's id with the Store's result.
TriggerSaved ==
  /\ rc = "trigger"
  /\ Trigger(rcResp[1], rcResp[2])
  /\ rc' = "advance"
  /\ rcResp' = <<NoId, NoResp>>
  /\ lastRet' = NoRet
  /\ UNCHANGED <<clientVars, engineVars, recvIdx, sentinel, store,
                 lastTrigger, lifeVars>>

\* EntryConfChange: unmarshal the ConfChange and trigger its id.
ApplyConfChange ==
  /\ CanReceive
  /\ NextEntry.type = "cc"
  /\ recvIdx' = recvIdx + 1
  /\ Trigger(NextEntry.id, Resp("cc", recvIdx + 1))
  /\ rc' = "advance"
  /\ lastRet' = NoRet
  /\ UNCHANGED <<clientVars, engineVars, rcResp, sentinel, store,
                 lastTrigger, lifeVars>>

\* Bug variant: an entry without data skips applyWait.Trigger too.
ApplyEmptySkipsTrigger ==
  /\ CanReceive
  /\ NextEntry.type = "empty"
  /\ recvIdx' = recvIdx + 1
  /\ lastRet' = NoRet
  /\ UNCHANGED <<clientVars, pending, slot, engineVars, rc, rcResp, sentinel,
                 store, lastTrigger, lifeVars>>

\* An entry without data (a new leader's empty entry) is only counted.
ApplyEmpty ==
  /\ CanReceive
  /\ NextEntry.type = "empty"
  /\ recvIdx' = recvIdx + 1
  /\ rc' = "advance"
  /\ lastRet' = NoRet
  /\ UNCHANGED <<clientVars, pending, slot, engineVars, rcResp, sentinel,
                 store, lastTrigger, lifeVars>>

\* Bug variant: the cursor is moved past the entry just applied.
AdvanceAppliedPastEntry ==
  /\ rc = "advance"
  /\ lastTrigger' = recvIdx + 1
  /\ rc' = "recv"
  /\ lastRet' = NoRet
  /\ UNCHANGED <<clientVars, pending, slot, engineVars, rcResp, recvIdx,
                 sentinel, store, lifeVars>>

\* applyWait.Trigger(entry.Index) wakes the reads waiting for this index.
AdvanceApplied ==
  /\ rc = "advance"
  /\ lastTrigger' = recvIdx
  /\ rc' = "recv"
  /\ lastRet' = NoRet
  /\ UNCHANGED <<clientVars, pending, slot, engineVars, rcResp, recvIdx,
                 sentinel, store, lifeVars>>

-----------------------------------------------------------------------------
(* The consensus engine and raftNode: the environment. No step of it is    *)
(* fair: raft may lose its leader, drop proposals and read requests, and   *)
(* stop committing at any time.                                            *)

raftLocal == <<clientVars, pending, slot, applyVars, lifeVars, lastRet>>

RaftAppend ==
  /\ Len(log) < MaxLog
  /\ \E e \in props : /\ log' = Append(log, e)
                     /\ props' = props \ {e}
  /\ UNCHANGED <<commit, leader, readReqs, readStates, snap>>

\* A proposal is lost with its leader, or a ConfChange proposed while
\* another is pending is replaced by an empty entry.
RaftDrop ==
  /\ \E e \in props : props' = props \ {e}
  /\ UNCHANGED <<log, commit, leader, readReqs, readStates, snap>>

\* A new leader's empty entry, or an entry proposed on another node: a
\* Save (its id never registered here, or, when the two nodes' ids agree
\* in their low 16 bits and their clocks meet, one of this node's ids) or
\* a ConfChange whose id is that node's own confChangeCount.
RaftAppendOther ==
  /\ Len(log) < MaxLog
  /\ \E e \in {EmptyEntry}
             \union (IF ForeignWrites THEN {Entry("normal", ExtId, Foreign, 0)}
                                      ELSE {})
             \union {Entry("normal", ReqId(k), Foreign, 0) : k \in CollidingReqIds}
             \union {Entry("cc", CcId(k), Foreign, 0) : k \in ForeignConfIds} :
       log' = Append(log, e)
  /\ UNCHANGED <<props, commit, leader, readReqs, readStates, snap>>

RaftCommit ==
  /\ commit < Len(log)
  /\ commit' = commit + 1
  /\ UNCHANGED <<props, log, leader, readReqs, readStates, snap>>

RaftLeader ==
  /\ leader' = ~leader
  /\ UNCHANGED <<props, log, commit, readReqs, readStates, snap>>

\* The leader confirms its leadership and answers a read index request
\* with its commit index; raftNode forwards it on readStateC.
RaftReadIndex ==
  /\ leader
  /\ \E rid \in readReqs : /\ readStates' = Append(readStates, <<rid, commit>>)
                          /\ readReqs' = readReqs \ {rid}
  /\ UNCHANGED <<props, log, commit, leader, snap>>

RaftDropRead ==
  /\ \E rid \in readReqs : readReqs' = readReqs \ {rid}
  /\ UNCHANGED <<props, log, commit, leader, readStates, snap>>

\* raftNode snapshots the Store (store.Backup) at its applied index. A
\* snapshot is only read after a restart: none is taken when none is left.
RaftSnapshot ==
  /\ inc < MaxRestarts
  /\ rc = "recv"
  /\ ~sentinel
  /\ recvIdx > snap.idx
  /\ snap' = [idx |-> recvIdx, data |-> store]
  /\ UNCHANGED <<props, log, commit, leader, readReqs, readStates>>

\* A follower too far behind receives the leader's snapshot: raftNode
\* saves it, skips the entries it covers and publishes a nil on commitC,
\* so readCommits restores the Store from it.
RaftInstallSnapshot ==
  /\ InstallSnapshots
  /\ rc = "recv"
  /\ ~sentinel
  /\ \E k \in recvIdx + 1..commit :
       /\ snap' = [idx |-> k, data |-> WriteIds(SubSeq(log, 1, k))]
       /\ recvIdx' = k
  /\ sentinel' = TRUE
  /\ UNCHANGED <<props, log, commit, leader, readReqs, readStates,
                 clientVars, pending, slot, rc, rcResp, store, lastTrigger,
                 lifeVars, lastRet>>

Raft ==
  /\ ~Stopped
  /\ \/ RaftAppend \/ RaftDrop \/ RaftAppendOther \/ RaftCommit
     \/ RaftLeader \/ RaftReadIndex \/ RaftDropRead \/ RaftSnapshot
  /\ UNCHANGED raftLocal

-----------------------------------------------------------------------------
(* Stop: close(node.stopc), store.Close(), statsCli.Close(). Calls in      *)
(* progress are not waited for, and readCommits keeps draining commitC.    *)
(* Closing stopc a second time panics.                                     *)

Stop ==
  /\ stopCalls < MaxStops
  /\ stopCalls' = stopCalls + 1
  /\ panicked' = Stopped
  /\ lastRet' = NoRet
  /\ UNCHANGED <<clientVars, pending, slot, engineVars, applyVars, inc>>

-----------------------------------------------------------------------------
(* The process dies (log.Fatal/log.Panic in readCommits, or a crash) and   *)
(* restarts: every in-memory structure is new, callers' RPCs fail; the     *)
(* raft log and snapshot survive, and raftNode replays the entries after   *)
(* the snapshot behind a nil on commitC. idGen is seeded from the clock    *)
(* and keeps growing.                                                      *)

Restart ==
  /\ inc < MaxRestarts
  /\ inc' = inc + 1
  /\ pc' = [c \in Clients |-> "idle"]
  /\ op' = [c \in Clients |-> NoOp]
  /\ confCount' = 0
  /\ pending' = {}
  /\ slot' = [id \in Ids |-> <<>>]
  /\ leader' = FALSE
  /\ readReqs' = {}
  /\ readStates' = <<>>
  /\ rc' = "recv"
  /\ recvIdx' = snap.idx
  /\ sentinel' = TRUE
  /\ store' = <<>>
  /\ lastTrigger' = 0
  /\ lastRet' = NoRet
  /\ rcResp' = <<NoId, NoResp>>
  /\ stopCalls' = 0
  /\ panicked' = FALSE
  /\ nextReq' \in IF IdReuseOnRestart THEN 0..nextReq ELSE {nextReq}
  /\ UNCHANGED <<props, log, commit, snap>>

-----------------------------------------------------------------------------

Init ==
  /\ pc = [c \in Clients |-> "idle"]
  /\ op = [c \in Clients |-> NoOp]
  /\ nextReq = 0
  /\ confCount = 0
  /\ pending = {}
  /\ slot = [id \in Ids |-> <<>>]
  /\ props = {}
  /\ log = <<>>
  /\ commit = 0
  /\ leader \in BOOLEAN
  /\ readReqs = {}
  /\ readStates = <<>>
  /\ rc = "recv"
  /\ rcResp = <<NoId, NoResp>>
  /\ recvIdx = 0
  /\ sentinel = TRUE
  /\ store = <<>>
  /\ lastTrigger = 0
  /\ snap = [idx |-> 0, data |-> <<>>]
  /\ inc = 0
  /\ stopCalls = 0
  /\ panicked = FALSE
  /\ lastRet = NoRet

ClientStep(c) ==
  \/ SaveRecv(c) \/ SaveTimeout(c)
  \/ LoadIndex(c) \/ LoadTimeout(c) \/ LoadRead(c) \/ LoadApplyTimeout(c)
  \/ ConfPropose(c) \/ ConfProposeCtxDone(c) \/ ConfRecv(c) \/ ConfTimeout(c)

ClientCall(c) == Save(c) \/ Load(c) \/ ConfReject(c) \/ ConfStart(c)

ReadCommits ==
  \/ LoadSnapshot \/ ApplyNormal \/ TriggerSaved \/ ApplyConfChange
  \/ ApplyEmpty \/ AdvanceApplied

Next ==
  \/ \E c \in Clients : ClientCall(c) \/ ClientStep(c)
  \/ ReadCommits
  \/ ReadState
  \/ Raft
  \/ ~Stopped /\ RaftInstallSnapshot
  \/ Stop
  \/ Restart

\* Callers are not obliged to call; a call in progress always moves on, as
\* every wait in it selects on a context that expires (child_ctx), except
\* ProposeConfChange under a caller ctx without deadline. The readCommits
\* and readReadStates goroutines run whenever their channel has a value.
Fairness ==
  /\ \A c \in Clients : WF_vars(ClientStep(c))
  /\ WF_vars(ReadCommits)
  /\ WF_vars(ReadState)

Spec == Init /\ [][Next]_vars /\ Fairness

-----------------------------------------------------------------------------
(* Properties.                                                             *)

Pcs == {"idle", "save_wait", "load_wait", "load_apply", "cc_propose", "cc_wait"}
Rets == {NoRet} \union
        [c : Clients, kind : {"save", "load", "cc"}, ok : BOOLEAN,
         id : Ids \union {NoId}, val : 0..MaxLog, at : 0..MaxLog,
         seen : Seq(Ids \union {ExtId}), inc : 0..MaxRestarts]

TypeOK ==
  /\ pc \in [Clients -> Pcs]
  /\ op \in [Clients -> [id : Ids \union {NoId}, dl : BOOLEAN,
                          at : 0..MaxLog, ridx : 0..MaxLog + 1]]
  /\ nextReq \in 0..MaxReqIds /\ confCount \in 0..MaxConfIds
  /\ pending \subseteq Ids
  /\ slot \in [Ids -> {<<>>} \union {<<r>> : r \in Resps}]
  /\ props \subseteq Entries
  /\ log \in Seq(Entries) /\ Len(log) <= MaxLog
  /\ commit \in 0..Len(log)
  /\ leader \in BOOLEAN
  /\ readReqs \subseteq Ids
  /\ readStates \in Seq(Ids \X (0..MaxLog))
  /\ rc \in {"recv", "trigger", "advance"}
  /\ rcResp \in (Ids \union {NoId, ExtId}) \X (Resps \union {NoResp})
  /\ recvIdx \in 0..commit
  /\ sentinel \in BOOLEAN
  /\ store \in Seq(Ids \union {ExtId})
  /\ lastTrigger \in 0..recvIdx
  /\ snap \in [idx : 0..MaxLog, data : Seq(Ids \union {ExtId})]
  /\ inc \in 0..MaxRestarts
  /\ stopCalls \in 0..MaxStops
  /\ panicked \in BOOLEAN
  /\ lastRet \in Rets

\* The wait list holds only the ids of calls still waiting on them: every
\* path out of Save, Load and proposeConfigChange triggers its id or has
\* had it triggered, so the map cannot grow without bound over the life
\* of the process.
RegistryNoLeak ==
  \A id \in pending : \E c \in Clients :
     /\ op[c].id = id
     /\ pc[c] \in {"save_wait", "load_wait", "cc_propose", "cc_wait"}

\* A Save or an AddMember/RemoveMember that returns success was answered
\* by the apply of the very entry it proposed (same id, same caller, same
\* process lifetime), not by another write or ConfChange, of this node
\* or another, before or after a restart, that carries the same id.
AckIsOwn ==
  lastRet.kind \in {"save", "cc"} /\ lastRet.ok =>
    /\ lastRet.val \in 1..Len(log)
    /\ log[lastRet.val].type = IF lastRet.kind = "save" THEN "normal" ELSE "cc"
    /\ log[lastRet.val].id = lastRet.id
    /\ log[lastRet.val].by = lastRet.c
    /\ log[lastRet.val].inc = lastRet.inc

\* Linearizable reads: the Store content a successful Load reads contains
\* every write committed before the Load was called, in log order.
LoadLinearizable ==
  lastRet.kind = "load" /\ lastRet.ok =>
    IsPrefix(WriteIds(SubSeq(log, 1, lastRet.at)), lastRet.seen)

\* Whenever no nil is queued on commitC, the Store holds exactly the
\* writes of the committed log up to the last index readCommits received,
\* each once and in order: also after a restart restored it from the
\* snapshot and the log was replayed, and after a leader's snapshot
\* replaced the entries it covers.
StoreIsLogPrefix ==
  ~sentinel => store = WriteIds(SubSeq(log, 1, recvIdx))

\* The apply cursor is the highest index whose apply has completed: once
\* readCommits waits for the next value of commitC, applyWait has been
\* triggered up to the last index it received, also after a snapshot was
\* restored (spec section 8, restart recovery: the cursor resumes from the
\* snapshot's index). A Load whose read index the Store already reflects
\* can then proceed.
ApplyCursorAtApplied ==
  rc = "recv" /\ ~sentinel => lastTrigger = recvIdx

\* Once Stop has closed the Store, neither readCommits (store.Save,
\* store.Restore) nor a Load in progress (store.Load) uses it again in
\* this process lifetime; calls racing Stop fail instead.
StoreUnusedAfterClose ==
  [][Stopped /\ inc' = inc => store' = store /\ lastRet'.kind # "load"]_vars

-----------------------------------------------------------------------------
(* Refinement: the replicator implements ReplicatedStore. The writes in    *)
(* effect are those of the committed log prefix; the request ids handed    *)
(* out are idGen's; a call in progress is its kind, its id and, for a      *)
(* Load, the writes committed when it asked for its read index.            *)

AbsNoCall == [kind |-> "none", id |-> NoId, from |-> 0]
AbsNoRet == [c |-> Foreign, kind |-> "none", id |-> NoId, seen |-> <<>>]

CallKind(p) ==
  CASE p = "save_wait" -> "save"
    [] p \in {"load_wait", "load_apply"} -> "load"
    [] p \in {"cc_propose", "cc_wait"} -> "cc"

AbsCalls ==
  [c \in Clients |->
     IF pc[c] = "idle" THEN AbsNoCall
     ELSE [kind |-> CallKind(pc[c]), id |-> op[c].id,
           from |-> Len(WriteIds(SubSeq(log, 1, op[c].at)))]]

AbsRet ==
  IF lastRet = NoRet THEN AbsNoRet
  ELSE [c |-> lastRet.c, kind |-> lastRet.kind, id |-> lastRet.id,
        seen |-> lastRet.seen]

RS == INSTANCE ReplicatedStore
        WITH ReqIds <- {ReqId(n) : n \in 1..MaxReqIds},
             CcIds <- {CcId(n) : n \in 1..MaxConfIds},
             OtherWrite <- ExtId,
             NoCall <- AbsNoCall,
             NoRet <- AbsNoRet,
             committed <- WriteIds(SubSeq(log, 1, commit)),
             issued <- {ReqId(n) : n \in 1..nextReq},
             calls <- AbsCalls,
             ret <- AbsRet

\* Every behaviour of the replicator, raft failures, restarts, snapshot
\* installs and other nodes' writes included, is one of ReplicatedStore:
\* writes take effect once each in log order, a successful Save's write
\* is in effect, a successful Load reads a prefix of the writes in effect
\* that contains all writes in effect when it was called.
ImplementsReplicatedStore == RS!Spec

\* No lost wakeup: every index raft commits eventually reaches applyWait,
\* whatever kind of entry it holds, so Loads waiting for it are woken.
AppliedEventuallyVisible ==
  \A i \in 1..MaxLog : commit >= i ~> lastTrigger >= i

\* Every call eventually returns.
OpsTerminate == \A c \in Clients : pc[c] # "idle" ~> pc[c] = "idle"

=============================================================================
