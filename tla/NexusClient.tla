---------------------------- MODULE NexusClient ----------------------------
(***************************************************************************)
(* The gRPC client of internal/grpc/client.go: goroutines sharing one      *)
(* NexusClient call Save, Load, AddNode, RemoveNode and ListNodes, each    *)
(* under its own 10 s timeout, while any of them may Close the connection. *)
(* The generated stub (nexus_grpc.pb.go) returns (nil, err) when Invoke   *)
(* fails and the decoded response otherwise.                               *)
(***************************************************************************)
EXTENDS Naturals

CONSTANTS Callers

Methods == {"Save", "Load", "AddNode", "RemoveNode", "ListNodes"}

\* What Invoke can end with: a transport error (unavailable, deadline
\* exceeded, connection closing), or a decoded response whose status code
\* is an error (code_err) or 0 (ok).
Outcomes == {"rpc_err", "code_err", "ok"}

VARIABLES
  pc,        \* pc[c]: "idle", "close", or the method c is in
  conn,      \* "ready" until cliConn.Close(), then "closed"
  panicked,  \* a goroutine dereferenced a nil response: the process died
  lastRet    \* the call returned by the last step (history)

vars == <<pc, conn, panicked, lastRet>>

NoRet == [c |-> "none", m |-> "none", out |-> "none", ok |-> FALSE]

Init ==
  /\ pc = [c \in Callers |-> "idle"]
  /\ conn = "ready"
  /\ panicked = FALSE
  /\ lastRet = NoRet

\* A goroutine calls one of the methods; the request is sent.
Call(c) ==
  /\ ~panicked /\ pc[c] = "idle"
  /\ \E m \in Methods \union {"close"} : pc' = [pc EXCEPT ![c] = m]
  /\ UNCHANGED <<conn, panicked, lastRet>>

\* Invoke on a closed connection fails; otherwise the server or the
\* network decides.
Invoke(out) == IF conn = "closed" THEN out = "rpc_err" ELSE out \in Outcomes

\* Save and Load: err -> error; Status.Code != 0 -> error; else ResData.
SaveLoadOk(out) == out = "ok"

\* AddNode and RemoveNode: err -> error; res.Code != 0 -> error; else nil.
NodeOpOk(out) == out = "ok"

\* Save, Load, AddNode and RemoveNode return their result to the caller.
Return(c) ==
  /\ ~panicked /\ pc[c] \in {"Save", "Load", "AddNode", "RemoveNode"}
  /\ \E out \in Outcomes :
       /\ Invoke(out)
       /\ lastRet' = [c |-> c, m |-> pc[c], out |-> out,
                      ok |-> IF pc[c] \in {"Save", "Load"}
                             THEN SaveLoadOk(out) ELSE NodeOpOk(out)]
  /\ pc' = [pc EXCEPT ![c] = "idle"]
  /\ UNCHANGED <<conn, panicked>>

\* ListNodes: `res, _ := ListNodes(ctx, nil); return res.Nodes`. The error
\* is dropped and res is nil when Invoke failed: the dereference panics.
ListNodes(c) ==
  /\ ~panicked /\ pc[c] = "ListNodes"
  /\ \E out \in Outcomes :
       /\ Invoke(out)
       /\ panicked' = (out = "rpc_err")
       /\ lastRet' = IF out = "rpc_err" THEN NoRet
                     ELSE [c |-> c, m |-> "ListNodes", out |-> out, ok |-> TRUE]
  /\ pc' = [pc EXCEPT ![c] = "idle"]
  /\ UNCHANGED conn

\* Close: cliConn.Close(); a second Close returns ErrClientConnClosing.
Close(c) ==
  /\ ~panicked /\ pc[c] = "close"
  /\ conn' = "closed"
  /\ lastRet' = [c |-> c, m |-> "close", out |-> "none", ok |-> conn = "ready"]
  /\ pc' = [pc EXCEPT ![c] = "idle"]
  /\ UNCHANGED panicked

Next == \E c \in Callers : Call(c) \/ Return(c) \/ ListNodes(c) \/ Close(c)

Spec == Init /\ [][Next]_vars

-----------------------------------------------------------------------------

\* The client reports a failed RPC as an error and never crashes the
\* calling process, whichever method is called when the server is down or
\* the connection is closed.
NoPanic == ~panicked
=============================================================================
