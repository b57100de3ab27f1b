--------------------------- MODULE ReplicatedStore ---------------------------
(***************************************************************************)
(* What the replicator promises its callers (spec sections 1 and 8): a     *)
(* store whose writes take effect one at a time in a single order, each    *)
(* at most once, where a Save that succeeds has taken effect and a Load    *)
(* that succeeds reads a state of the store at least as recent as the one  *)
(* when it was called. Any call may instead fail, and the process may      *)
(* crash, failing every call in progress.                                  *)
(***************************************************************************)
EXTENDS Naturals, Sequences, SequencesExt

CONSTANTS
  Clients,   \* callers
  ReqIds,    \* request ids a call can be given
  CcIds,     \* ConfChange ids
  OtherWrite,\* the id of any write submitted through another node
  NoCall,    \* a caller with no call in progress
  NoRet      \* the last step returned no successful call

VARIABLES
  committed, \* the writes that took effect, in order
  issued,    \* request ids handed out so far
  calls,     \* calls[c]: c's call in progress, or NoCall
  ret        \* the call the last step returned successfully, or NoRet

avars == <<committed, issued, calls, ret>>

Init ==
  /\ committed = <<>>
  /\ issued = {}
  /\ calls = [c \in Clients |-> NoCall]
  /\ ret = NoRet

\* A caller starts a call with a fresh request id (Save, Load) or a
\* ConfChange id; a Load remembers how far the store was when it began.
\* The call may fail at once.
Invoke(c) ==
  /\ calls[c] = NoCall
  /\ \/ \E id \in ReqIds \ issued, k \in {"save", "load"} :
          /\ issued' = issued \union {id}
          /\ calls' \in {calls, [calls EXCEPT ![c] =
                          [kind |-> k, id |-> id,
                           from |-> IF k = "load" THEN Len(committed) ELSE 0]]}
     \/ \E id \in CcIds :
          /\ calls' = [calls EXCEPT ![c] = [kind |-> "cc", id |-> id, from |-> 0]]
          /\ UNCHANGED issued
  /\ ret' = NoRet
  /\ UNCHANGED committed

\* A write takes effect: one issued here and not yet in effect, or one
\* submitted through another node.
Commit ==
  /\ \E w \in (issued \ Range(committed)) \union {OtherWrite} :
       committed' = Append(committed, w)
  /\ UNCHANGED <<issued, calls, ret>>

\* What a successful call may return.
Results(c) ==
  LET call == calls[c] IN
  CASE call.kind = "save" ->
         IF call.id \in Range(committed)
         THEN {[c |-> c, kind |-> "save", id |-> call.id, seen |-> <<>>]}
         ELSE {}
    [] call.kind = "load" ->
         {[c |-> c, kind |-> "load", id |-> call.id,
           seen |-> SubSeq(committed, 1, n)] : n \in call.from..Len(committed)}
    [] call.kind = "cc" ->
         {[c |-> c, kind |-> "cc", id |-> call.id, seen |-> <<>>]}

\* A call returns: with an error, or with one of its possible results.
Return(c) ==
  /\ calls[c] # NoCall
  /\ calls' = [calls EXCEPT ![c] = NoCall]
  /\ ret' \in {NoRet} \union Results(c)
  /\ UNCHANGED <<committed, issued>>

\* A step that returns nothing.
Quiet ==
  /\ ret' = NoRet
  /\ UNCHANGED <<committed, issued, calls>>

\* The process crashes: every call in progress fails.
Crash ==
  /\ calls' = [c \in Clients |-> NoCall]
  /\ ret' = NoRet
  /\ UNCHANGED <<committed, issued>>

Next == \/ \E c \in Clients : Invoke(c) \/ Return(c)
        \/ Commit \/ Quiet \/ Crash

Spec == Init /\ [][Next]_avars
=============================================================================
