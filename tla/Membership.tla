----------------------------- MODULE Membership -----------------------------
(***************************************************************************)
(* ListMembers (replicator.go): the status of every peer, computed from    *)
(* the leader id, this node's raft state and the transport's activity.     *)
(* The call reads the leader id once, then visits the peers of rpeers one *)
(* at a time, reading the raft state and the transport at each visit;    *)
(* raft and the transport change between visits.  The statuses returned  *)
(* are compared with the status rules of the spec (section 4.F).          *)
(***************************************************************************)
EXTENDS Naturals, FiniteSets, TLC

CONSTANTS
  Peers,   \* node ids in raftNode.rpeers (non-zero)
  Self     \* this node's id

ASSUME Peers \subseteq Nat \ {0} /\ Self \in Peers

NoLeader == 0
RaftStates == {"StateFollower", "StateCandidate", "StatePreCandidate",
               "StateLeader"}
Statuses == {"LEADER", "FOLLOWER", "CANDIDATE", "OFFLINE", "UNKNOWN"}
\* The result of a call that has not returned yet.
NoResult == [lead |-> NoLeader, members |-> <<>>, read |-> <<>>]

\* One raft Status(): a leader knows it leads, a (pre-)candidate has
\* cleared its leader, a follower follows another node or none.
RaftConsistent(ld, st) ==
  /\ st = "StateLeader" <=> ld = Self
  /\ st \in {"StateCandidate", "StatePreCandidate"} => ld = NoLeader

VARIABLES
  lead,     \* raft's leader id, as getLeaderId() reports it
  role,     \* node.Status().RaftState of this node
  active,   \* active[p]: transport.ActiveSince(p) is not zero
  lc,       \* "idle" or "loop": where the ListMembers call is
  ld,       \* the local lead: the leader id read at the start of the call
  todo,     \* peers of rpeers the range loop has not visited yet
  members,  \* the members map built so far
  read,     \* read[id]: the raft state and activity the visit of id read
  result    \* what the last ListMembers returned, until the next call
            \* begins, or NoResult

vars == <<lead, role, active, lc, ld, todo, members, read, result>>

\* The transport checked before the self branch: this node has no
\* transport activity with itself.
MemberStatusOfflineFirst(id, ld0, st, act) ==
  IF id = ld0 THEN "LEADER"
  ELSE IF ~act[id] THEN "OFFLINE"
  ELSE IF id = Self THEN "FOLLOWER"
  ELSE IF ld0 # NoLeader THEN "FOLLOWER"
  ELSE "UNKNOWN"

\* The self branch passing the raft state string through unmapped.
MemberStatusRawState(id, ld0, st, act) ==
  IF id = ld0 THEN "LEADER"
  ELSE IF id = Self THEN st
  ELSE IF ~act[id] THEN "OFFLINE"
  ELSE IF ld0 # NoLeader THEN "FOLLOWER"
  ELSE "UNKNOWN"

\* The branch chain of ListMembers for one peer.
MemberStatus(id, ld0, st, act) ==
  IF id = ld0 THEN "LEADER"
  ELSE IF id = Self
       THEN IF st = "StateFollower" THEN "FOLLOWER"
            ELSE IF st \in {"StateCandidate", "StatePreCandidate"}
                 THEN "CANDIDATE" ELSE "UNKNOWN"
  ELSE IF ~act[id] THEN "OFFLINE"
  ELSE IF ld0 # NoLeader THEN "FOLLOWER"
  ELSE "UNKNOWN"

Init ==
  /\ lead \in {NoLeader} \union Peers
  /\ role \in RaftStates
  /\ RaftConsistent(lead, role)
  /\ active \in [Peers -> BOOLEAN]
  /\ lc = "idle"
  /\ ld = NoLeader
  /\ todo = {}
  /\ members = <<>>
  /\ read = <<>>
  /\ result = NoResult

\* Raft changes leader or role: an election, a step-down, a new term.
RaftStep ==
  /\ \E l \in {NoLeader} \union Peers, st \in RaftStates :
       /\ RaftConsistent(l, st)
       /\ <<l, st>> # <<lead, role>>
       /\ lead' = l
       /\ role' = st
  /\ UNCHANGED <<active, lc, ld, todo, members, read, result>>

\* The transport gains or loses contact with a peer.
TransportStep ==
  /\ \E p \in Peers : active' = [active EXCEPT ![p] = ~@]
  /\ UNCHANGED <<lead, role, lc, ld, todo, members, read, result>>

\* ListMembers starts: lead := getLeaderId(); an empty map; the range
\* over rpeers begins.
Begin ==
  /\ lc = "idle"
  /\ lc' = "loop"
  /\ ld' = lead
  /\ todo' = Peers
  /\ members' = <<>>
  /\ read' = <<>>
  /\ result' = NoResult
  /\ UNCHANGED <<lead, role, active>>

\* One iteration of the range loop, for the peer id the map iteration
\* yields next: ActiveSince(id), the raft state if id is this node, and
\* the branch chain with the lead read at the start.
Visit(id) ==
  /\ lc = "loop"
  /\ id \in todo
  /\ todo' = todo \ {id}
  /\ members' = (id :> MemberStatus(id, ld, role, active)) @@ members
  /\ read' = (id :> [st |-> role, act |-> active[id]]) @@ read
  /\ UNCHANGED <<lead, role, active, lc, ld, result>>

\* The loop is done: return lead, members.  The call's locals die.
Finish ==
  /\ lc = "loop"
  /\ todo = {}
  /\ lc' = "idle"
  /\ result' = [lead |-> ld, members |-> members, read |-> read]
  /\ ld' = NoLeader
  /\ members' = <<>>
  /\ read' = <<>>
  /\ UNCHANGED <<lead, role, active, todo>>

Next ==
  \/ RaftStep
  \/ TransportStep
  \/ Begin
  \/ \E id \in Peers : Visit(id)
  \/ Finish

Spec == Init /\ [][Next]_vars

-----------------------------------------------------------------------------

TypeOK ==
  /\ lead \in {NoLeader} \union Peers
  /\ role \in RaftStates
  /\ active \in [Peers -> BOOLEAN]
  /\ lc \in {"idle", "loop"}
  /\ ld \in {NoLeader} \union Peers
  /\ todo \subseteq Peers
  /\ lc = "loop" => DOMAIN members = Peers \ todo
  /\ \A id \in DOMAIN members : members[id] \in Statuses
  /\ result = NoResult \/ DOMAIN result.members = Peers

\* Section 4.F of the spec, rule by rule, for the node's own entry and
\* for a peer, given the leader id the call returned and the raft state
\* and activity read for that peer: the leader is LEADER; this node
\* reports its own raft role (it has no transport activity with itself,
\* so it is never OFFLINE); a silent peer is OFFLINE; with a known
\* leader other peers are FOLLOWER.
SpecStatus(id, l, in) ==
  CASE id = l -> "LEADER"
    [] id = Self /\ in.st = "StateFollower" -> "FOLLOWER"
    [] id = Self /\ in.st \in {"StateCandidate", "StatePreCandidate"} -> "CANDIDATE"
    [] id = Self -> "UNKNOWN"
    [] ~in.act -> "OFFLINE"
    [] l # NoLeader -> "FOLLOWER"
    [] OTHER -> "UNKNOWN"

\* Every status ListMembers returns is the one the spec's rules give for
\* the leader id it returned and what it read of raft and the transport
\* for that peer, whatever changed while the loop ran.
ListMembersMatchesSpec ==
  result # NoResult =>
    \A id \in Peers : result.members[id] = SpecStatus(id, result.lead, result.read[id])
=============================================================================
