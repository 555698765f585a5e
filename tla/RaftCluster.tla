---------------------------- MODULE RaftCluster ----------------------------
(***************************************************************************)
(* The Raft mode of the cluster (smiths-raft): the SQLite log store, the   *)
(* state machine over the live dialog table, the RPC transport, start-up   *)
(* and the replicator that writes the SIP layer's deltas through Raft.     *)
(*                                                                         *)
(* Consensus itself is openraft's and is modelled from how the store, the  *)
(* network and the node use it: votes are ordered pairs of term and node,  *)
(* a voter compares the candidate's last log id with its own, a leader     *)
(* commits what a quorum acknowledged.  An RPC is one connection; a lost   *)
(* request is a step not taken, a lost response one that is not counted.   *)
(* Snapshots and purging, which openraft starts after thousands of         *)
(* entries, are not modelled, and the leader lease only delays votes.      *)
(***************************************************************************)
EXTENDS Integers, Sequences, FiniteSets

CONSTANTS
    RaftNodes,       \* node ids, positive integers
    SipNodes,        \* the nodes that SIP traffic reaches
    Candidates,      \* bound: the nodes whose election timer may fire
    RaftDialogs,     \* dialog keys; a key is never used twice
    WriteQueueDepth, \* WRITE_QUEUE_DEPTH
    MaxTerm,         \* bound: terms
    MaxRaftWrites,   \* bound: changes the SIP layer makes
    MaxRestarts      \* bound: node restarts

ASSUME RaftAssumption ==
    /\ RaftNodes \subseteq Nat \ {0} /\ IsFiniteSet(RaftNodes) /\ SipNodes \cup Candidates \subseteq RaftNodes
    /\ WriteQueueDepth \in Nat \ {0} /\ MaxTerm \in Nat /\ MaxRaftWrites \in Nat
    /\ MaxRestarts \in Nat

VARIABLES
    rlog,       \* node -> the rows of raft_logs: [id, delta]
    vote,       \* node -> the saved vote <<term, node>>
    lastLogId,  \* node -> the last log id openraft holds: <<term, node, index>>
    role,       \* node -> follower, candidate or leader
    granted,    \* node -> the votes its candidacy collected
    acked,      \* leader -> node -> entries acknowledged
    commitTo,   \* node -> committed entries it knows of
    applied,    \* node -> last_applied
    dialogsOf,  \* node -> dialog -> version in the live table, 0 when absent
    writeQueue, \* node -> the deltas waiting for the write task
    inFlight,   \* node -> index its client_write waits for, 0 when none
    written,    \* dialog -> the version the SIP layer last left, Unborn at first
    unwritten,  \* history: dialogs a delta of which was dropped
    sipWrites,  \* changes the SIP layer has made
    committed,  \* history: entries any leader has committed
    restarts

raftVars == <<rlog, vote, lastLogId, role, granted, acked, commitTo, applied, dialogsOf, writeQueue,
              inFlight, written, unwritten, sipWrites, committed, restarts>>
electionVars == <<vote, role, granted, acked>>
logVars == <<rlog, lastLogId>>
sipSideVars == <<writeQueue, inFlight, written, unwritten, sipWrites>>
raftHistory == <<committed, restarts>>

Quorums == {q \in SUBSET RaftNodes : 2 * Cardinality(q) > Cardinality(RaftNodes)}
Blank == [kind |-> "blank"]
UpsertOf(d, v) == [kind |-> "upsert", key |-> d, ver |-> v]
DeleteOf(d) == [kind |-> "delete", key |-> d, ver |-> 0]
Unborn == -1
NoVote == <<0, 0>>
NoLog == <<0, 0, 0>>
NoAcks == [m \in RaftNodes |-> 0]

(* Tuples of numbers in lexicographic order. *)
AtLeast(a, b) ==
    a = b \/ \E i \in DOMAIN a : a[i] > b[i] /\ \A j \in 1 .. i - 1 : a[j] = b[j]

(* initialize gives every node the same first entry, the membership. *)
FirstEntry == [id |-> <<0, 0>>, delta |-> [kind |-> "membership"]]

IdOf(log) == IF log = <<>> THEN NoLog ELSE log[Len(log)].id \o <<Len(log)>>

RaftInit ==
    /\ rlog = [n \in RaftNodes |-> <<FirstEntry>>]
    /\ lastLogId = [n \in RaftNodes |-> IdOf(<<FirstEntry>>)]
    /\ vote = [n \in RaftNodes |-> NoVote]
    /\ role = [n \in RaftNodes |-> "follower"]
    /\ granted = [n \in RaftNodes |-> {}]
    /\ acked = [n \in RaftNodes |-> NoAcks]
    /\ commitTo = [n \in RaftNodes |-> 0] /\ applied = [n \in RaftNodes |-> 0]
    /\ dialogsOf = [n \in RaftNodes |-> [d \in RaftDialogs |-> 0]]
    /\ writeQueue = [n \in RaftNodes |-> <<>>] /\ inFlight = [n \in RaftNodes |-> 0]
    /\ written = [d \in RaftDialogs |-> Unborn] /\ unwritten = {} /\ sipWrites = 0
    /\ committed = 0 /\ restarts = 0

-----------------------------------------------------------------------------
(* Elections: openraft, over save_vote and the vote RPC. *)

(* The vote is on disk before an answer leaves. *)
SaveVote(n, v) == vote' = [vote EXCEPT ![n] = v]

Campaign(n) ==
    /\ n \in Candidates /\ role[n] # "leader" /\ vote[n][1] < MaxTerm
    /\ SaveVote(n, <<vote[n][1] + 1, n>>)
    /\ role' = [role EXCEPT ![n] = "candidate"]
    /\ granted' = [granted EXCEPT ![n] = {n}]
    /\ UNCHANGED <<logVars, acked, commitTo, applied, dialogsOf, sipSideVars, raftHistory>>

(* A node that follows a later vote has no candidacy and no progress. *)
Follow(m) ==
    /\ role' = [role EXCEPT ![m] = "follower"]
    /\ acked' = [acked EXCEPT ![m] = NoAcks]

(* The answer to a vote request: a later vote and a log not behind mine. *)
GrantVote(n, m) ==
    /\ role[n] = "candidate" /\ m # n /\ m \notin granted[n]
    /\ AtLeast(vote[n], vote[m]) /\ AtLeast(lastLogId[n], lastLogId[m])
    /\ SaveVote(m, vote[n])
    /\ Follow(m)
    /\ granted' = [granted EXCEPT ![n] = @ \cup {m}, ![m] = {}]
    /\ UNCHANGED <<logVars, commitTo, applied, dialogsOf, sipSideVars, raftHistory>>

(* An RPC answered with a later vote makes its sender follow it. *)
Superseded(n, m) ==
    /\ role[n] # "follower" /\ ~AtLeast(vote[n], vote[m])
    /\ SaveVote(n, vote[m])
    /\ Follow(n)
    /\ granted' = [granted EXCEPT ![n] = {}]
    /\ UNCHANGED <<logVars, commitTo, applied, dialogsOf, sipSideVars, raftHistory>>

(* Rows are inserted or replaced in one transaction. *)
AppendRow(n, entry) ==
    /\ rlog' = [rlog EXCEPT ![n] = Append(@, entry)]
    /\ lastLogId' = [lastLogId EXCEPT ![n] = entry.id \o <<Len(rlog[n]) + 1>>]

TruncateRows(n, i) ==
    /\ rlog' = [rlog EXCEPT ![n] = SubSeq(@, 1, i)]
    /\ lastLogId' = [lastLogId EXCEPT ![n] = IdOf(SubSeq(rlog[n], 1, i))]

BecomeLeader(n) ==
    /\ role[n] = "candidate" /\ granted[n] \in Quorums
    /\ role' = [role EXCEPT ![n] = "leader"]
    /\ granted' = [granted EXCEPT ![n] = {}]
    /\ AppendRow(n, [id |-> vote[n], delta |-> Blank])
    /\ acked' = [acked EXCEPT ![n] = [m \in RaftNodes |-> IF m = n THEN Len(rlog[n]) + 1 ELSE 0]]
    /\ UNCHANGED <<vote, commitTo, applied, dialogsOf, sipSideVars, raftHistory>>

-----------------------------------------------------------------------------
(* Replication: the append_entries RPC over truncate and append. *)

Shared(l, m) ==
    CHOOSE i \in 0 .. Len(rlog[l]) :
      /\ i <= Len(rlog[m]) /\ SubSeq(rlog[l], 1, i) = SubSeq(rlog[m], 1, i)
      /\ i < Len(rlog[l]) /\ i < Len(rlog[m]) => rlog[l][i + 1] # rlog[m][i + 1]

Smallest(a, b) == IF a < b THEN a ELSE b

(* The follower takes the leader's vote, drops rows that conflict and      *)
(* stores the next one; with nothing to store it learns the commit index.  *)
AppendEntries(l, m) ==
    LET i == Shared(l, m)
    IN  /\ role[l] = "leader" /\ m # l /\ AtLeast(vote[l], vote[m])
        /\ SaveVote(m, vote[l])
        /\ role' = [role EXCEPT ![m] = "follower"]
        /\ granted' = [granted EXCEPT ![m] = {}]
        /\ \/ /\ i < Len(rlog[l]) /\ i < Len(rlog[m])
              /\ TruncateRows(m, i)
              /\ acked' = [acked EXCEPT ![m] = NoAcks]
              /\ UNCHANGED commitTo
           \/ /\ i < Len(rlog[l]) /\ i = Len(rlog[m])
              /\ AppendRow(m, rlog[l][i + 1])
              /\ acked' = [acked EXCEPT ![l][m] = i + 1, ![m] = NoAcks]
              /\ UNCHANGED commitTo
           \/ /\ i = Len(rlog[l]) /\ i = Len(rlog[m])
              /\ acked' = [acked EXCEPT ![l][m] = i, ![m] = NoAcks]
              /\ commitTo' = [commitTo EXCEPT ![m] = IF commitTo[l] > @ THEN commitTo[l] ELSE @]
              /\ UNCHANGED logVars
        /\ UNCHANGED <<applied, dialogsOf, sipSideVars, raftHistory>>

Commit(l) ==
    /\ role[l] = "leader"
    /\ \E i \in commitTo[l] + 1 .. Len(rlog[l]) :
         /\ rlog[l][i].id = vote[l]
         /\ {m \in RaftNodes : acked[l][m] >= i} \in Quorums
         /\ commitTo' = [commitTo EXCEPT ![l] = i]
         /\ committed' = IF i > committed THEN i ELSE committed
    /\ UNCHANGED <<logVars, electionVars, applied, dialogsOf, sipSideVars, restarts>>

(* Mutant: a committed removal leaves the record in the table. *)
ApplyEntryMut(n) ==
    LET delta == rlog[n][applied[n] + 1].delta
    IN  /\ applied[n] < commitTo[n] /\ applied[n] < Len(rlog[n])
        /\ applied' = [applied EXCEPT ![n] = @ + 1]
        /\ dialogsOf' = IF delta.kind = "upsert"
                        THEN [dialogsOf EXCEPT ![n][delta.key] = delta.ver] ELSE dialogsOf
        /\ UNCHANGED <<logVars, electionVars, commitTo, sipSideVars, raftHistory>>

(* DialogStateMachine::apply, into the table the SIP layer serves from. *)
ApplyEntry(n) ==
    LET delta == rlog[n][applied[n] + 1].delta
    IN  /\ applied[n] < commitTo[n] /\ applied[n] < Len(rlog[n])
        /\ applied' = [applied EXCEPT ![n] = @ + 1]
        /\ dialogsOf' = IF delta.kind \in {"upsert", "delete"}
                        THEN [dialogsOf EXCEPT ![n][delta.key] = delta.ver] ELSE dialogsOf
        /\ UNCHANGED <<logVars, electionVars, commitTo, sipSideVars, raftHistory>>

-----------------------------------------------------------------------------
(* The SIP layer and the write task. *)

(* replicate: a full queue drops the delta. *)
Replicate(n, delta) ==
    /\ sipWrites < MaxRaftWrites /\ sipWrites' = sipWrites + 1
    /\ written' = [written EXCEPT ![delta.key] = delta.ver]
    /\ dialogsOf' = [dialogsOf EXCEPT ![n][delta.key] = delta.ver]
    /\ IF Len(writeQueue[n]) < WriteQueueDepth
       THEN writeQueue' = [writeQueue EXCEPT ![n] = Append(@, delta)] /\ UNCHANGED unwritten
       ELSE unwritten' = unwritten \cup {delta.key} /\ UNCHANGED writeQueue
    /\ UNCHANGED <<logVars, electionVars, commitTo, applied, inFlight, raftHistory>>

SipInsert(n, d) == written[d] = Unborn /\ Replicate(n, UpsertOf(d, 1))

SipUpdate(n, d) ==
    /\ dialogsOf[n][d] # 0
    /\ Replicate(n, UpsertOf(d, dialogsOf[n][d] + 1))

SipRemove(n, d) == dialogsOf[n][d] # 0 /\ Replicate(n, DeleteOf(d))

ClientWrite(n) ==
    /\ inFlight[n] = 0 /\ writeQueue[n] # <<>>
    /\ writeQueue' = [writeQueue EXCEPT ![n] = Tail(@)]
    /\ IF role[n] = "leader"
       THEN /\ AppendRow(n, [id |-> vote[n], delta |-> Head(writeQueue[n])])
            /\ acked' = [acked EXCEPT ![n][n] = Len(rlog[n]) + 1]
            /\ inFlight' = [inFlight EXCEPT ![n] = Len(rlog[n]) + 1]
            /\ UNCHANGED unwritten
       ELSE unwritten' = unwritten \cup {Head(writeQueue[n]).key} /\ UNCHANGED <<logVars, acked, inFlight>>
    /\ UNCHANGED <<vote, role, granted, commitTo, applied, dialogsOf, written, sipWrites, raftHistory>>

WriteApplied(n) ==
    /\ inFlight[n] # 0 /\ applied[n] >= inFlight[n]
    /\ inFlight' = [inFlight EXCEPT ![n] = 0]
    /\ UNCHANGED <<logVars, electionVars, commitTo, applied, dialogsOf, writeQueue, written, unwritten,
                   sipWrites, raftHistory>>

(* A deposed leader answers its pending write with an error. *)
WriteRefused(n) ==
    /\ inFlight[n] # 0 /\ role[n] # "leader" /\ applied[n] < inFlight[n]
    /\ inFlight' = [inFlight EXCEPT ![n] = 0]
    /\ unwritten' = unwritten \cup RaftDialogs
    /\ UNCHANGED <<logVars, electionVars, commitTo, applied, dialogsOf, writeQueue, written, sipWrites, raftHistory>>

(* start_node over an existing directory: the vote and the rows are read   *)
(* back, last_log_id_from_db rebuilds the last id from the term column,    *)
(* and the state machine starts empty.                                     *)
Restart(n) ==
    /\ restarts < MaxRestarts
    /\ restarts' = restarts + 1
    /\ lastLogId' = [lastLogId EXCEPT ![n] = IF rlog[n] = <<>> THEN NoLog
                                             ELSE <<rlog[n][Len(rlog[n])].id[1], 0, Len(rlog[n])>>]
    /\ Follow(n)
    /\ granted' = [granted EXCEPT ![n] = {}]
    /\ commitTo' = [commitTo EXCEPT ![n] = 0] /\ applied' = [applied EXCEPT ![n] = 0]
    /\ dialogsOf' = [dialogsOf EXCEPT ![n] = [d \in RaftDialogs |-> 0]]
    /\ unwritten' = unwritten \cup {writeQueue[n][i].key : i \in DOMAIN writeQueue[n]}
                      \cup (IF inFlight[n] = 0 THEN {} ELSE RaftDialogs)
    /\ writeQueue' = [writeQueue EXCEPT ![n] = <<>>] /\ inFlight' = [inFlight EXCEPT ![n] = 0]
    /\ UNCHANGED <<rlog, vote, written, sipWrites, committed>>

-----------------------------------------------------------------------------
RaftNext ==
    \/ \E n \in RaftNodes :
         \/ Campaign(n) \/ BecomeLeader(n) \/ Commit(n) \/ ApplyEntry(n) \/ ClientWrite(n)
         \/ WriteApplied(n) \/ WriteRefused(n) \/ Restart(n)
    \/ \E n, m \in RaftNodes : GrantVote(n, m) \/ Superseded(n, m) \/ AppendEntries(n, m)
    \/ \E n \in SipNodes, d \in RaftDialogs :
         SipInsert(n, d) \/ SipUpdate(n, d) \/ SipRemove(n, d)

RaftSpec == RaftInit /\ [][RaftNext]_raftVars

-----------------------------------------------------------------------------
(* The live table is written twice, by the SIP layer at once and by apply  *)
(* when the same delta commits, so a committed version may lag behind the  *)
(* table and bring an old record back.  It settles: when no write is       *)
(* waiting, a node that has applied everything committed holds what the    *)
(* SIP layer last wrote, unless a delta of that dialog was dropped or      *)
(* refused (RaftReplicator, DialogStateMachine::apply, start_node).        *)
WritesSettle ==
    (\A n \in RaftNodes : writeQueue[n] = <<>> /\ inFlight[n] = 0) =>
      \A d \in RaftDialogs \ unwritten, n \in RaftNodes :
        written[d] # Unborn /\ applied[n] = committed => dialogsOf[n][d] = written[d]

(* "a linearizable, replicated log over the engine's dialog table": two    *)
(* nodes never apply different entries at one index.                       *)
AppliedAgree ==
    \A n, m \in RaftNodes : \A i \in 1 .. Smallest(applied[n], applied[m]) :
      i <= Len(rlog[n]) /\ i <= Len(rlog[m]) /\ rlog[n][i] = rlog[m][i]
=============================================================================
