--------------------------- MODULE HaReplication ---------------------------
(***************************************************************************)
(* One-way replication of the dialog table from a primary to a secondary   *)
(* (crates/smiths-cli/src/replication_service.rs), fed by the changes of   *)
(* the SIP layer (crates/smiths-sip/src/uas.rs).                           *)
(*                                                                         *)
(* A worker of the SIP layer first changes the table and then hands the    *)
(* delta to a bounded queue; a full queue drops it and raises the resync   *)
(* flag.  The primary serves one connection at a time: a snapshot, read    *)
(* from the live table entry by entry, then deltas.  The secondary redials *)
(* when the connection fails or stays silent; connections it opened wait   *)
(* in the primary's backlog.  Frames of one connection arrive in order,    *)
(* and those in flight when it dies are lost.                              *)
(*                                                                         *)
(* A dialog key is never used twice (the local tag is random): it is       *)
(* inserted, changed and removed for good.  Call k has worker k; the       *)
(* worker of a bridged call may remove it as well.                         *)
(***************************************************************************)
EXTENDS Naturals, Sequences

CONSTANTS
    Calls,     \* dialogs, and the workers of their calls
    Depth,     \* REPLICATION_QUEUE_DEPTH
    Buffer,    \* frames the socket takes before a write blocks
    MaxVer,    \* versions of one record (bound)
    MaxConn    \* connections the secondary opens; the last one lasts (bound)

ASSUME DepthAssumption == Depth \in Nat \ {0} /\ Buffer \in Nat \ {0}
ASSUME BoundsAssumption == MaxVer \in Nat \ {0} /\ MaxConn \in Nat \ {0}

VARIABLES
    table,      \* the primary's dialogs: [Calls -> version, 0 when absent]
    born,       \* dialogs that were ever inserted
    owed,       \* [Calls -> the delta its worker has not handed over yet, or none; Overflow
                \* when the queue refused it and the flag is not up yet]
    queue,      \* the bounded delta queue
    resync,     \* resync_needed
    disturbed,  \* history: a delta was dropped, or a removal overtook an update
    prim,       \* what the primary service does
    snap,       \* the snapshot being read: [Calls -> version]
    unread,     \* the entries it has not read yet
    hand,       \* the delta taken from the queue, or none
    pconn,      \* connection the primary serves, or 0
    backlog,    \* connections waiting to be accepted
    wire,       \* [connection -> frames in flight]
    dead,       \* connections that failed or that the secondary closed
    sconn,      \* connection of the secondary, or 0
    opened,     \* connections opened so far, against MaxConn
    replica     \* the secondary's dialogs

primVars == <<prim, snap, unread, hand, pconn>>
netVars == <<backlog, wire, dead, sconn, opened, replica>>
sipVars == <<table, born, owed>>
vars == <<sipVars, queue, resync, disturbed, primVars, netVars>>

Conns == 1 .. MaxConn
Versions == 0 .. MaxVer
Upsert(k, v) == [kind |-> "upsert", key |-> k, ver |-> v]
Delete(k) == [kind |-> "delete", key |-> k, ver |-> 0]
NoDelta == [kind |-> "none"]
Overflow == [kind |-> "overflow"]
Deltas == {Upsert(k, v) : k \in Calls, v \in 1 .. MaxVer} \cup {Delete(k) : k \in Calls}
Snapshot(recs) == [kind |-> "snapshot", recs |-> recs]
Frames == Deltas \cup {Snapshot(r) : r \in [Calls -> Versions]}

TypeOK ==
    /\ table \in [Calls -> Versions]
    /\ born \subseteq Calls
    /\ owed \in [Calls -> Deltas \cup {NoDelta, Overflow}]
    /\ queue \in Seq(Deltas) /\ Len(queue) <= Depth
    /\ resync \in BOOLEAN
    /\ disturbed \in BOOLEAN
    /\ prim \in {"wait", "reading", "writing", "serve", "delta"}
    /\ snap \in [Calls -> Versions]
    /\ unread \subseteq Calls
    /\ hand \in Deltas \cup {NoDelta}
    /\ pconn \in 0 .. MaxConn
    /\ backlog \in Seq(Conns)
    /\ wire \in [Conns -> Seq(Frames)]
    /\ dead \subseteq Conns
    /\ sconn \in 0 .. MaxConn
    /\ opened \in 0 .. MaxConn
    /\ replica \in [Calls -> Versions]

Init ==
    /\ table = [k \in Calls |-> 0]
    /\ born = {}
    /\ owed = [k \in Calls |-> NoDelta]
    /\ queue = <<>>
    /\ resync = FALSE
    /\ disturbed = FALSE
    /\ prim = "wait"
    /\ snap = [k \in Calls |-> 0]
    /\ unread = {}
    /\ hand = NoDelta
    /\ pconn = 0
    /\ backlog = <<>>
    /\ wire = [c \in Conns |-> <<>>]
    /\ dead = {}
    /\ sconn = 0
    /\ opened = 0
    /\ replica = [k \in Calls |-> 0]

-----------------------------------------------------------------------------
(* The SIP layer *)

(* establish_dialog inserts the record ... *)
InsertsDialog(w) ==
    /\ owed[w] = NoDelta
    /\ w \notin born
    /\ born' = born \cup {w}
    /\ table' = [table EXCEPT ![w] = 1]
    /\ owed' = [owed EXCEPT ![w] = Upsert(w, 1)]
    /\ UNCHANGED <<queue, resync, disturbed, primVars, netVars>>

(* ... the 2xx, the ACK and a re-INVITE change it under the entry's lock.  *)
ChangesDialog(w) ==
    /\ owed[w] = NoDelta
    /\ table[w] \in 1 .. MaxVer - 1
    /\ table' = [table EXCEPT ![w] = @ + 1]
    /\ owed' = [owed EXCEPT ![w] = Upsert(w, table[w] + 1)]
    /\ UNCHANGED <<born, queue, resync, disturbed, primVars, netVars>>

(* teardown_dialog, by the call's worker or by its partner's. *)
RemovesDialog(w, k) ==
    /\ owed[w] = NoDelta
    /\ table[k] # 0
    /\ table' = [table EXCEPT ![k] = 0]
    /\ owed' = [owed EXCEPT ![w] = Delete(k)]
    /\ disturbed' = (disturbed \/ owed[k] # NoDelta)
    /\ UNCHANGED <<born, queue, resync, primVars, netVars>>

(* Mutant: a full queue drops the delta silently. *)
ReplicateMut(w) ==
    /\ owed[w] \in Deltas
    /\ owed' = [owed EXCEPT ![w] = NoDelta]
    /\ queue' = IF Len(queue) < Depth THEN Append(queue, owed[w]) ELSE queue
    /\ disturbed' = (disturbed \/ Len(queue) = Depth)
    /\ UNCHANGED <<table, born, resync, primVars, netVars>>

(* PrimaryReplicator::replicate: try_send, never blocking ... *)
Replicate(w) ==
    /\ owed[w] \in Deltas
    /\ IF Len(queue) < Depth
       THEN queue' = Append(queue, owed[w]) /\ owed' = [owed EXCEPT ![w] = NoDelta]
       ELSE queue' = queue /\ owed' = [owed EXCEPT ![w] = Overflow]
    /\ disturbed' = (disturbed \/ Len(queue) = Depth)
    /\ UNCHANGED <<table, born, resync, primVars, netVars>>

(* ... and the flag is raised when it failed; the primary may have emptied *)
(* the queue in between.                                                   *)
FlagsResync(w) ==
    /\ owed[w] = Overflow
    /\ owed' = [owed EXCEPT ![w] = NoDelta]
    /\ resync' = TRUE
    /\ UNCHANGED <<table, born, queue, disturbed, primVars, netVars>>

-----------------------------------------------------------------------------
(* run_primary_service *)

(* send_snapshot starts: the flag goes down before the table is read. *)
BeginSnapshot ==
    /\ resync' = FALSE
    /\ unread' = Calls
    /\ snap' = [k \in Calls |-> 0]
    /\ prim' = "reading"

(* A connection starts with a snapshot. *)
Accepts ==
    /\ prim = "wait"
    /\ backlog # <<>>
    /\ pconn' = Head(backlog)
    /\ backlog' = Tail(backlog)
    /\ BeginSnapshot
    /\ UNCHANGED <<sipVars, queue, disturbed, hand, wire, dead, sconn, opened, replica>>

(* Without a secondary the deltas are consumed and forgotten (the accept   *)
(* branch of the biased select comes first).                               *)
Discards ==
    /\ prim = "wait"
    /\ backlog = <<>>
    /\ queue # <<>>
    /\ queue' = Tail(queue)
    /\ UNCHANGED <<sipVars, resync, disturbed, primVars, netVars>>

(* A write blocks while the socket's buffer is full; a write into a dead   *)
(* connection may seem to succeed.                                         *)
Put(f) ==
    /\ pconn \notin dead => Len(wire[pconn]) < Buffer
    /\ wire' = IF pconn \in dead THEN wire ELSE [wire EXCEPT ![pconn] = Append(@, f)]

(* A heartbeat is due and a snapshot goes out in its place. *)
Resyncs ==
    /\ prim = "serve"
    /\ queue = <<>>
    /\ resync
    /\ BeginSnapshot
    /\ UNCHANGED <<sipVars, queue, disturbed, hand, pconn, netVars>>

(* A delta is taken while a resync is due: the snapshot goes first. *)
TakesDeltaResync ==
    /\ prim = "serve"
    /\ queue # <<>>
    /\ resync
    /\ hand' = Head(queue)
    /\ queue' = Tail(queue)
    /\ BeginSnapshot
    /\ UNCHANGED <<sipVars, disturbed, pconn, netVars>>

TakesDelta ==
    /\ prim = "serve"
    /\ queue # <<>>
    /\ ~resync
    /\ queue' = Tail(queue)
    /\ Put(Head(queue))
    /\ UNCHANGED <<sipVars, resync, disturbed, primVars, backlog, dead, sconn, opened, replica>>

(* The table is iterated while the SIP layer goes on changing it. *)
ReadsEntry(k) ==
    /\ prim = "reading"
    /\ k \in unread
    /\ snap' = [snap EXCEPT ![k] = table[k]]
    /\ unread' = unread \ {k}
    /\ prim' = IF unread = {k} THEN "writing" ELSE prim
    /\ UNCHANGED <<sipVars, queue, resync, disturbed, hand, pconn, netVars>>

WritesSnapshot ==
    /\ prim = "writing"
    /\ Put(Snapshot(snap))
    /\ prim' = IF hand = NoDelta THEN "serve" ELSE "delta"
    /\ snap' = [k \in Calls |-> 0]
    /\ UNCHANGED <<sipVars, queue, resync, disturbed, unread, hand, pconn, backlog, dead, sconn,
                   opened, replica>>

WritesDelta ==
    /\ prim = "delta"
    /\ Put(hand)
    /\ hand' = NoDelta
    /\ prim' = "serve"
    /\ UNCHANGED <<sipVars, queue, resync, disturbed, snap, unread, pconn, backlog, dead, sconn,
                   opened, replica>>

(* Mutant: after a failed write the primary goes on with the connection. *)
WriteFailsMut ==
    /\ pconn \in dead
    /\ prim \in {"writing", "delta"}
    /\ resync' = TRUE
    /\ hand' = NoDelta
    /\ snap' = [k \in Calls |-> 0]
    /\ prim' = "serve"
    /\ UNCHANGED <<sipVars, queue, disturbed, unread, pconn, netVars>>

(* Writing the snapshot, a delta or a heartbeat fails: resync is due and   *)
(* the primary waits for the next connection.                              *)
WriteFails ==
    /\ pconn \in dead
    /\ prim \in {"writing", "delta"} \/ (prim = "serve" /\ ~resync)
    /\ queue' = IF prim = "serve" /\ queue # <<>> THEN Tail(queue) ELSE queue
    /\ resync' = TRUE
    /\ hand' = NoDelta
    /\ snap' = [k \in Calls |-> 0]
    /\ pconn' = 0
    /\ prim' = "wait"
    /\ UNCHANGED <<sipVars, disturbed, unread, netVars>>

-----------------------------------------------------------------------------
(* run_secondary_service *)

Dials ==
    /\ sconn = 0
    /\ opened < MaxConn
    /\ opened' = opened + 1
    /\ sconn' = opened'
    /\ backlog' = Append(backlog, opened')
    /\ UNCHANGED <<sipVars, queue, resync, disturbed, primVars, wire, dead, replica>>

Changed(tab, d) == [tab EXCEPT ![d.key] = d.ver]

(* apply_frame: a snapshot replaces the table, a delta changes one entry. *)
ApplyFrame(f) ==
    replica' = IF f.kind = "snapshot" THEN f.recs ELSE Changed(replica, f)

ReadsFrame ==
    /\ sconn # 0
    /\ sconn \notin dead
    /\ wire[sconn] # <<>>
    /\ ApplyFrame(Head(wire[sconn]))
    /\ wire' = [wire EXCEPT ![sconn] = Tail(@)]
    /\ UNCHANGED <<sipVars, queue, resync, disturbed, primVars, backlog, dead, sconn, opened>>

(* Three silent heartbeat intervals, or the connection fails. *)
Disconnects ==
    /\ sconn # 0
    /\ sconn < MaxConn
    /\ dead' = dead \cup {sconn}
    /\ wire' = [wire EXCEPT ![sconn] = <<>>]
    /\ sconn' = 0
    /\ UNCHANGED <<sipVars, queue, resync, disturbed, primVars, backlog, opened, replica>>

-----------------------------------------------------------------------------
SipStep ==
    \/ \E w \in Calls : InsertsDialog(w)
    \/ \E w \in Calls : ChangesDialog(w)
    \/ \E w, k \in Calls : RemovesDialog(w, k)

PrimaryStep ==
    \/ Accepts
    \/ Discards
    \/ Resyncs
    \/ TakesDeltaResync
    \/ TakesDelta
    \/ \E k \in Calls : ReadsEntry(k)
    \/ WritesSnapshot
    \/ WritesDelta
    \/ WriteFails

SecondaryStep ==
    \/ Dials
    \/ ReadsFrame

Next ==
    \/ SipStep
    \/ \E w \in Calls : Replicate(w) \/ FlagsResync(w)
    \/ PrimaryStep
    \/ SecondaryStep
    \/ Disconnects

Spec == Init /\ [][Next]_vars

(* The tasks are scheduled; a write into a dead connection fails in the    *)
(* end.  Calls and link failures are up to the environment.                *)
Fairness ==
    /\ \A w \in Calls : WF_vars(Replicate(w) \/ FlagsResync(w))
    /\ WF_vars(PrimaryStep)
    /\ WF_vars(WriteFails)
    /\ WF_vars(SecondaryStep)

FairSpec == Spec /\ Fairness

-----------------------------------------------------------------------------
(* Nothing is on its way between the two tables and no repair is due. *)
Settled ==
    /\ \A w \in Calls : owed[w] = NoDelta
    /\ queue = <<>>
    /\ ~resync
    /\ prim = "serve"
    /\ pconn = sconn
    /\ pconn \notin dead
    /\ wire[pconn] = <<>>

(* Whatever was dropped, lost with a connection or changed while a         *)
(* snapshot was being read, the secondary knows every live dialog once     *)
(* replication has settled: a failover loses no call.                      *)
LiveDialogsKnown == Settled => \A k \in Calls : table[k] # 0 => replica[k] # 0

(* As long as the queue has not overflowed and no removal overtook an      *)
(* update, the two tables are equal once replication has settled.          *)
ConvergesInOrder == Settled /\ ~disturbed => replica = table

(* What a failover would find: every live dialog, and the very table when  *)
(* nothing overflowed or overtook (replication_service.rs:                 *)
(* run_primary_service, apply_frame).                                          *)
SecondaryFaithful == LiveDialogsKnown /\ ConvergesInOrder

(* Under the fairness above the secondary catches up with every dialog     *)
(* that stays alive.                                                       *)
SecondaryCatchesUp == <>[](\A k \in Calls : table[k] # 0 => replica[k] # 0)

-----------------------------------------------------------------------------
(* "a snapshot always converges the two sides regardless of what was lost  *)
(* in between": once replication has settled the tables are equal.         *)
SnapshotConverges == Settled => replica = table
=============================================================================
