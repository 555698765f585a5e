----------------------------- MODULE NodeProofs -----------------------------
(***************************************************************************)
(* What a node owes its twin and its host, for every value of the          *)
(* constants.                                                              *)
(*                                                                         *)
(* Part 1, the twin.  A failover loses no call, for every number of        *)
(* dialogs, every depth of the queue and of the socket and every number of *)
(* connections: SecondaryFaithful is an invariant.  What the secondary     *)
(* will know of a dialog is the last word about it on the way from the SIP *)
(* layer to the replica: a delta owed, queued or in the primary's hand,    *)
(* the entry of a snapshot being read, a frame on the wire, or the         *)
(* replica's own entry.  The inductive invariant says that the last word   *)
(* is right, unless a resync is due.                                       *)
(*                                                                         *)
(* Part 2, the host.  Media ports, sessions and transcode slots are        *)
(* neither lost nor counted twice, for every number of calls, of sessions  *)
(* and of ports and every cap: MediaAccounted is an invariant.  PortInv    *)
(* says of every party what it holds: an allocator in its second bind one  *)
(* socket, an endpoint a pair, a pairing or a session that has not stopped *)
(* at least one, anybody else none.  CountInv ties the two counters to the *)
(* sets they stand for, so that each step that moves a counter is seen to  *)
(* move exactly one session in or out.                                     *)
(***************************************************************************)
EXTENDS HaReplication, MediaFabric, FiniteSetTheorems, WellFoundedInduction, TLAPS

-----------------------------------------------------------------------------
(* Part 1: the twin *)

\* What a frame says about a dialog, if anything.
Tells(f, k) == f.kind = "snapshot" \/ f.key = k
Says(f, k) == IF f.kind = "snapshot" THEN f.recs[k] ELSE f.ver
Silent(s, k) == \A i \in 1 .. Len(s) : ~Tells(s[i], k)
LastIn(s, k, R) ==
    \A i \in 1 .. Len(s) :
        Tells(s[i], k) /\ (\A j \in 1 .. Len(s) : j > i => ~Tells(s[j], k)) => Says(s[i], k) \in R

\* A version the secondary may have of dialog k: the current one or, once a delta
\* was dropped or overtaken, any that tells a live dialog from none.
Rights(k) == {v \in Versions : (table[k] # 0 => v # 0) /\ (~disturbed => v = table[k])}

Owes(k) == \E w \in Calls : owed[w] \in Deltas /\ owed[w].key = k
Lost == resync \/ \E w \in Calls : owed[w] = Overflow
\* A word about k is yet to be written.
Later(k) == Owes(k) \/ ~Silent(queue, k) \/ (hand # NoDelta /\ hand.key = k) \/ Lost

\* Only a dialog that is gone for good is reported as removed.
Honest(d) == d.ver = 0 => table[d.key] = 0 /\ d.key \in born

OwedInv ==
    /\ \A k \in Calls : table[k] # 0 => k \in born
    /\ \A w \in Calls : owed[w] \in Deltas =>
        /\ Honest(owed[w])
        /\ owed[w].ver # 0 => owed[w].key = w /\ w \in born
        /\ ~disturbed => owed[w].ver = table[owed[w].key]
    /\ ~disturbed => \A w \in Calls : owed[w] # Overflow

QueueInv ==
    /\ \A i \in 1 .. Len(queue) : Honest(queue[i])
    /\ ~disturbed => \A k \in Calls : ~Owes(k) => LastIn(queue, k, {table[k]})

HandInv ==
    hand # NoDelta =>
        /\ Honest(hand)
        /\ ~disturbed /\ ~Owes(hand.key) /\ Silent(queue, hand.key) => hand.ver = table[hand.key]

\* The connection served is the secondary's, unless it is dead.
ConnInv ==
    /\ pconn \in 0 .. opened
    /\ sconn \in 0 .. opened
    /\ prim = "wait" <=> pconn = 0
    /\ \A c \in 1 .. opened : c \notin dead => c = sconn
    /\ \A i \in 1 .. Len(backlog) : backlog[i] \in 1 .. opened
    /\ prim \in {"wait", "serve"} => hand = NoDelta
    /\ prim = "delta" => hand # NoDelta
    /\ prim = "writing" => unread = {}

SnapInv ==
    prim \in {"reading", "writing"} =>
        \A k \in Calls \ unread : ~Later(k) => snap[k] \in Rights(k)

WireInv ==
    prim \in {"serve", "delta"} /\ pconn \notin dead =>
        \A k \in Calls : ~Later(k) =>
            /\ LastIn(wire[pconn], k, Rights(k))
            /\ Silent(wire[pconn], k) => replica[k] \in Rights(k)

ReplicationInv ==
    /\ TypeOK
    /\ OwedInv
    /\ QueueInv
    /\ HandInv
    /\ ConnInv
    /\ SnapInv
    /\ WireInv

-----------------------------------------------------------------------------
LEMMA DeltaShape ==
  ASSUME NEW d \in Deltas
  PROVE  /\ d.kind \in {"upsert", "delete"} /\ d.key \in Calls /\ d.ver \in Versions
         /\ d # NoDelta /\ d # Overflow /\ d \in Frames
         /\ \A k : Tells(d, k) <=> d.key = k
         /\ \A k : Says(d, k) = d.ver
<1>1. PICK k \in Calls, v \in Versions, kind \in {"upsert", "delete"} :
        d = [kind |-> kind, key |-> k, ver |-> v]
  <2>1. CASE \E k \in Calls, v \in 1 .. MaxVer : d = Upsert(k, v)
    BY <2>1, BoundsAssumption DEF Upsert, Versions
  <2>2. CASE \E k \in Calls : d = Delete(k)
    BY <2>2, BoundsAssumption DEF Delete, Versions
  <2> QED
    BY <2>1, <2>2 DEF Deltas
<1>2. d.kind = kind /\ d.key = k /\ d.ver = v /\ kind # "snapshot" /\ kind # "none" /\ kind # "overflow"
  BY <1>1
<1>3. NoDelta.kind = "none" /\ Overflow.kind = "overflow"
  BY DEF NoDelta, Overflow
<1> QED
  BY <1>2, <1>3 DEF Tells, Says, Frames

LEMMA NewDeltas ==
  ASSUME NEW k \in Calls
  PROVE  /\ Delete(k) \in Deltas /\ Delete(k).key = k /\ Delete(k).ver = 0
         /\ \A v \in 1 .. MaxVer :
               Upsert(k, v) \in Deltas /\ Upsert(k, v).key = k /\ Upsert(k, v).ver = v
BY DEF Deltas, Delete, Upsert

LEMMA FrameShape ==
  ASSUME NEW f \in Frames
  PROVE  /\ f.kind = "snapshot" => f.recs \in [Calls -> Versions]
         /\ f.kind # "snapshot" => f \in Deltas /\ f.key \in Calls /\ f.ver \in Versions
<1>1. CASE f \in Deltas
  BY <1>1, DeltaShape
<1>2. CASE \E r \in [Calls -> Versions] : f = Snapshot(r)
  BY <1>2 DEF Snapshot
<1> QED
  BY <1>1, <1>2 DEF Frames

(* What sequences of frames say, when one is put at the end ... *)
LEMMA AppendSays ==
  ASSUME NEW S, NEW s \in Seq(S), NEW e \in S, NEW k, NEW R
  PROVE  /\ Silent(Append(s, e), k) <=> Silent(s, k) /\ ~Tells(e, k)
         /\ Tells(e, k) /\ Says(e, k) \in R => LastIn(Append(s, e), k, R)
         /\ ~Tells(e, k) /\ LastIn(s, k, R) => LastIn(Append(s, e), k, R)
<1> DEFINE t == Append(s, e)
<1>1. /\ Len(s) \in Nat /\ Len(t) = Len(s) + 1 /\ t[Len(s) + 1] = e
      /\ \A i \in 1 .. Len(s) : t[i] = s[i]
  OBVIOUS
<1>2. \A i \in 1 .. Len(t) : i \in 1 .. Len(s) \/ i = Len(s) + 1
  BY <1>1
<1>3. \A i \in 1 .. Len(s) : i \in 1 .. Len(t) /\ Len(s) + 1 > i
  BY <1>1
<1>4. Len(s) + 1 \in 1 .. Len(t)
  BY <1>1
<1> HIDE DEF t
<1>5. Silent(t, k) <=> Silent(s, k) /\ ~Tells(e, k)
  BY <1>1, <1>2, <1>3, <1>4 DEF Silent
<1>6. Tells(e, k) /\ Says(e, k) \in R => LastIn(t, k, R)
  BY <1>1, <1>2, <1>3, <1>4 DEF LastIn
<1>7. ~Tells(e, k) /\ LastIn(s, k, R) => LastIn(t, k, R)
  BY <1>1, <1>2, <1>3, <1>4 DEF LastIn
<1> QED
  BY <1>5, <1>6, <1>7 DEF t

(* ... or taken from the front. *)
LEMMA TailSays ==
  ASSUME NEW S, NEW s \in Seq(S), s # <<>>, NEW k, NEW R
  PROVE  /\ Head(s) \in S /\ Tail(s) \in Seq(S) /\ Len(Tail(s)) = Len(s) - 1
         /\ Silent(s, k) <=> Silent(Tail(s), k) /\ ~Tells(Head(s), k)
         /\ LastIn(s, k, R) => LastIn(Tail(s), k, R)
         /\ LastIn(s, k, R) /\ Tells(Head(s), k) /\ Silent(Tail(s), k) => Says(Head(s), k) \in R
<1> DEFINE t == Tail(s)
<1>1. /\ Len(s) \in Nat /\ Len(s) >= 1 /\ t \in Seq(S) /\ Len(t) = Len(s) - 1
      /\ Head(s) = s[1] /\ s[1] \in S
      /\ \A i \in 1 .. Len(t) : t[i] = s[i + 1]
  <2>1. Len(s) \in Nat /\ Len(s) # 0
    OBVIOUS
  <2>2. Len(s) >= 1 /\ 1 \in 1 .. Len(s)
    BY <2>1
  <2>3. t \in Seq(S) /\ Len(t) = Len(s) - 1 /\ Head(s) = s[1]
    OBVIOUS
  <2>4. \A i \in 1 .. Len(t) : t[i] = s[i + 1]
    OBVIOUS
  <2> QED
    BY <2>1, <2>2, <2>3, <2>4
<1>2. \A i \in 1 .. Len(t) : i + 1 \in 1 .. Len(s) /\ i + 1 > 1
  BY <1>1
<1>3. \A i \in 1 .. Len(s) : i = 1 \/ (i - 1 \in 1 .. Len(t) /\ t[i - 1] = s[i])
  BY <1>1
<1>4. 1 \in 1 .. Len(s)
  BY <1>1
<1> HIDE DEF t
<1>5. Silent(s, k) <=> Silent(t, k) /\ ~Tells(s[1], k)
  <2>1. Silent(s, k) => Silent(t, k) /\ ~Tells(s[1], k)
    BY <1>1, <1>2, <1>4 DEF Silent
  <2>2. Silent(t, k) /\ ~Tells(s[1], k) => Silent(s, k)
    BY <1>3 DEF Silent
  <2> QED
    BY <2>1, <2>2
<1>6. ASSUME LastIn(s, k, R) PROVE LastIn(t, k, R)
  <2> SUFFICES ASSUME NEW i \in 1 .. Len(t), Tells(t[i], k),
                      \A j \in 1 .. Len(t) : j > i => ~Tells(t[j], k)
               PROVE  Says(t[i], k) \in R
    BY DEF LastIn
  <2>1. ASSUME NEW j \in 1 .. Len(s), j > i + 1 PROVE ~Tells(s[j], k)
    <3>1. j # 1 /\ j - 1 > i
      BY <1>1, <2>1
    <3> QED
      BY <3>1, <1>3
  <2>2. Tells(s[i + 1], k) /\ i + 1 \in 1 .. Len(s)
    BY <1>1, <1>2
  <2>3. Says(s[i + 1], k) \in R
    BY <1>6, <2>1, <2>2 DEF LastIn
  <2> QED
    BY <2>3, <1>1
<1>7. ASSUME LastIn(s, k, R), Tells(s[1], k), Silent(t, k) PROVE Says(s[1], k) \in R
  <2>1. ASSUME NEW j \in 1 .. Len(s), j > 1 PROVE ~Tells(s[j], k)
    <3>1. j # 1
      BY <2>1
    <3> QED
      BY <3>1, <1>3, <1>7 DEF Silent
  <2> QED
    BY <2>1, <1>4, <1>7 DEF LastIn
<1> QED
  BY <1>1, <1>5, <1>6, <1>7 DEF t

LEMMA LastInMonotone ==
  ASSUME NEW s, NEW k, NEW R, NEW T, R \subseteq T, LastIn(s, k, R)
  PROVE  LastIn(s, k, T)
BY DEF LastIn

LEMMA EmptySays ==
  ASSUME NEW s, s = <<>>, NEW k, NEW R
  PROVE  Silent(s, k) /\ LastIn(s, k, R)
<1>1. Len(s) = 0
  OBVIOUS
<1> QED
  BY <1>1 DEF Silent, LastIn

-----------------------------------------------------------------------------
LEMMA InitInv == Init => ReplicationInv
<1> SUFFICES ASSUME Init PROVE ReplicationInv
  OBVIOUS
<1> USE DEF Init
<1>1. TypeOK
  <2>1. /\ table \in [Calls -> Versions] /\ born \subseteq Calls /\ snap \in [Calls -> Versions]
        /\ replica \in [Calls -> Versions]
    BY BoundsAssumption DEF Versions
  <2>2. owed \in [Calls -> Deltas \cup {NoDelta, Overflow}] /\ hand \in Deltas \cup {NoDelta}
    OBVIOUS
  <2>3. queue \in Seq(Deltas) /\ Len(queue) <= Depth /\ backlog \in Seq(Conns)
    BY DepthAssumption
  <2>4. wire \in [Conns -> Seq(Frames)]
    OBVIOUS
  <2>5. pconn \in 0 .. MaxConn /\ sconn \in 0 .. MaxConn /\ opened \in 0 .. MaxConn
    BY BoundsAssumption
  <2> QED
    BY <2>1, <2>2, <2>3, <2>4, <2>5 DEF TypeOK
<1>2. \A w \in Calls : owed[w] \notin Deltas /\ owed[w] # Overflow
  BY DeltaShape DEF NoDelta, Overflow
<1>3. OwedInv
  BY <1>2 DEF OwedInv
<1>4. QueueInv
  <2>1. Len(queue) = 0
    OBVIOUS
  <2> QED
    BY <2>1, EmptySays DEF QueueInv
<1>5. HandInv /\ SnapInv /\ WireInv
  BY DEF HandInv, SnapInv, WireInv
<1>6. ConnInv
  <2>1. Len(backlog) = 0
    OBVIOUS
  <2> QED
    BY <2>1 DEF ConnInv
<1> QED
  BY <1>1, <1>3, <1>4, <1>5, <1>6 DEF ReplicationInv

(* A part of the invariant holds on as long as the variables it is about   *)
(* do not change.                                                          *)
LEMMA Undisturbed ==
  ASSUME ReplicationInv
  PROVE  /\ UNCHANGED <<table, born, owed, disturbed>> => OwedInv'
         /\ UNCHANGED <<table, born, owed, disturbed, queue>> => QueueInv'
         /\ UNCHANGED <<table, born, owed, disturbed, queue, hand>> => HandInv'
         /\ UNCHANGED <<pconn, sconn, opened, prim, dead, backlog, hand, unread>> => ConnInv'
         /\ UNCHANGED <<table, owed, disturbed, queue, hand, resync>>
               => \A k : Later(k)' = Later(k) /\ Rights(k)' = Rights(k)
         /\ UNCHANGED <<table, owed, disturbed, queue, hand, resync, prim, unread, snap>> => SnapInv'
         /\ UNCHANGED <<table, owed, disturbed, queue, hand, resync, prim, pconn, dead, wire, replica>>
               => WireInv'
<1> USE DEF ReplicationInv
<1>1. UNCHANGED <<table, born, owed, disturbed>> => OwedInv'
  BY DEF OwedInv, Honest
<1>2. UNCHANGED <<table, born, owed, disturbed, queue>> => QueueInv'
  BY DEF QueueInv, Honest, Owes
<1>3. UNCHANGED <<table, born, owed, disturbed, queue, hand>> => HandInv'
  BY DEF HandInv, Honest, Owes
<1>4. UNCHANGED <<pconn, sconn, opened, prim, dead, backlog, hand, unread>> => ConnInv'
  BY DEF ConnInv
<1>5. UNCHANGED <<table, owed, disturbed, queue, hand, resync>>
               => \A k : Later(k)' = Later(k) /\ Rights(k)' = Rights(k)
  BY DEF Later, Owes, Lost, Rights
<1>6. UNCHANGED <<table, owed, disturbed, queue, hand, resync, prim, unread, snap>> => SnapInv'
  BY <1>5 DEF SnapInv
<1>7. UNCHANGED <<table, owed, disturbed, queue, hand, resync, prim, pconn, dead, wire, replica>>
               => WireInv'
  BY <1>5 DEF WireInv
<1> QED
  BY <1>1, <1>2, <1>3, <1>4, <1>5, <1>6, <1>7

(* The snapshot, the wire and the replica stay right while the SIP layer   *)
(* only adds words to come or allows more answers.                         *)
LEMMA WordsToCome ==
  ASSUME ReplicationInv,
         \A k \in Calls : ~Later(k)' => ~Later(k) /\ Rights(k) \subseteq Rights(k)',
         UNCHANGED <<prim, unread, snap, pconn, dead, wire, replica>>
  PROVE  SnapInv' /\ WireInv'
<1>1. SnapInv'
  BY DEF ReplicationInv, SnapInv
<1>2. WireInv'
  <2> SUFFICES ASSUME prim \in {"serve", "delta"}, pconn \notin dead, NEW k \in Calls, ~Later(k)'
               PROVE  /\ LastIn(wire[pconn], k, Rights(k)')
                      /\ Silent(wire[pconn], k) => replica[k] \in Rights(k)'
    BY DEF WireInv
  <2>1. /\ LastIn(wire[pconn], k, Rights(k))
        /\ Silent(wire[pconn], k) => replica[k] \in Rights(k)
    BY DEF ReplicationInv, WireInv
  <2>2. LastIn(wire[pconn], k, Rights(k)')
    BY <2>1, LastInMonotone
  <2> QED
    BY <2>1, <2>2
<1> QED
  BY <1>1, <1>2

(* A worker changes the table and owes the delta that says so. *)
LEMMA SipChange ==
  ASSUME ReplicationInv, NEW w \in Calls, NEW d \in Deltas, owed[w] = NoDelta,
         table' = [table EXCEPT ![d.key] = d.ver], owed' = [owed EXCEPT ![w] = d],
         born' \subseteq Calls, born \subseteq born', d.key \in born',
         d.ver # 0 => d.key = w /\ (w \notin born \/ table[w] # 0),
         disturbed' \in BOOLEAN, ~disturbed' => ~disturbed,
         ~disturbed' => \A x \in Calls :
            x # w /\ owed[x] \in Deltas /\ owed[x].key = d.key => owed[x].ver = d.ver,
         UNCHANGED <<queue, resync, primVars, netVars>>
  PROVE  ReplicationInv'
<1>a. PICK k \in Calls, v \in Versions : k = d.key /\ v = d.ver
  BY DeltaShape
<1>b. /\ table' = [table EXCEPT ![k] = v]
      /\ k \in born'
      /\ v # 0 => k = w /\ (k \notin born \/ table[k] # 0)
      /\ ~disturbed' => \A x \in Calls :
            x # w /\ owed[x] \in Deltas /\ owed[x].key = k => owed[x].ver = v
  BY <1>a
<1> USE <1>a, <1>b
<1> USE DEF primVars, netVars
<1>1. /\ \A j \in Calls : table'[j] = IF j = k THEN v ELSE table[j]
      /\ \A x \in Calls : owed'[x] = IF x = w THEN d ELSE owed[x]
  BY DEF ReplicationInv, TypeOK
<1>2. TypeOK'
  <2>1. table' \in [Calls -> Versions] /\ owed' \in [Calls -> Deltas \cup {NoDelta, Overflow}]
    BY DEF ReplicationInv, TypeOK
  <2> QED
    BY <2>1 DEF ReplicationInv, TypeOK
<1>3. d # NoDelta /\ d # Overflow /\ NoDelta # Overflow /\ NoDelta \notin Deltas
  BY DeltaShape DEF NoDelta, Overflow
<1>4. /\ \A j \in Calls : Owes(j)' <=> Owes(j) \/ j = k
      /\ Lost' <=> Lost
  BY <1>1, <1>3 DEF Owes, Lost
<1>5. ASSUME NEW e \in Deltas, Honest(e) PROVE Honest(e)'
  <2>1. e.key \in Calls
    BY <1>5, DeltaShape
  <2> QED
    BY <1>1, <1>5, <2>1 DEF Honest
<1>6. Honest(d)'
  BY <1>1 DEF Honest
<1>7. OwedInv'
  <2>1. \A j \in Calls : table'[j] # 0 => j \in born'
    BY <1>1 DEF ReplicationInv, OwedInv
  <2>2. ASSUME NEW x \in Calls, owed'[x] \in Deltas
        PROVE  /\ Honest(owed[x])'
               /\ owed'[x].ver # 0 => owed'[x].key = x /\ x \in born'
               /\ ~disturbed' => owed'[x].ver = table'[owed'[x].key]
    <3>1. CASE x = w
      BY <3>1, <1>1, <1>6 DEF Honest
    <3>2. CASE x # w
      <4>1. owed'[x] = owed[x] /\ owed[x] \in Deltas /\ owed[x].key \in Calls
        BY <3>2, <2>2, <1>1, DeltaShape
      <4>2. /\ Honest(owed[x])
            /\ owed[x].ver # 0 => owed[x].key = x /\ x \in born
            /\ ~disturbed => owed[x].ver = table[owed[x].key]
        BY <4>1 DEF ReplicationInv, OwedInv
      <4>3. Honest(owed[x])'
        BY <4>1, <4>2, <1>1 DEF Honest
      <4> QED
        BY <3>2, <4>1, <4>2, <4>3, <1>1
    <3> QED
      BY <3>1, <3>2
  <2>3. ~disturbed' => \A x \in Calls : owed'[x] # Overflow
    BY <1>1, <1>3 DEF ReplicationInv, OwedInv
  <2> QED
    BY <2>1, <2>2, <2>3 DEF OwedInv
<1>8. QueueInv'
  <2>1. \A i \in 1 .. Len(queue) : Honest(queue[i])'
    <3> SUFFICES ASSUME NEW i \in 1 .. Len(queue) PROVE Honest(queue[i])'
      OBVIOUS
    <3>1. queue[i] \in Deltas /\ Honest(queue[i])
      <4>1. queue \in Seq(Deltas)
        BY DEF ReplicationInv, TypeOK
      <4> QED
        BY <4>1 DEF ReplicationInv, QueueInv
    <3>2. queue[i].key \in Calls
      BY <3>1, DeltaShape
    <3> QED
      BY <3>1, <3>2, <1>1 DEF Honest
  <2>2. ASSUME ~disturbed', NEW j \in Calls, ~Owes(j)' PROVE LastIn(queue, j, {table'[j]})
    BY <2>2, <1>1, <1>4 DEF ReplicationInv, QueueInv
  <2> QED
    BY <2>1, <2>2 DEF QueueInv
<1>9. HandInv'
  <2> SUFFICES ASSUME hand # NoDelta
               PROVE  /\ Honest(hand)'
                      /\ ~disturbed' /\ ~Owes(hand.key)' /\ Silent(queue, hand.key)
                            => hand.ver = table'[hand.key]
    BY DEF HandInv
  <2>1. hand \in Deltas /\ hand.key \in Calls
    BY DeltaShape DEF ReplicationInv, TypeOK
  <2>2. /\ Honest(hand)
        /\ ~disturbed /\ ~Owes(hand.key) /\ Silent(queue, hand.key) => hand.ver = table[hand.key]
    BY DEF ReplicationInv, HandInv
  <2>3. Honest(hand)'
    BY <2>1, <2>2, <1>1 DEF Honest
  <2>4. Owes(hand.key)' <=> Owes(hand.key) \/ hand.key = k
    BY <2>1, <1>1, <1>3 DEF Owes
  <2> QED
    BY <2>1, <2>2, <2>3, <2>4, <1>1
<1>10. ConnInv'
  BY Undisturbed
<1>11. SnapInv' /\ WireInv'
  <2>1. ASSUME NEW j \in Calls, ~Later(j)' PROVE ~Later(j) /\ Rights(j) \subseteq Rights(j)'
    <3>1. ~Later(j) /\ j # k
      BY <2>1, <1>4 DEF Later
    <3> QED
      BY <3>1, <1>1 DEF Rights
  <2> QED
    BY <2>1, WordsToCome
<1> QED
  BY <1>2, <1>7, <1>8, <1>9, <1>10, <1>11 DEF ReplicationInv

LEMMA InsertsDialogKeeps ==
  ASSUME ReplicationInv, NEW w \in Calls, InsertsDialog(w)
  PROVE  ReplicationInv'
<1>1. 1 \in Versions /\ 1 \in 1 .. MaxVer
  BY BoundsAssumption DEF Versions
<1>2. Upsert(w, 1) \in Deltas /\ Upsert(w, 1).key = w /\ Upsert(w, 1).ver = 1
  BY <1>1, NewDeltas
<1>3. born \subseteq Calls
  BY DEF ReplicationInv, TypeOK
<1>4. disturbed' \in BOOLEAN /\ (~disturbed' => ~disturbed)
  BY DEF ReplicationInv, TypeOK, InsertsDialog
<1>5. \A x \in Calls : x # w /\ owed[x] \in Deltas /\ owed[x].key = w => owed[x].ver = 1
  BY DEF ReplicationInv, OwedInv, Honest, InsertsDialog
<1>6. PICK d \in Deltas : d = Upsert(w, 1) /\ d.key = w /\ d.ver = 1
  BY <1>2
<1>7. /\ table' = [table EXCEPT ![d.key] = d.ver]
      /\ owed' = [owed EXCEPT ![w] = d]
      /\ owed[w] = NoDelta
  BY <1>6 DEF InsertsDialog
<1>8. UNCHANGED <<queue, resync, primVars, netVars>>
  BY DEF InsertsDialog
<1>9. born' \subseteq Calls /\ born \subseteq born' /\ d.key \in born'
  BY <1>3, <1>6 DEF InsertsDialog
<1>10. ~disturbed' => \A x \in Calls :
          x # w /\ owed[x] \in Deltas /\ owed[x].key = d.key => owed[x].ver = d.ver
  BY <1>5, <1>6
<1>11. d.ver # 0 => d.key = w /\ (w \notin born \/ table[w] # 0)
  BY <1>2, <1>6 DEF InsertsDialog
<1> QED
  BY <1>4, <1>6, <1>7, <1>8, <1>9, <1>10, <1>11, SipChange

LEMMA ChangesDialogKeeps ==
  ASSUME ReplicationInv, NEW w \in Calls, ChangesDialog(w)
  PROVE  ReplicationInv'
<1>1. PICK v : v = table[w] + 1
  OBVIOUS
<1>2. v \in Versions /\ v \in 1 .. MaxVer /\ table[w] # 0
  BY <1>1, BoundsAssumption DEF Versions, ChangesDialog
<1>3. born \subseteq Calls /\ w \in born
  BY <1>2 DEF ReplicationInv, TypeOK, OwedInv
<1>4. disturbed' \in BOOLEAN /\ (~disturbed' => ~disturbed)
  BY DEF ReplicationInv, TypeOK, ChangesDialog
<1>5. \A x \in Calls : x # w /\ owed[x] \in Deltas /\ owed[x].key = w => owed[x].ver = v
  BY <1>2 DEF ReplicationInv, OwedInv, Honest
<1>6. PICK d \in Deltas : d = Upsert(w, table[w] + 1) /\ d.key = w /\ d.ver = table[w] + 1 /\ d.ver = v
  BY <1>1, <1>2, NewDeltas
<1>7. /\ table' = [table EXCEPT ![d.key] = d.ver]
      /\ owed' = [owed EXCEPT ![w] = d]
      /\ owed[w] = NoDelta
  BY <1>6 DEF ChangesDialog
<1>8. UNCHANGED <<queue, resync, primVars, netVars>>
  BY DEF ChangesDialog
<1>9. born' \subseteq Calls /\ born \subseteq born' /\ d.key \in born'
  BY <1>3, <1>6 DEF ChangesDialog
<1>10. ~disturbed' => \A x \in Calls :
          x # w /\ owed[x] \in Deltas /\ owed[x].key = d.key => owed[x].ver = d.ver
  BY <1>5, <1>6
<1>11. d.ver # 0 => d.key = w /\ (w \notin born \/ table[w] # 0)
  BY <1>2, <1>6 DEF ChangesDialog
<1> QED
  BY <1>4, <1>6, <1>7, <1>8, <1>9, <1>10, <1>11, SipChange

LEMMA RemovesDialogKeeps ==
  ASSUME ReplicationInv, NEW w \in Calls, NEW k \in Calls, RemovesDialog(w, k)
  PROVE  ReplicationInv'
<1>2. 0 \in Versions
  BY BoundsAssumption DEF Versions
<1>3. born \subseteq Calls /\ k \in born
  BY DEF ReplicationInv, TypeOK, OwedInv, RemovesDialog
<1>4. disturbed' \in BOOLEAN /\ (~disturbed' => ~disturbed)
  BY DEF ReplicationInv, TypeOK, RemovesDialog
<1>5. ASSUME ~disturbed', NEW x \in Calls, x # w, owed[x] \in Deltas, owed[x].key = k
      PROVE  owed[x].ver = 0
  <2>1. owed[k] = NoDelta
    BY <1>5 DEF RemovesDialog
  <2>2. x # k
    BY <1>5, <2>1, DeltaShape
  <2> QED
    BY <1>5, <2>2 DEF ReplicationInv, OwedInv
<1>6. PICK d \in Deltas : d = Delete(k) /\ d.key = k /\ d.ver = 0
  BY NewDeltas
<1>7. /\ table' = [table EXCEPT ![d.key] = d.ver]
      /\ owed' = [owed EXCEPT ![w] = d]
      /\ owed[w] = NoDelta
  BY <1>6 DEF RemovesDialog
<1>8. UNCHANGED <<queue, resync, primVars, netVars>>
  BY DEF RemovesDialog
<1>9. born' \subseteq Calls /\ born \subseteq born' /\ d.key \in born'
  BY <1>3, <1>6 DEF RemovesDialog
<1>10. ~disturbed' => \A x \in Calls :
          x # w /\ owed[x] \in Deltas /\ owed[x].key = d.key => owed[x].ver = d.ver
  BY <1>5, <1>6
<1>11. d.ver # 0 => d.key = w /\ (w \notin born \/ table[w] # 0)
  BY <1>2, <1>6 DEF RemovesDialog
<1> QED
  BY <1>4, <1>6, <1>7, <1>8, <1>9, <1>10, <1>11, SipChange

-----------------------------------------------------------------------------
(* PrimaryReplicator::replicate: the delta is the last word in the queue,  *)
(* or it is dropped.                                                       *)
LEMMA ReplicateKeeps ==
  ASSUME ReplicationInv, NEW w \in Calls, Replicate(w)
  PROVE  ReplicationInv'
<1> USE DEF primVars, netVars
<1>1. PICK d \in Deltas : d = owed[w]
  BY DEF Replicate
<1>2. d.key \in Calls /\ \A k : Tells(d, k) <=> d.key = k
  BY DeltaShape
<1>3. queue \in Seq(Deltas) /\ Len(queue) \in Nat /\ Len(queue) <= Depth /\ Depth \in Nat
  BY DepthAssumption DEF ReplicationInv, TypeOK
<1>4. disturbed \in BOOLEAN /\ disturbed' \in BOOLEAN
  BY DEF ReplicationInv, TypeOK, Replicate
<1>5. UNCHANGED <<table, born, resync, prim, snap, unread, hand, pconn, backlog, wire, dead, sconn,
                  opened, replica>>
  BY DEF Replicate
<1>6. NoDelta \notin Deltas /\ Overflow \notin Deltas /\ NoDelta # Overflow
  BY DeltaShape DEF NoDelta, Overflow
<1>7. ConnInv'
  BY <1>5, Undisturbed
<1>8. /\ Honest(d)
      /\ ~disturbed => d.ver = table[d.key]
  BY <1>1 DEF ReplicationInv, OwedInv
<1>9. CASE Len(queue) < Depth
  <2>1. queue' = Append(queue, d) /\ owed' = [owed EXCEPT ![w] = NoDelta]
    BY <1>1, <1>9 DEF Replicate
  <2>2. disturbed' = disturbed
    <3>1. Len(queue) # Depth
      BY <1>3, <1>9
    <3> QED
      BY <3>1, <1>4 DEF Replicate
  <2>3. queue' \in Seq(Deltas) /\ Len(queue') = Len(queue) + 1 /\ Len(queue') <= Depth
    BY <2>1, <1>3, <1>9
  <2>4. \A x \in Calls : owed'[x] = IF x = w THEN NoDelta ELSE owed[x]
    BY <2>1 DEF ReplicationInv, TypeOK
  <2>5. TypeOK'
    <3>1. owed' \in [Calls -> Deltas \cup {NoDelta, Overflow}]
      BY <2>1 DEF ReplicationInv, TypeOK
    <3> QED
      BY <3>1, <2>3, <1>4, <1>5 DEF ReplicationInv, TypeOK
  <2>6. \A j \in Calls : Owes(j) => Owes(j)' \/ j = d.key
    BY <2>4, <1>1 DEF Owes
  <2>7. \A j \in Calls : Silent(queue', j) <=> Silent(queue, j) /\ j # d.key
    BY <2>1, <1>2, <1>3, AppendSays
  <2>8. Lost' <=> Lost
    BY <2>4, <1>1, <1>5, <1>6 DEF Lost
  <2>9. OwedInv'
    BY <2>2, <2>4, <1>5, <1>6 DEF ReplicationInv, OwedInv, Honest
  <2>10. QueueInv'
    <3>1. \A i \in 1 .. Len(queue') : queue'[i] = d \/ (i \in 1 .. Len(queue) /\ queue'[i] = queue[i])
      BY <2>1, <2>3, <1>3
    <3>2. \A i \in 1 .. Len(queue') : Honest(queue[i])'
      <4> SUFFICES ASSUME NEW i \in 1 .. Len(queue') PROVE Honest(queue[i])'
        OBVIOUS
      <4>1. CASE queue'[i] = d
        BY <4>1, <1>5, <1>8 DEF Honest
      <4>2. CASE i \in 1 .. Len(queue) /\ queue'[i] = queue[i]
        <5>1. Honest(queue[i])
          BY <4>2 DEF ReplicationInv, QueueInv
        <5> QED
          BY <4>2, <5>1, <1>5 DEF Honest
      <4> QED
        BY <3>1, <4>1, <4>2
    <3>3. ASSUME ~disturbed', NEW j \in Calls, ~Owes(j)'
          PROVE  LastIn(queue', j, {table[j]})
      <4>1. CASE j = d.key
        <5>1. Says(d, j) \in {table[j]}
          BY <4>1, <3>3, <2>2, <1>8, DeltaShape
        <5>2. Tells(d, j)
          BY <4>1, <1>2
        <5> QED
          BY <5>1, <5>2, <2>1, <1>3, AppendSays
      <4>2. CASE j # d.key
        <5>1. ~Owes(j) /\ ~Tells(d, j)
          BY <4>2, <3>3, <2>6, <1>2
        <5>2. LastIn(queue, j, {table[j]})
          BY <5>1, <3>3, <2>2 DEF ReplicationInv, QueueInv
        <5> QED
          BY <5>1, <5>2, <2>1, <1>3, AppendSays
      <4> QED
        BY <4>1, <4>2
    <3> QED
      BY <3>2, <3>3, <1>5 DEF QueueInv
  <2>11. HandInv'
    <3> SUFFICES ASSUME hand # NoDelta
                 PROVE  /\ Honest(hand)'
                        /\ ~disturbed' /\ ~Owes(hand.key)' /\ Silent(queue', hand.key)
                              => hand.ver = table[hand.key]
      BY <1>5 DEF HandInv
    <3>1. hand.key \in Calls
      BY DeltaShape DEF ReplicationInv, TypeOK
    <3>2. Honest(hand)'
      BY <1>5 DEF ReplicationInv, HandInv, Honest
    <3>3. ~Owes(hand.key)' /\ Silent(queue', hand.key) => ~Owes(hand.key) /\ Silent(queue, hand.key)
      BY <3>1, <2>6, <2>7, <1>5
    <3> QED
      BY <3>2, <3>3, <2>2 DEF ReplicationInv, HandInv
  <2>12. SnapInv' /\ WireInv'
    <3>1. ASSUME NEW j \in Calls, ~Later(j)' PROVE ~Later(j) /\ Rights(j) \subseteq Rights(j)'
      <4>1. ~Later(j)
        BY <3>1, <2>6, <2>7, <2>8, <1>5 DEF Later
      <4> QED
        BY <4>1, <2>2, <1>5 DEF Rights
    <3> QED
      BY <3>1, <1>5, WordsToCome
  <2> QED
    BY <2>5, <2>9, <2>10, <2>11, <2>12, <1>7 DEF ReplicationInv
<1>10. CASE ~(Len(queue) < Depth)
  <2>1. queue' = queue /\ owed' = [owed EXCEPT ![w] = Overflow] /\ disturbed'
    <3>1. Len(queue) = Depth
      BY <1>3, <1>10
    <3>2. queue' = queue /\ owed' = [owed EXCEPT ![w] = Overflow]
      BY <1>10 DEF Replicate
    <3>3. disturbed'
      BY <3>1 DEF Replicate
    <3> QED
      BY <3>2, <3>3
  <2>2. \A x \in Calls : owed'[x] = IF x = w THEN Overflow ELSE owed[x]
    BY <2>1 DEF ReplicationInv, TypeOK
  <2>3. TypeOK'
    <3>1. owed' \in [Calls -> Deltas \cup {NoDelta, Overflow}]
      BY <2>1 DEF ReplicationInv, TypeOK
    <3> QED
      BY <3>1, <2>1, <1>4, <1>5 DEF ReplicationInv, TypeOK
  <2>4. OwedInv'
    BY <2>1, <2>2, <1>5, <1>6 DEF ReplicationInv, OwedInv, Honest
  <2>5. QueueInv' /\ HandInv'
    BY <2>1, <1>5 DEF ReplicationInv, QueueInv, HandInv, Honest
  <2>6. \A j \in Calls : Later(j)'
    BY <2>2 DEF Later, Lost
  <2>7. SnapInv' /\ WireInv'
    BY <2>6 DEF SnapInv, WireInv
  <2> QED
    BY <2>3, <2>4, <2>5, <2>7, <1>7 DEF ReplicationInv
<1> QED
  BY <1>9, <1>10

(* The resync flag takes the place of the dropped delta. *)
LEMMA FlagsResyncKeeps ==
  ASSUME ReplicationInv, NEW w \in Calls, FlagsResync(w)
  PROVE  ReplicationInv'
<1> USE DEF primVars, netVars
<1>1. UNCHANGED <<table, born, queue, disturbed, prim, snap, unread, hand, pconn, backlog, wire, dead,
                  sconn, opened, replica>>
  BY DEF FlagsResync
<1>2. /\ \A x \in Calls : owed'[x] = IF x = w THEN NoDelta ELSE owed[x]
      /\ resync'
      /\ owed' \in [Calls -> Deltas \cup {NoDelta, Overflow}]
  BY DEF ReplicationInv, TypeOK, FlagsResync
<1>3. NoDelta \notin Deltas /\ Overflow \notin Deltas /\ NoDelta # Overflow
  BY DeltaShape DEF NoDelta, Overflow
<1>4. TypeOK'
  <2>1. resync' \in BOOLEAN
    BY DEF FlagsResync
  <2> QED
    BY <1>1, <1>2, <2>1 DEF ReplicationInv, TypeOK
<1>5. OwedInv'
  BY <1>1, <1>2, <1>3 DEF ReplicationInv, OwedInv, Honest
<1>6. \A k : Owes(k)' <=> Owes(k)
  BY <1>2, <1>3 DEF Owes, FlagsResync
<1>7. QueueInv'
  BY <1>1, <1>6 DEF ReplicationInv, QueueInv, Honest
<1>8. HandInv'
  BY <1>1, <1>6 DEF ReplicationInv, HandInv, Honest
<1>9. SnapInv' /\ WireInv'
  BY <1>2 DEF SnapInv, WireInv, Later, Lost
<1> QED
  BY <1>1, <1>4, <1>5, <1>7, <1>8, <1>9, Undisturbed DEF ReplicationInv

-----------------------------------------------------------------------------
(* A snapshot begins: every entry is yet to be read. *)
LEMMA BeginKeeps ==
  ASSUME ReplicationInv, BeginSnapshot, pconn' \in 1 .. opened,
         UNCHANGED <<sipVars, queue, disturbed, hand, wire, dead, sconn, opened, replica>>,
         backlog' \in Seq(Conns), \A i \in 1 .. Len(backlog') : backlog'[i] \in 1 .. opened
  PROVE  ReplicationInv'
<1> USE DEF sipVars
<1>1. prim' = "reading" /\ unread' = Calls /\ snap' = [k \in Calls |-> 0] /\ resync' = FALSE
  BY DEF BeginSnapshot
<1>2. opened \in 0 .. MaxConn /\ MaxConn \in Nat
  BY BoundsAssumption DEF ReplicationInv, TypeOK
<1>3. TypeOK'
  <2>1. snap' \in [Calls -> Versions]
    BY <1>1, BoundsAssumption DEF Versions
  <2>2. resync' \in BOOLEAN
    BY <1>1
  <2>3. pconn' \in 0 .. MaxConn
    BY <1>2
  <2> QED
    BY <1>1, <2>1, <2>2, <2>3 DEF ReplicationInv, TypeOK
<1>4. OwedInv' /\ QueueInv' /\ HandInv'
  BY Undisturbed
<1>5. ConnInv'
  <2>1. pconn' \in 0 .. opened /\ pconn' # 0
    BY <1>2
  <2> QED
    BY <1>1, <2>1 DEF ReplicationInv, ConnInv
<1>6. SnapInv' /\ WireInv'
  BY <1>1 DEF SnapInv, WireInv
<1> QED
  BY <1>3, <1>4, <1>5, <1>6 DEF ReplicationInv

LEMMA BacklogShape ==
  ASSUME ReplicationInv, backlog # <<>>
  PROVE  /\ Head(backlog) \in 1 .. opened
         /\ Tail(backlog) \in Seq(Conns)
         /\ \A i \in 1 .. Len(Tail(backlog)) : Tail(backlog)[i] \in 1 .. opened
<1>1. backlog \in Seq(Conns) /\ \A i \in 1 .. Len(backlog) : backlog[i] \in 1 .. opened
  BY DEF ReplicationInv, TypeOK, ConnInv
<1>2. /\ Len(backlog) \in Nat /\ Len(backlog) # 0
      /\ Head(backlog) = backlog[1]
      /\ Tail(backlog) \in Seq(Conns)
      /\ Len(Tail(backlog)) = Len(backlog) - 1
      /\ \A i \in 1 .. Len(Tail(backlog)) : Tail(backlog)[i] = backlog[i + 1]
  BY <1>1
<1>3. 1 \in 1 .. Len(backlog)
  BY <1>2
<1>4. \A i \in 1 .. Len(Tail(backlog)) : i + 1 \in 1 .. Len(backlog)
  BY <1>2
<1> QED
  BY <1>1, <1>2, <1>3, <1>4

LEMMA AcceptsKeeps ==
  ASSUME ReplicationInv, Accepts
  PROVE  ReplicationInv'
<1>1. backlog # <<>> /\ pconn' = Head(backlog) /\ backlog' = Tail(backlog) /\ BeginSnapshot
  BY DEF Accepts
<1>2. UNCHANGED <<sipVars, queue, disturbed, hand, wire, dead, sconn, opened, replica>>
  BY DEF Accepts
<1>3. /\ pconn' \in 1 .. opened
      /\ backlog' \in Seq(Conns)
      /\ \A i \in 1 .. Len(backlog') : backlog'[i] \in 1 .. opened
  BY <1>1, BacklogShape
<1> QED
  BY <1>1, <1>2, <1>3, BeginKeeps

(* The connection served, when there is one. *)
LEMMA Serving ==
  ASSUME ReplicationInv, prim # "wait"
  PROVE  /\ pconn \in 1 .. opened /\ pconn \in Conns
         /\ pconn \notin dead => pconn = sconn
         /\ wire[pconn] \in Seq(Frames)
<1>1. pconn \in 0 .. opened /\ pconn # 0 /\ opened \in 0 .. MaxConn /\ MaxConn \in Nat
  BY BoundsAssumption DEF ReplicationInv, TypeOK, ConnInv
<1>2. pconn \in 1 .. opened /\ pconn \in Conns
  BY <1>1 DEF Conns
<1> QED
  BY <1>2 DEF ReplicationInv, TypeOK, ConnInv

LEMMA ResyncsKeeps ==
  ASSUME ReplicationInv, Resyncs
  PROVE  ReplicationInv'
<1>1. pconn' = pconn /\ backlog' = backlog /\ BeginSnapshot
  BY DEF Resyncs, netVars
<1>2. UNCHANGED <<sipVars, queue, disturbed, hand, wire, dead, sconn, opened, replica>>
  BY DEF Resyncs, netVars
<1>3. pconn \in 1 .. opened
  BY Serving DEF Resyncs
<1>4. backlog \in Seq(Conns) /\ \A i \in 1 .. Len(backlog) : backlog[i] \in 1 .. opened
  BY DEF ReplicationInv, TypeOK, ConnInv
<1>5. /\ pconn' \in 1 .. opened
      /\ backlog' \in Seq(Conns)
      /\ \A i \in 1 .. Len(backlog') : backlog'[i] \in 1 .. opened
  BY <1>1, <1>3, <1>4
<1> QED
  BY <1>1, <1>2, <1>5, BeginKeeps

(* The first delta leaves the queue: the others stay honest and in order,  *)
(* and what it says is right unless another word is to come.               *)
LEMMA QueueTail ==
  ASSUME ReplicationInv, queue # <<>>, queue' = Tail(queue), UNCHANGED <<sipVars, disturbed>>
  PROVE  /\ queue' \in Seq(Deltas) /\ Len(queue') <= Depth
         /\ QueueInv'
         /\ Head(queue) \in Deltas /\ Honest(Head(queue)) /\ Head(queue).key \in Calls
         /\ \A k \in Calls : Silent(queue, k) <=> Silent(queue', k) /\ Head(queue).key # k
         /\ ~disturbed /\ ~Owes(Head(queue).key) /\ Silent(queue', Head(queue).key)
               => Head(queue).ver = table[Head(queue).key]
<1> USE DEF sipVars
<1>1. queue \in Seq(Deltas) /\ Len(queue) <= Depth /\ Depth \in Nat /\ Len(queue) \in Nat
  BY DepthAssumption DEF ReplicationInv, TypeOK
<1>2. /\ Head(queue) \in Deltas /\ queue' \in Seq(Deltas) /\ Len(queue') = Len(queue) - 1
      /\ \A k : Silent(queue, k) <=> Silent(queue', k) /\ ~Tells(Head(queue), k)
      /\ \A k, R : LastIn(queue, k, R) => LastIn(queue', k, R)
      /\ \A k, R : LastIn(queue, k, R) /\ Tells(Head(queue), k) /\ Silent(queue', k)
                      => Says(Head(queue), k) \in R
  BY <1>1, TailSays
<1>3. PICK d \in Deltas : d = Head(queue)
  BY <1>2
<1>4. d.key \in Calls /\ (\A k : Tells(d, k) <=> d.key = k) /\ \A k : Says(d, k) = d.ver
  BY DeltaShape
<1>5. Len(queue') <= Depth
  BY <1>1, <1>2
<1>6. /\ 1 \in 1 .. Len(queue) /\ Head(queue) = queue[1]
      /\ \A i \in 1 .. Len(queue') : i + 1 \in 1 .. Len(queue) /\ queue'[i] = queue[i + 1]
  <2>1. Len(queue) # 0
    BY <1>1
  <2>2. Head(queue) = queue[1] /\ \A i \in 1 .. Len(queue') : queue'[i] = queue[i + 1]
    BY <1>1
  <2>3. 1 \in 1 .. Len(queue) /\ \A i \in 1 .. Len(queue') : i + 1 \in 1 .. Len(queue)
    BY <1>1, <1>2, <2>1
  <2> QED
    BY <2>2, <2>3
<1>7. Honest(d)
  BY <1>3, <1>6 DEF ReplicationInv, QueueInv
<1>8. QueueInv'
  <2>1. \A i \in 1 .. Len(queue') : Honest(queue[i])'
    BY <1>6 DEF ReplicationInv, QueueInv, Honest
  <2>2. \A k : Owes(k)' <=> Owes(k)
    BY DEF Owes
  <2>3. ASSUME ~disturbed, NEW k \in Calls, ~Owes(k) PROVE LastIn(queue', k, {table[k]})
    BY <2>3, <1>2 DEF ReplicationInv, QueueInv
  <2> QED
    BY <2>1, <2>2, <2>3 DEF QueueInv
<1>9. ASSUME ~disturbed, ~Owes(d.key), Silent(queue', d.key) PROVE d.ver = table[d.key]
  <2>1. LastIn(queue, d.key, {table[d.key]})
    BY <1>4, <1>9 DEF ReplicationInv, QueueInv
  <2>2. Says(d, d.key) \in {table[d.key]}
    BY <2>1, <1>2, <1>3, <1>4, <1>9
  <2> QED
    BY <2>2, <1>4
<1>10. \A k \in Calls : Silent(queue, k) <=> Silent(queue', k) /\ d.key # k
  BY <1>2, <1>3, <1>4
<1> QED
  BY <1>2, <1>3, <1>4, <1>5, <1>7, <1>8, <1>9, <1>10

(* A frame goes out.  It is the last word on the wire about what it tells. *)
LEMMA WritesWord ==
  ASSUME ReplicationInv, NEW f \in Frames, prim # "wait", Put(f),
         UNCHANGED <<table, disturbed, pconn, dead, replica>>,
         \A k \in Calls : ~Later(k)' =>
            /\ Tells(f, k) => Says(f, k) \in Rights(k)
            /\ ~Tells(f, k) => prim \in {"serve", "delta"} /\ ~Later(k)
  PROVE  wire' \in [Conns -> Seq(Frames)] /\ WireInv'
<1>1. pconn \in Conns /\ wire[pconn] \in Seq(Frames) /\ wire \in [Conns -> Seq(Frames)]
  BY Serving DEF ReplicationInv, TypeOK
<1>2. wire' \in [Conns -> Seq(Frames)] /\ (pconn \notin dead => wire'[pconn] = Append(wire[pconn], f))
  <2>1. Append(wire[pconn], f) \in Seq(Frames)
    BY <1>1
  <2> QED
    BY <2>1, <1>1 DEF Put
<1>3. \A k : Rights(k)' = Rights(k)
  BY DEF Rights
<1>4. ASSUME pconn \notin dead, NEW k \in Calls, ~Later(k)'
      PROVE  /\ LastIn(wire'[pconn], k, Rights(k))
             /\ Silent(wire'[pconn], k) => replica[k] \in Rights(k)
  <2>1. wire'[pconn] = Append(wire[pconn], f)
    BY <1>2, <1>4
  <2>2. CASE Tells(f, k)
    BY <2>1, <2>2, <1>1, <1>4, AppendSays
  <2>3. CASE ~Tells(f, k)
    <3>1. /\ LastIn(wire[pconn], k, Rights(k))
          /\ Silent(wire[pconn], k) => replica[k] \in Rights(k)
      BY <2>3, <1>4 DEF ReplicationInv, WireInv
    <3>2. LastIn(wire'[pconn], k, Rights(k)) /\ (Silent(wire'[pconn], k) => Silent(wire[pconn], k))
      BY <3>1, <2>1, <2>3, <1>1, AppendSays
    <3> QED
      BY <3>1, <3>2
  <2> QED
    BY <2>2, <2>3
<1> QED
  BY <1>2, <1>3, <1>4 DEF WireInv

(* Without a secondary a delta is forgotten. *)
LEMMA DiscardsKeeps ==
  ASSUME ReplicationInv, Discards
  PROVE  ReplicationInv'
<1> USE DEF primVars, netVars, sipVars
<1>1. /\ UNCHANGED <<table, born, owed, resync, disturbed, prim, snap, unread, hand, pconn, backlog,
                     wire, dead, sconn, opened, replica>>
      /\ prim = "wait" /\ queue # <<>> /\ queue' = Tail(queue)
  BY DEF Discards
<1>2. queue' \in Seq(Deltas) /\ Len(queue') <= Depth /\ QueueInv'
  BY <1>1, QueueTail
<1>3. TypeOK'
  BY <1>1, <1>2 DEF ReplicationInv, TypeOK
<1>4. OwedInv' /\ ConnInv'
  BY <1>1, Undisturbed
<1>5. HandInv' /\ SnapInv' /\ WireInv'
  BY <1>1 DEF ReplicationInv, ConnInv, HandInv, SnapInv, WireInv
<1> QED
  BY <1>2, <1>3, <1>4, <1>5 DEF ReplicationInv

(* The delta taken while a resync is due is written after the snapshot. *)
LEMMA TakesDeltaResyncKeeps ==
  ASSUME ReplicationInv, TakesDeltaResync
  PROVE  ReplicationInv'
<1> USE DEF netVars, sipVars
<1>1. /\ UNCHANGED <<table, born, owed, disturbed, pconn, backlog, wire, dead, sconn, opened, replica>>
      /\ queue # <<>> /\ queue' = Tail(queue) /\ hand' = Head(queue) /\ prim = "serve"
      /\ prim' = "reading" /\ unread' = Calls /\ snap' = [k \in Calls |-> 0] /\ resync' = FALSE
  BY DEF TakesDeltaResync, BeginSnapshot
<1>2. /\ queue' \in Seq(Deltas) /\ Len(queue') <= Depth
      /\ QueueInv'
      /\ hand' \in Deltas /\ Honest(Head(queue)) /\ hand'.key \in Calls
      /\ ~disturbed /\ ~Owes(hand'.key) /\ Silent(queue', hand'.key) => hand'.ver = table[hand'.key]
  BY <1>1, QueueTail
<1>3. TypeOK'
  <2>1. snap' \in [Calls -> Versions]
    BY <1>1, BoundsAssumption DEF Versions
  <2>2. resync' \in BOOLEAN
    BY <1>1
  <2> QED
    BY <1>1, <1>2, <2>1, <2>2 DEF ReplicationInv, TypeOK
<1>4. OwedInv'
  BY <1>1, Undisturbed
<1>5. HandInv'
  <2>1. Honest(hand)'
    BY <1>1, <1>2 DEF Honest
  <2>2. Owes(hand.key)' <=> Owes(hand'.key)
    BY <1>1 DEF Owes
  <2> QED
    BY <1>1, <1>2, <2>1, <2>2 DEF HandInv
<1>6. ConnInv'
  BY <1>1 DEF ReplicationInv, ConnInv
<1>7. SnapInv' /\ WireInv'
  BY <1>1 DEF SnapInv, WireInv
<1> QED
  BY <1>2, <1>3, <1>4, <1>5, <1>6, <1>7 DEF ReplicationInv

LEMMA TakesDeltaKeeps ==
  ASSUME ReplicationInv, TakesDelta
  PROVE  ReplicationInv'
<1> USE DEF primVars, sipVars
<1>1. /\ UNCHANGED <<table, born, owed, resync, disturbed, prim, snap, unread, hand, pconn, backlog,
                     dead, sconn, opened, replica>>
      /\ prim = "serve" /\ queue # <<>> /\ queue' = Tail(queue)
  BY DEF TakesDelta
<1>2. PICK d : d = Head(queue)
  OBVIOUS
<1>3. /\ queue' \in Seq(Deltas) /\ Len(queue') <= Depth
      /\ QueueInv'
      /\ d \in Deltas /\ Honest(d) /\ d.key \in Calls
      /\ \A k \in Calls : Silent(queue, k) <=> Silent(queue', k) /\ d.key # k
      /\ ~disturbed /\ ~Owes(d.key) /\ Silent(queue', d.key) => d.ver = table[d.key]
  BY <1>1, <1>2, QueueTail
<1>4. d \in Frames /\ d.ver \in Versions /\ \A k : (Tells(d, k) <=> d.key = k) /\ Says(d, k) = d.ver
  BY <1>3, DeltaShape
<1>5. hand = NoDelta
  BY <1>1 DEF ReplicationInv, ConnInv
<1>6. (\A k : Owes(k)' <=> Owes(k)) /\ (Lost' <=> Lost)
  BY <1>1 DEF Owes, Lost
<1>7. ASSUME NEW k \in Calls, ~Later(k)'
      PROVE  /\ Tells(d, k) => Says(d, k) \in Rights(k)
             /\ ~Tells(d, k) => prim \in {"serve", "delta"} /\ ~Later(k)
  <2>1. ~Owes(k) /\ Silent(queue', k) /\ ~Lost
    BY <1>6, <1>7 DEF Later
  <2>2. Tells(d, k) => Says(d, k) \in Rights(k)
    BY <2>1, <1>3, <1>4 DEF Rights, Honest
  <2>3. ~Tells(d, k) => ~Later(k)
    BY <2>1, <1>3, <1>4, <1>5 DEF Later
  <2> QED
    BY <2>2, <2>3, <1>1
<1>8. wire' \in [Conns -> Seq(Frames)] /\ WireInv'
  BY <1>1, <1>2, <1>4, <1>7, WritesWord DEF TakesDelta
<1>9. TypeOK'
  BY <1>1, <1>3, <1>8 DEF ReplicationInv, TypeOK
<1>10. OwedInv' /\ ConnInv'
  BY <1>1, Undisturbed
<1>11. HandInv' /\ SnapInv'
  BY <1>1, <1>5 DEF HandInv, SnapInv
<1> QED
  BY <1>3, <1>8, <1>9, <1>10, <1>11 DEF ReplicationInv

(* An entry is read: right at that moment, and later as long as no word    *)
(* about it is to come.                                                    *)
LEMMA ReadsEntryKeeps ==
  ASSUME ReplicationInv, NEW k \in Calls, ReadsEntry(k)
  PROVE  ReplicationInv'
<1> USE DEF netVars, sipVars
<1>1. UNCHANGED <<table, born, owed, queue, resync, disturbed, hand, pconn, backlog, wire, dead, sconn,
                  opened, replica>>
  BY DEF ReadsEntry
<1>2. /\ prim = "reading" /\ prim' \in {"reading", "writing"} /\ unread' = unread \ {k}
      /\ prim' = "writing" => unread' = {}
      /\ \A j \in Calls : snap'[j] = IF j = k THEN table[k] ELSE snap[j]
      /\ snap' \in [Calls -> Versions]
  BY DEF ReadsEntry, ReplicationInv, TypeOK
<1>3. TypeOK'
  BY <1>1, <1>2 DEF ReplicationInv, TypeOK
<1>4. OwedInv' /\ QueueInv' /\ HandInv'
  BY <1>1, Undisturbed
<1>5. ConnInv'
  BY <1>1, <1>2 DEF ReplicationInv, ConnInv
<1>6. \A j : Later(j)' = Later(j) /\ Rights(j)' = Rights(j)
  BY <1>1, Undisturbed
<1>7. table[k] \in Rights(k)
  BY DEF ReplicationInv, TypeOK, Rights
<1>8. SnapInv' /\ WireInv'
  BY <1>2, <1>6, <1>7 DEF ReplicationInv, SnapInv, WireInv
<1> QED
  BY <1>3, <1>4, <1>5, <1>8 DEF ReplicationInv

LEMMA WritesSnapshotKeeps ==
  ASSUME ReplicationInv, WritesSnapshot
  PROVE  ReplicationInv'
<1> USE DEF sipVars
<1>1. /\ UNCHANGED <<table, born, owed, queue, resync, disturbed, unread, hand, pconn, backlog, dead,
                     sconn, opened, replica>>
      /\ prim = "writing" /\ prim' = (IF hand = NoDelta THEN "serve" ELSE "delta")
      /\ snap' = [k \in Calls |-> 0]
  BY DEF WritesSnapshot
<1>2. PICK f : f = Snapshot(snap)
  OBVIOUS
<1>3. f \in Frames /\ f.kind = "snapshot" /\ f.recs = snap
  BY <1>2 DEF Snapshot, Frames, ReplicationInv, TypeOK
<1>4. unread = {}
  BY <1>1 DEF ReplicationInv, ConnInv
<1>5. \A k : Later(k)' = Later(k)
  BY <1>1, Undisturbed
<1>6. ASSUME NEW k \in Calls, ~Later(k)'
      PROVE  /\ Tells(f, k) => Says(f, k) \in Rights(k)
             /\ ~Tells(f, k) => prim \in {"serve", "delta"} /\ ~Later(k)
  <2>1. snap[k] \in Rights(k)
    BY <1>1, <1>4, <1>5, <1>6 DEF ReplicationInv, SnapInv
  <2> QED
    BY <2>1, <1>3 DEF Tells, Says
<1>7. wire' \in [Conns -> Seq(Frames)] /\ WireInv'
  BY <1>1, <1>2, <1>3, <1>6, WritesWord DEF WritesSnapshot
<1>8. TypeOK'
  <2>1. snap' \in [Calls -> Versions]
    BY <1>1, BoundsAssumption DEF Versions
  <2> QED
    BY <1>1, <1>7, <2>1 DEF ReplicationInv, TypeOK
<1>9. OwedInv' /\ QueueInv' /\ HandInv'
  BY <1>1, Undisturbed
<1>10. ConnInv' /\ SnapInv'
  BY <1>1 DEF ReplicationInv, ConnInv, SnapInv
<1> QED
  BY <1>7, <1>8, <1>9, <1>10 DEF ReplicationInv

LEMMA WritesDeltaKeeps ==
  ASSUME ReplicationInv, WritesDelta
  PROVE  ReplicationInv'
<1> USE DEF sipVars
<1>1. /\ UNCHANGED <<table, born, owed, queue, resync, disturbed, snap, unread, pconn, backlog, dead,
                     sconn, opened, replica>>
      /\ prim = "delta" /\ prim' = "serve" /\ hand' = NoDelta
  BY DEF WritesDelta
<1>2. PICK d \in Deltas : d = hand
  BY <1>1 DEF ReplicationInv, TypeOK, ConnInv
<1>3. /\ d \in Frames /\ d.key \in Calls /\ d.ver \in Versions /\ d # NoDelta
      /\ \A k : (Tells(d, k) <=> d.key = k) /\ Says(d, k) = d.ver
  BY DeltaShape
<1>4. Honest(d) /\ (~disturbed /\ ~Owes(d.key) /\ Silent(queue, d.key) => d.ver = table[d.key])
  BY <1>2, <1>3 DEF ReplicationInv, HandInv
<1>5. (\A k : Owes(k)' <=> Owes(k)) /\ (Lost' <=> Lost)
  BY <1>1 DEF Owes, Lost
<1>6. ASSUME NEW k \in Calls, ~Later(k)'
      PROVE  /\ Tells(d, k) => Says(d, k) \in Rights(k)
             /\ ~Tells(d, k) => prim \in {"serve", "delta"} /\ ~Later(k)
  <2>1. ~Owes(k) /\ Silent(queue, k) /\ ~Lost
    BY <1>1, <1>5, <1>6 DEF Later
  <2>2. Tells(d, k) => Says(d, k) \in Rights(k)
    BY <2>1, <1>3, <1>4 DEF Rights, Honest
  <2>3. ~Tells(d, k) => ~Later(k)
    BY <2>1, <1>2, <1>3 DEF Later
  <2> QED
    BY <2>2, <2>3, <1>1
<1>7. wire' \in [Conns -> Seq(Frames)] /\ WireInv'
  BY <1>1, <1>2, <1>3, <1>6, WritesWord DEF WritesDelta
<1>8. TypeOK'
  BY <1>1, <1>7 DEF ReplicationInv, TypeOK
<1>9. OwedInv' /\ QueueInv'
  BY <1>1, Undisturbed
<1>10. HandInv' /\ ConnInv' /\ SnapInv'
  BY <1>1 DEF ReplicationInv, HandInv, ConnInv, SnapInv
<1> QED
  BY <1>7, <1>8, <1>9, <1>10 DEF ReplicationInv

(* A failed write: everything waits for the next connection's snapshot. *)
LEMMA WriteFailsKeeps ==
  ASSUME ReplicationInv, WriteFails
  PROVE  ReplicationInv'
<1> USE DEF sipVars, netVars
<1>1. /\ UNCHANGED <<table, born, owed, disturbed, unread, backlog, wire, dead, sconn, opened, replica>>
      /\ prim' = "wait" /\ hand' = NoDelta /\ pconn' = 0 /\ snap' = [k \in Calls |-> 0]
      /\ resync' = TRUE
  BY DEF WriteFails
<1>2. queue' \in Seq(Deltas) /\ Len(queue') <= Depth /\ QueueInv'
  <2>1. CASE prim = "serve" /\ queue # <<>>
    <3>1. queue' = Tail(queue) /\ queue # <<>>
      BY <2>1 DEF WriteFails
    <3> QED
      BY <3>1, <1>1, QueueTail
  <2>2. CASE ~(prim = "serve" /\ queue # <<>>)
    <3>1. queue' = queue
      BY <2>2 DEF WriteFails
    <3>2. QueueInv'
      BY <3>1, <1>1, Undisturbed
    <3> QED
      BY <3>1, <3>2 DEF ReplicationInv, TypeOK
  <2> QED
    BY <2>1, <2>2
<1>3. TypeOK'
  <2>1. snap' \in [Calls -> Versions] /\ pconn' \in 0 .. MaxConn
    BY <1>1, BoundsAssumption DEF Versions
  <2>2. resync' \in BOOLEAN
    BY <1>1
  <2> QED
    BY <1>1, <1>2, <2>1, <2>2 DEF ReplicationInv, TypeOK
<1>4. OwedInv'
  BY <1>1, Undisturbed
<1>5. HandInv' /\ SnapInv' /\ WireInv'
  BY <1>1 DEF HandInv, SnapInv, WireInv
<1>6. ConnInv'
  <2>1. 0 \in 0 .. opened
    BY DEF ReplicationInv, TypeOK
  <2> QED
    BY <1>1, <2>1 DEF ReplicationInv, ConnInv
<1> QED
  BY <1>2, <1>3, <1>4, <1>5, <1>6 DEF ReplicationInv

-----------------------------------------------------------------------------
(* A new connection: the earlier ones are dead. *)
LEMMA DialsKeeps ==
  ASSUME ReplicationInv, Dials
  PROVE  ReplicationInv'
<1> USE DEF primVars, sipVars
<1>1. UNCHANGED <<table, born, owed, queue, resync, disturbed, prim, snap, unread, hand, pconn, wire,
                  dead, replica>>
  BY DEF Dials
<1>2. /\ opened \in Nat /\ MaxConn \in Nat /\ opened < MaxConn /\ opened' = opened + 1
      /\ sconn = 0 /\ sconn' = opened'
  BY BoundsAssumption DEF Dials, ReplicationInv, TypeOK
<1>3. opened' \in 1 .. MaxConn /\ opened' \in 1 .. opened' /\ 0 .. opened \subseteq 0 .. opened'
      /\ 1 .. opened' = 1 .. opened \cup {opened'} /\ opened' \in 0 .. opened' /\ opened' \in 0 .. MaxConn
  BY <1>2
<1>4. backlog \in Seq(Conns) /\ backlog' = Append(backlog, opened') /\ opened' \in Conns
  BY <1>3 DEF Dials, ReplicationInv, TypeOK, Conns
<1>5. /\ backlog' \in Seq(Conns)
      /\ \A i \in 1 .. Len(backlog') :
            backlog'[i] = opened' \/ (i \in 1 .. Len(backlog) /\ backlog'[i] = backlog[i])
  BY <1>4
<1>6. TypeOK'
  BY <1>1, <1>2, <1>3, <1>5 DEF ReplicationInv, TypeOK
<1>7. OwedInv' /\ QueueInv' /\ HandInv' /\ SnapInv' /\ WireInv'
  BY <1>1, Undisturbed
<1>8. ConnInv'
  <2>1. pconn' \in 0 .. opened' /\ sconn' \in 0 .. opened'
    BY <1>1, <1>2, <1>3 DEF ReplicationInv, ConnInv
  <2>2. \A c \in 1 .. opened : c \in dead
    <3>1. \A c \in 1 .. opened : c # 0
      BY <1>2
    <3> QED
      BY <3>1, <1>2 DEF ReplicationInv, ConnInv
  <2>3. \A c \in 1 .. opened' : c \notin dead' => c = sconn'
    BY <2>2, <1>1, <1>2, <1>3
  <2>4. \A i \in 1 .. Len(backlog') : backlog'[i] \in 1 .. opened'
    BY <1>3, <1>5 DEF ReplicationInv, ConnInv
  <2> QED
    BY <2>1, <2>3, <2>4, <1>1 DEF ReplicationInv, ConnInv
<1> QED
  BY <1>6, <1>7, <1>8 DEF ReplicationInv

(* apply_frame: what was the first word on the wire is now the replica's. *)
LEMMA ReadsFrameKeeps ==
  ASSUME ReplicationInv, ReadsFrame
  PROVE  ReplicationInv'
<1> USE DEF primVars, sipVars
<1>1. UNCHANGED <<table, born, owed, queue, resync, disturbed, prim, snap, unread, hand, pconn, backlog,
                  dead, sconn, opened>>
  BY DEF ReadsFrame
<1>2. sconn \in Conns /\ wire \in [Conns -> Seq(Frames)] /\ wire[sconn] # <<>>
  <2>1. sconn \in 0 .. MaxConn /\ sconn # 0 /\ MaxConn \in Nat
    BY BoundsAssumption DEF ReplicationInv, TypeOK, ReadsFrame
  <2>2. sconn \in Conns
    BY <2>1 DEF Conns
  <2> QED
    BY <2>2 DEF ReplicationInv, TypeOK, ReadsFrame
<1>3. PICK s \in Seq(Frames) : s = wire[sconn] /\ s # <<>>
  BY <1>2
<1>4. PICK f \in Frames : f = Head(s)
  BY <1>3, TailSays
<1>5. Tail(s) \in Seq(Frames)
  BY <1>3
<1>6. wire' \in [Conns -> Seq(Frames)] /\ wire'[sconn] = Tail(s)
  BY <1>2, <1>3, <1>5 DEF ReadsFrame
<1>7. /\ replica' \in [Calls -> Versions]
      /\ \A k \in Calls : replica'[k] = IF Tells(f, k) THEN Says(f, k) ELSE replica[k]
  <2>1. replica' = (IF f.kind = "snapshot" THEN f.recs ELSE Changed(replica, f))
    BY <1>3, <1>4 DEF ReadsFrame, ApplyFrame
  <2>2. CASE f.kind = "snapshot"
    BY <2>1, <2>2, FrameShape DEF Tells, Says
  <2>3. CASE f.kind # "snapshot"
    <3>1. f.key \in Calls /\ f.ver \in Versions /\ replica \in [Calls -> Versions]
      BY <2>3, FrameShape DEF ReplicationInv, TypeOK
    <3>2. replica' = [replica EXCEPT ![f.key] = f.ver]
      BY <2>1, <2>3 DEF Changed
    <3> QED
      BY <2>3, <3>1, <3>2 DEF Tells, Says
  <2> QED
    BY <2>2, <2>3
<1>8. TypeOK'
  BY <1>1, <1>6, <1>7 DEF ReplicationInv, TypeOK
<1>9. OwedInv' /\ QueueInv' /\ HandInv' /\ SnapInv' /\ ConnInv'
  BY <1>1, Undisturbed
<1>10. \A k : Later(k)' = Later(k) /\ Rights(k)' = Rights(k)
  BY <1>1, Undisturbed
<1>11. ASSUME prim \in {"serve", "delta"}, pconn \notin dead, NEW k \in Calls, ~Later(k)
       PROVE  /\ LastIn(wire'[pconn], k, Rights(k))
              /\ Silent(wire'[pconn], k) => replica'[k] \in Rights(k)
  <2>1. pconn = sconn
    BY <1>11, Serving
  <2>2. LastIn(s, k, Rights(k)) /\ (Silent(s, k) => replica[k] \in Rights(k))
    BY <2>1, <1>3, <1>11 DEF ReplicationInv, WireInv
  <2>3. /\ Silent(s, k) <=> Silent(Tail(s), k) /\ ~Tells(f, k)
        /\ LastIn(Tail(s), k, Rights(k))
        /\ Tells(f, k) /\ Silent(Tail(s), k) => Says(f, k) \in Rights(k)
    BY <2>2, <1>3, <1>4, TailSays
  <2> QED
    BY <2>1, <2>2, <2>3, <1>6, <1>7
<1>12. WireInv'
  BY <1>1, <1>10, <1>11 DEF WireInv
<1> QED
  BY <1>8, <1>9, <1>12 DEF ReplicationInv

(* The secondary's connection dies with what was in flight. *)
LEMMA DisconnectsKeeps ==
  ASSUME ReplicationInv, Disconnects
  PROVE  ReplicationInv'
<1> USE DEF primVars, sipVars
<1>1. UNCHANGED <<table, born, owed, queue, resync, disturbed, prim, snap, unread, hand, pconn, backlog,
                  opened, replica>>
  BY DEF Disconnects
<1>2. sconn # 0 /\ dead' = dead \cup {sconn} /\ sconn' = 0 /\ wire' = [wire EXCEPT ![sconn] = <<>>]
  BY DEF Disconnects
<1>3. sconn \in Conns /\ sconn' \in 0 .. MaxConn /\ sconn' \in 0 .. opened
  BY <1>2, BoundsAssumption DEF ReplicationInv, TypeOK, Conns
<1>4. TypeOK'
  <2>1. wire' \in [Conns -> Seq(Frames)]
    <3>0. <<>> \in Seq(Frames)
      OBVIOUS
    <3>1. PICK e : e \in Seq(Frames) /\ e = <<>>
      BY <3>0
    <3>2. wire' = [wire EXCEPT ![sconn] = e] /\ wire \in [Conns -> Seq(Frames)]
      BY <1>2, <3>1 DEF ReplicationInv, TypeOK
    <3> QED
      BY <3>1, <3>2
  <2> QED
    BY <1>1, <1>2, <1>3, <2>1 DEF ReplicationInv, TypeOK
<1>5. OwedInv' /\ QueueInv' /\ HandInv' /\ SnapInv'
  BY <1>1, Undisturbed
<1>6. ConnInv'
  BY <1>1, <1>2, <1>3 DEF ReplicationInv, ConnInv
<1>7. WireInv'
  <2>1. prim # "wait" => pconn \in dead'
    BY <1>2, Serving
  <2> QED
    BY <2>1, <1>1 DEF WireInv
<1> QED
  BY <1>4, <1>5, <1>6, <1>7 DEF ReplicationInv

(* The induction step: one case for each action. *)
LEMMA NextInv == ReplicationInv /\ [Next]_vars => ReplicationInv'
<1> SUFFICES ASSUME ReplicationInv, [Next]_vars PROVE ReplicationInv'
  OBVIOUS
<1>1. CASE SipStep
  BY <1>1, InsertsDialogKeeps, ChangesDialogKeeps, RemovesDialogKeeps DEF SipStep
<1>2. CASE \E w \in Calls : Replicate(w) \/ FlagsResync(w)
  BY <1>2, ReplicateKeeps, FlagsResyncKeeps
<1>3. CASE PrimaryStep
  BY <1>3, AcceptsKeeps, DiscardsKeeps, ResyncsKeeps, TakesDeltaResyncKeeps, TakesDeltaKeeps,
     ReadsEntryKeeps, WritesSnapshotKeeps, WritesDeltaKeeps, WriteFailsKeeps DEF PrimaryStep
<1>4. CASE SecondaryStep \/ Disconnects
  BY <1>4, DialsKeeps, ReadsFrameKeeps, DisconnectsKeeps DEF SecondaryStep
<1>5. CASE UNCHANGED vars
  <2>1. UNCHANGED <<table, born, owed, queue, resync, disturbed, prim, snap, unread, hand, pconn,
                    backlog, wire, dead, sconn, opened, replica>>
    BY <1>5 DEF vars, sipVars, primVars, netVars
  <2>2. TypeOK'
    BY <2>1 DEF ReplicationInv, TypeOK
  <2> QED
    BY <2>1, <2>2, Undisturbed DEF ReplicationInv
<1> QED
  BY <1>1, <1>2, <1>3, <1>4, <1>5 DEF Next

LEMMA SpecInv == Spec => []ReplicationInv
BY InitInv, NextInv, PTL DEF Spec

LEMMA InvGivesFaithful == ReplicationInv => SecondaryFaithful
<1> SUFFICES ASSUME ReplicationInv, Settled
             PROVE  /\ \A k \in Calls : table[k] # 0 => replica[k] # 0
                    /\ ~disturbed => replica = table
  BY DEF SecondaryFaithful, LiveDialogsKnown, ConvergesInOrder
<1>1. prim = "serve" /\ pconn \notin dead /\ wire[pconn] = <<>> /\ queue = <<>> /\ ~resync
      /\ \A w \in Calls : owed[w] = NoDelta
  BY DEF Settled
<1>2. NoDelta \notin Deltas /\ NoDelta # Overflow
  BY DeltaShape DEF NoDelta, Overflow
<1>3. hand = NoDelta
  BY <1>1 DEF ReplicationInv, ConnInv
<1>4. \A k \in Calls : ~Later(k)
  BY <1>1, <1>2, <1>3, EmptySays DEF Later, Owes, Lost
<1>5. \A k \in Calls : Silent(wire[pconn], k)
  BY <1>1, EmptySays
<1>6. \A k \in Calls : replica[k] \in Rights(k)
  BY <1>1, <1>4, <1>5 DEF ReplicationInv, WireInv
<1>7. \A k \in Calls : (table[k] # 0 => replica[k] # 0) /\ (~disturbed => replica[k] = table[k])
  BY <1>6 DEF Rights
<1>8. table \in [Calls -> Versions] /\ replica \in [Calls -> Versions]
  BY DEF ReplicationInv, TypeOK
<1> QED
  BY <1>7, <1>8

(* The state of the replication is well typed for every number of dialogs  *)
(* and connections and every depth of the queue and of the socket.         *)
THEOREM ReplicationIsTyped == Spec => []TypeOK
<1>1. ReplicationInv => TypeOK
  BY DEF ReplicationInv
<1> QED
  BY <1>1, SpecInv, PTL

(* Whatever the queue drops, whatever dies with a connection and whatever  *)
(* changes while a snapshot is read: once replication has settled, the     *)
(* secondary knows every live dialog, and its table is the primary's if    *)
(* nothing overflowed or overtook (replication_service.rs:                 *)
(* run_primary_service, send_snapshot, apply_frame).                       *)
THEOREM SecondaryIsFaithful == Spec => []SecondaryFaithful
BY SpecInv, InvGivesFaithful, PTL

-----------------------------------------------------------------------------
(* Part 2: the host.  Media ports, sessions and budget *)

\* The parties that hold sockets.
Stranger == <<"stranger">>
Allocator(c) == <<"alloc", c>>
Endpoint(c) == <<"endpoint", c>>
Pairer(c) == <<"pairing", c>>
Session(s) == <<"session", s>>
Handshake(c) == <<"handshake", c>>

AllocSet == [phase : {"idle", "rtp", "rtcp"}, port : Nat, tries : Nat, begun : Nat]
Pairings == [phase : {"own leg", "peer leg", "spawn"}, with : Dialogs, kind : Kinds]
PairingSet == {NoPairing} \cup Pairings
SessionSet == [kind : Kinds \cup {"none"}, legs : SUBSET Dialogs,
               state : {"unmade", "running", "stopping", "stopped"},
               handles : SUBSET Dialogs, counted : BOOLEAN]
FabricType ==
    /\ DOMAIN holders = Ports /\ DOMAIN endpoints = Dialogs /\ DOMAIN dtls = Dialogs
    /\ alloc \in [Dialogs -> AllocSet]
    /\ pairing \in [Dialogs -> PairingSet] /\ sessions \in [Ids -> SessionSet]

\* A port another program took is nobody else's.
StrangerInv == \A p \in Ports : \A w : Stranger \in holders[p] /\ w \in holders[p] => w = Stranger

AllocOk(c) ==
    /\ \A p \in Ports : Allocator(c) \in holders[p] <=> alloc[c].phase = "rtcp" /\ alloc[c].port = p
    /\ alloc[c].phase = "rtcp" => alloc[c].port \in MinPort .. MaxPort
    /\ alloc[c].phase # "idle" => endpoints[c] = 0 /\ alloc[c].port >= MinPort
AllocInv == \A c \in Dialogs : AllocOk(c)

EndpointOk(c) ==
    /\ endpoints[c] \in (MinPort .. MaxPort) \cup {0}
    /\ \A p \in Ports :
         Endpoint(c) \in holders[p] <=> endpoints[c] # 0 /\ (p = endpoints[c] \/ p = endpoints[c] + 1)
EndpointInv == \A c \in Dialogs : EndpointOk(c)

\* A pairing that has looked up a leg holds its sockets, and a session that has not stopped holds some.
PairingInv ==
    \A c \in Dialogs :
        IF pairing[c].phase \in {"peer leg", "spawn"} THEN \E p \in Ports : Pairer(c) \in holders[p]
        ELSE \A p \in Ports : Pairer(c) \notin holders[p]
SessionInv ==
    \A s \in Ids :
        IF sessions[s].state \in {"running", "stopping"} THEN \E p \in Ports : Session(s) \in holders[p]
        ELSE \A p \in Ports : Session(s) \notin holders[p]
HandshakeInv ==
    \A c \in Dialogs, p \in Ports : Handshake(c) \in holders[p] => dtls[c] = "handshaking"

PortInv == FabricType /\ StrangerInv /\ AllocInv /\ EndpointInv /\ PairingInv /\ SessionInv /\ HandshakeInv

-----------------------------------------------------------------------------
LEMMA PartiesDiffer ==
    /\ \A c, d :
         /\ Allocator(c) = Allocator(d) => c = d
         /\ Endpoint(c) = Endpoint(d) => c = d
         /\ Pairer(c) = Pairer(d) => c = d
         /\ Session(c) = Session(d) => c = d
         /\ Handshake(c) = Handshake(d) => c = d
         /\ Allocator(c) # Endpoint(d) /\ Allocator(c) # Pairer(d) /\ Allocator(c) # Session(d)
         /\ Allocator(c) # Handshake(d) /\ Endpoint(c) # Pairer(d) /\ Endpoint(c) # Session(d)
         /\ Endpoint(c) # Handshake(d) /\ Pairer(c) # Session(d) /\ Pairer(c) # Handshake(d)
         /\ Session(c) # Handshake(d)
    /\ \A c : /\ Stranger # Allocator(c) /\ Stranger # Endpoint(c) /\ Stranger # Pairer(c)
              /\ Stranger # Session(c) /\ Stranger # Handshake(c)
BY DEF Stranger, Allocator, Endpoint, Pairer, Session, Handshake

LEMMA TakeHolds ==
    ASSUME NEW h, NEW ps, NEW who
    PROVE  /\ DOMAIN Take(h, ps, who) = Ports
           /\ \A p \in Ports : \A w : w \in Take(h, ps, who)[p] <=> w \in h[p] \/ (p \in ps /\ w = who)
BY DEF Take

LEMMA DropHolds ==
    ASSUME NEW h, NEW who
    PROVE  /\ DOMAIN Drop(h, who) = Ports
           /\ \A p \in Ports : \A w : w \in Drop(h, who)[p] <=> w \in h[p] /\ w # who
BY DEF Drop

LEMMA PortsFacts ==
    /\ MinPort \in Nat /\ MaxPort \in Nat /\ MinPort # 0
    /\ \A p \in MinPort .. MaxPort : p \in Ports /\ p + 1 \in Ports /\ p # 0 /\ p \in Nat
    /\ Ports \subseteq Nat
BY FabricAssumption DEF Ports

LEMMA PortsStart == FabricInit => PortInv
<1> SUFFICES ASSUME FabricInit PROVE PortInv OBVIOUS
<1>1. FabricType
    BY DEF FabricInit, FabricType, IdleAlloc, NoPairing, Unmade, AllocSet, PairingSet, SessionSet
<1>2. StrangerInv /\ HandshakeInv BY DEF FabricInit, StrangerInv, HandshakeInv
<1>3. AllocInv /\ EndpointInv BY DEF FabricInit, AllocInv, AllocOk, EndpointInv, EndpointOk, IdleAlloc
<1>4. PairingInv BY DEF FabricInit, PairingInv, NoPairing
<1>5. SessionInv BY DEF FabricInit, SessionInv, Unmade
<1> QED BY <1>1, <1>2, <1>3, <1>4, <1>5 DEF PortInv

(* Steps that leave the ports and what they are held for alone. *)
LEMMA PortsStay ==
    ASSUME PortInv, UNCHANGED <<holders, alloc, endpoints, pairing, sessions, dtls>>
    PROVE  PortInv'
<1>1. FabricType' BY DEF PortInv, FabricType
<1>2. StrangerInv' /\ AllocInv' BY DEF PortInv, StrangerInv, AllocInv, AllocOk
<1>3. EndpointInv' BY DEF PortInv, EndpointInv, EndpointOk
<1>4. PairingInv' BY DEF PortInv, PairingInv
<1>5. SessionInv' /\ HandshakeInv' BY DEF PortInv, SessionInv, HandshakeInv
<1> QED BY <1>1, <1>2, <1>3, <1>4, <1>5 DEF PortInv

(* What holds of one kind of parties goes on when none of them took or     *)
(* dropped a port.                                                         *)
SameAllocators ==
    UNCHANGED <<alloc, endpoints>>
    /\ \A p \in Ports : \A c : Allocator(c) \in holders'[p] <=> Allocator(c) \in holders[p]
SameEndpoints ==
    UNCHANGED endpoints
    /\ \A p \in Ports : \A c : Endpoint(c) \in holders'[p] <=> Endpoint(c) \in holders[p]
SamePairers ==
    UNCHANGED pairing
    /\ \A p \in Ports : \A c : Pairer(c) \in holders'[p] <=> Pairer(c) \in holders[p]
SameSessions ==
    UNCHANGED sessions
    /\ \A p \in Ports : \A c : Session(c) \in holders'[p] <=> Session(c) \in holders[p]
SameHandshakes ==
    UNCHANGED dtls
    /\ \A p \in Ports : \A c : Handshake(c) \in holders'[p] <=> Handshake(c) \in holders[p]

LEMMA AllocatorStays ==
    ASSUME NEW d, AllocOk(d), alloc'[d] = alloc[d], endpoints'[d] = endpoints[d],
           \A q \in Ports : Allocator(d) \in holders'[q] <=> Allocator(d) \in holders[q]
    PROVE  AllocOk(d)'
BY DEF AllocOk
LEMMA EndpointStays ==
    ASSUME NEW d, EndpointOk(d), endpoints'[d] = endpoints[d],
           \A q \in Ports : Endpoint(d) \in holders'[q] <=> Endpoint(d) \in holders[q]
    PROVE  EndpointOk(d)'
BY DEF EndpointOk

LEMMA AllocatorsStay == AllocInv /\ SameAllocators => AllocInv'
BY DEF AllocInv, AllocOk, SameAllocators
LEMMA EndpointsStay == EndpointInv /\ SameEndpoints => EndpointInv'
BY DEF EndpointInv, EndpointOk, SameEndpoints
LEMMA PairersStay == PairingInv /\ SamePairers => PairingInv'
BY DEF PairingInv, SamePairers
LEMMA SessionsStay == SessionInv /\ SameSessions => SessionInv'
BY DEF SessionInv, SameSessions
LEMMA HandshakesStay == HandshakeInv /\ SameHandshakes => HandshakeInv'
BY DEF HandshakeInv, SameHandshakes

LEMMA StrangerBindsPorts == ASSUME PortInv, NEW p \in Ports, StrangerBinds(p) PROVE PortInv'
<1>1. UNCHANGED <<alloc, endpoints, pairing, sessions, dtls>> BY DEF StrangerBinds
<1>2. \A w : w \notin holders[p] BY DEF StrangerBinds, Free
<1>3. holders' = Take(holders, {p}, Stranger) BY DEF StrangerBinds, Stranger
<1>4. DOMAIN holders' = Ports
      /\ \A q \in Ports : \A w : w \in holders'[q] <=> w \in holders[q] \/ (q = p /\ w = Stranger)
    BY <1>3, TakeHolds
<1>5. FabricType' BY <1>1, <1>4 DEF PortInv, FabricType
<1>6. StrangerInv' BY <1>2, <1>4 DEF PortInv, StrangerInv
<1>7. SameAllocators /\ SameEndpoints BY <1>1, <1>4, PartiesDiffer DEF SameAllocators, SameEndpoints
<1>8. SamePairers /\ SameSessions /\ SameHandshakes
    BY <1>1, <1>4, PartiesDiffer DEF SamePairers, SameSessions, SameHandshakes
<1> QED BY <1>5, <1>6, <1>7, <1>8, AllocatorsStay, EndpointsStay, PairersStay, SessionsStay,
           HandshakesStay DEF PortInv

(* An allocation that only moves on in its search. *)
LEMMA SearchMoves ==
    ASSUME PortInv, NEW c \in Dialogs, NEW x \in AllocSet, x.phase # "rtcp",
           alloc' = [alloc EXCEPT ![c] = x], alloc[c].phase # "rtcp",
           x.phase = "rtp" => x.port >= MinPort /\ endpoints[c] = 0,
           UNCHANGED <<holders, endpoints, pairing, sessions, dtls>>
    PROVE  PortInv'
<1> USE DEF PortInv
<1>1. FabricType' BY DEF FabricType
<1>2. \A d \in Dialogs : alloc'[d] = IF d = c THEN x ELSE alloc[d] BY DEF FabricType
<1>3. x.phase \in {"idle", "rtp"} BY DEF AllocSet
<1>4. AllocInv' BY <1>2, <1>3 DEF AllocInv, AllocOk
<1>5. StrangerInv' /\ EndpointInv' BY DEF StrangerInv, EndpointInv, EndpointOk
<1>6. PairingInv' BY DEF PairingInv
<1>7. SessionInv' /\ HandshakeInv' BY DEF SessionInv, HandshakeInv
<1> QED BY <1>1, <1>4, <1>5, <1>6, <1>7

LEMMA BeginAllocatePorts == ASSUME PortInv, NEW c \in Dialogs, BeginAllocate(c) PROVE PortInv'
<1>1. PICK y \in AllocSet : y = alloc[c] BY DEF PortInv, FabricType
<1>2. PICK f \in Nat : f = FirstEven /\ f >= MinPort BY PortsFacts DEF FirstEven
<1>3. PICK x : x = [y EXCEPT !.phase = "rtp", !.port = f, !.tries = 0, !.begun = @ + 1] OBVIOUS
<1>4. x \in AllocSet /\ x.port = f /\ x.phase = "rtp"
  <2>1. PICK b \in Nat : b = y.begun + 1 BY DEF AllocSet
  <2>2. x = [y EXCEPT !.phase = "rtp", !.port = f, !.tries = 0, !.begun = b] BY <1>3, <2>1
  <2> QED BY <2>2 DEF AllocSet
<1>5. alloc' = [alloc EXCEPT ![c] = x] BY <1>1, <1>2, <1>3 DEF BeginAllocate
<1> QED BY <1>2, <1>4, <1>5, SearchMoves DEF BeginAllocate

(* The RTP half is bound: the port was free. *)
LEMMA RtpBound ==
    ASSUME PortInv, NEW c \in Dialogs, NEW p \in MinPort .. MaxPort, Free(p),
           alloc[c].phase = "rtp", holders' = Take(holders, {p}, Allocator(c)),
           NEW x \in AllocSet, x.phase = "rtcp", x.port = p, alloc' = [alloc EXCEPT ![c] = x],
           UNCHANGED <<endpoints, pairing, sessions, dtls>>
    PROVE  PortInv'
<1>1. \A w : w \notin holders[p] BY DEF Free
<1>3. DOMAIN holders' = Ports
      /\ \A q \in Ports : \A w : w \in holders'[q] <=> w \in holders[q] \/ (q = p /\ w = Allocator(c))
    BY TakeHolds
<1>4. p \in Ports /\ p \in Nat BY PortsFacts
<1>5. FabricType' BY <1>3 DEF PortInv, FabricType
<1>6. StrangerInv' BY <1>1, <1>3 DEF PortInv, StrangerInv
<1>7. \A d \in Dialogs : alloc'[d] = IF d = c THEN x ELSE alloc[d] BY DEF PortInv, FabricType
<1>8. p >= MinPort BY PortsFacts
<1>9. AllocInv'
  <2>1. ASSUME NEW d \in Dialogs
        PROVE  AllocOk(d)'
    <3>1. CASE d = c
      <4>1. alloc'[d] = x /\ endpoints'[d] = 0 BY <1>7, <3>1 DEF PortInv, AllocInv, AllocOk
      <4>2. \A q \in Ports : Allocator(d) \in holders'[q] <=> q = p
        BY <1>3, <3>1 DEF PortInv, AllocInv, AllocOk
      <4> QED BY <1>8, <4>1, <4>2 DEF AllocOk
    <3>2. CASE d # c
      <4>1. alloc'[d] = alloc[d] /\ endpoints'[d] = endpoints[d] BY <1>7, <3>2
      <4>2. \A q \in Ports : Allocator(d) \in holders'[q] <=> Allocator(d) \in holders[q]
        BY <1>3, <3>2, PartiesDiffer, SMTT(30)
      <4>3. AllocOk(d) BY DEF PortInv, AllocInv
      <4> QED BY <4>1, <4>2, <4>3, AllocatorStays
    <3> QED BY <3>1, <3>2
  <2> QED BY <2>1 DEF AllocInv
<1>10. SameEndpoints BY <1>3, PartiesDiffer DEF SameEndpoints
<1>11. SamePairers BY <1>3, PartiesDiffer DEF SamePairers
<1>12. SameSessions BY <1>3, PartiesDiffer, SMTT(30) DEF SameSessions
<1>13. SameHandshakes BY <1>3, PartiesDiffer, SMTT(30) DEF SameHandshakes
<1> QED BY <1>5, <1>6, <1>9, <1>10, <1>11, <1>12, <1>13, EndpointsStay, PairersStay, SessionsStay,
           HandshakesStay DEF PortInv

LEMMA BindRtpPorts == ASSUME PortInv, NEW c \in Dialogs, BindRtp(c) PROVE PortInv'
<1>1. UNCHANGED <<endpoints, pairing, sessions, dtls>> /\ alloc[c].phase = "rtp" BY DEF BindRtp
<1>2. PICK y \in AllocSet : y = alloc[c] BY DEF PortInv, FabricType
<1>3. y.port >= MinPort /\ endpoints[c] = 0 BY <1>1, <1>2 DEF PortInv, AllocInv, AllocOk
<1>4. y.port \in Nat /\ y.tries \in Nat BY DEF AllocSet
<1>5. CASE /\ y.port < MaxPort /\ Free(y.port)
           /\ holders' = Take(holders, {y.port}, <<"alloc", c>>)
           /\ alloc' = [alloc EXCEPT ![c].phase = "rtcp"]
  <2>1. PICK p : p = y.port OBVIOUS
  <2>2. p \in MinPort .. MaxPort BY <1>3, <1>4, <1>5, <2>1, PortsFacts
  <2>3. PICK x : x = [y EXCEPT !.phase = "rtcp"] OBVIOUS
  <2>4. x \in AllocSet /\ x.phase = "rtcp" /\ x.port = p BY <2>1, <2>3 DEF AllocSet
  <2>5. alloc' = [alloc EXCEPT ![c] = x] BY <1>2, <1>5, <2>3
  <2>6. holders' = Take(holders, {p}, Allocator(c)) BY <1>5, <2>1 DEF Allocator
  <2> QED BY <1>1, <1>5, <2>1, <2>2, <2>4, <2>5, <2>6, RtpBound
<1>6. CASE alloc' = [alloc EXCEPT ![c].port = @ + 2] /\ UNCHANGED holders
  <2>1. PICK x : x = [y EXCEPT !.port = @ + 2] OBVIOUS
  <2>2. x \in AllocSet /\ x.port = y.port + 2 /\ x.phase = y.phase BY <1>4, <2>1 DEF AllocSet
  <2>3. alloc' = [alloc EXCEPT ![c] = x] BY <1>2, <1>6, <2>1
  <2>4. x.port >= MinPort BY <1>3, <1>4, <2>2, PortsFacts
  <2> QED BY <1>1, <1>2, <1>3, <1>6, <2>2, <2>3, <2>4, SearchMoves
<1>7. ASSUME NEW p \in MinPort .. MaxPort, Free(p),
             holders' = Take(holders, {p}, <<"alloc", c>>),
             alloc' = [alloc EXCEPT ![c].phase = "rtcp", ![c].port = p]
      PROVE  PortInv'
  <2>1. PICK x : x = [y EXCEPT !.phase = "rtcp", !.port = p] OBVIOUS
  <2>2. x \in AllocSet /\ x.phase = "rtcp" /\ x.port = p BY <2>1, PortsFacts DEF AllocSet
  <2>3. alloc' = [alloc EXCEPT ![c] = x] BY <1>2, <1>7, <2>1
  <2>4. holders' = Take(holders, {p}, Allocator(c)) BY <1>7 DEF Allocator
  <2> QED BY <1>1, <1>7, <2>2, <2>3, <2>4, RtpBound
<1>8. CASE alloc' = [alloc EXCEPT ![c].tries = @ + 1] /\ UNCHANGED holders
  <2>1. PICK x : x = [y EXCEPT !.tries = @ + 1] OBVIOUS
  <2>2. x \in AllocSet /\ x.port = y.port /\ x.phase = y.phase BY <1>4, <2>1 DEF AllocSet
  <2>3. alloc' = [alloc EXCEPT ![c] = x] BY <1>2, <1>8, <2>1
  <2> QED BY <1>1, <1>2, <1>3, <1>8, <2>2, <2>3, SearchMoves
<1>9. CASE alloc' = [alloc EXCEPT ![c].phase = "idle"] /\ UNCHANGED holders
  <2>1. PICK x : x = [y EXCEPT !.phase = "idle"] OBVIOUS
  <2>2. x \in AllocSet /\ x.phase = "idle" BY <2>1 DEF AllocSet
  <2>3. alloc' = [alloc EXCEPT ![c] = x] BY <1>2, <1>9, <2>1
  <2> QED BY <1>1, <1>9, <2>2, <2>3, SearchMoves
<1>10. \/ /\ alloc[c].port < MaxPort
          /\ IF Free(alloc[c].port)
             THEN /\ holders' = Take(holders, {alloc[c].port}, <<"alloc", c>>)
                  /\ alloc' = [alloc EXCEPT ![c].phase = "rtcp"]
             ELSE alloc' = [alloc EXCEPT ![c].port = @ + 2] /\ UNCHANGED holders
       \/ \E p \in {q \in MinPort .. MaxPort : Free(q)} :
               IF p % 2 = 0
               THEN /\ holders' = Take(holders, {p}, <<"alloc", c>>)
                    /\ alloc' = [alloc EXCEPT ![c].phase = "rtcp", ![c].port = p]
               ELSE alloc' = [alloc EXCEPT ![c].tries = @ + 1] /\ UNCHANGED holders
       \/ alloc' = [alloc EXCEPT ![c].phase = "idle"] /\ UNCHANGED holders
    BY DEF BindRtp
<1> QED BY <1>2, <1>5, <1>6, <1>7, <1>8, <1>9, <1>10


(* The RTP socket is dropped again: the search goes on. *)
LEMMA RtpDropped ==
    ASSUME PortInv, NEW c \in Dialogs, alloc[c].phase = "rtcp",
           holders' = Drop(holders, Allocator(c)), NEW x \in AllocSet, x.phase = "rtp",
           x.port >= MinPort, alloc' = [alloc EXCEPT ![c] = x],
           UNCHANGED <<endpoints, pairing, sessions, dtls>>
    PROVE  PortInv'
<1>1. DOMAIN holders' = Ports
      /\ \A q \in Ports : \A w : w \in holders'[q] <=> w \in holders[q] /\ w # Allocator(c)
    BY DropHolds
<1>2. FabricType' BY <1>1 DEF PortInv, FabricType
<1>3. StrangerInv' BY <1>1 DEF PortInv, StrangerInv
<1>4. \A d \in Dialogs : alloc'[d] = IF d = c THEN x ELSE alloc[d] BY DEF PortInv, FabricType
<1>5. AllocInv'
  <2>1. ASSUME NEW d \in Dialogs
        PROVE  AllocOk(d)'
    <3>1. CASE d = c
      <4>1. alloc'[d] = x /\ endpoints'[d] = 0 BY <1>4, <3>1 DEF PortInv, AllocInv, AllocOk
      <4>2. \A q \in Ports : Allocator(d) \notin holders'[q] BY <1>1, <3>1
      <4> QED BY <4>1, <4>2 DEF AllocOk
    <3>2. CASE d # c
      <4>1. alloc'[d] = alloc[d] /\ endpoints'[d] = endpoints[d] BY <1>4, <3>2
      <4>2. \A q \in Ports : Allocator(d) \in holders'[q] <=> Allocator(d) \in holders[q]
        BY <1>1, <3>2, PartiesDiffer
      <4>3. AllocOk(d) BY DEF PortInv, AllocInv
      <4> QED BY <4>1, <4>2, <4>3, AllocatorStays
    <3> QED BY <3>1, <3>2
  <2> QED BY <2>1 DEF AllocInv
<1>6. SameEndpoints BY <1>1, PartiesDiffer DEF SameEndpoints
<1>7. SamePairers /\ SameSessions /\ SameHandshakes
    BY <1>1, PartiesDiffer DEF SamePairers, SameSessions, SameHandshakes
<1> QED BY <1>2, <1>3, <1>5, <1>6, <1>7, EndpointsStay, PairersStay, SessionsStay,
           HandshakesStay DEF PortInv

(* The bound pair becomes an endpoint: its first port was the allocation's *)
(* and its second was free.                                                *)
LEMMA Registered ==
    ASSUME PortInv, NEW c \in Dialogs, alloc[c].phase = "rtcp", NEW p, p = alloc[c].port,
           Free(p + 1), holders' = Take(Drop(holders, Allocator(c)), {p, p + 1}, Endpoint(c)),
           endpoints' = [endpoints EXCEPT ![c] = p], NEW x \in AllocSet, x.phase = "idle",
           alloc' = [alloc EXCEPT ![c] = x], UNCHANGED <<pairing, sessions, dtls>>
    PROVE  PortInv'
<1> DEFINE ps == {p, p + 1}
<1>1. PICK h : h = Drop(holders, Allocator(c)) OBVIOUS
<1>2. \A q \in Ports : \A w : w \in h[q] <=> w \in holders[q] /\ w # Allocator(c) BY <1>1, DropHolds
<1>3. holders' = Take(h, ps, Endpoint(c)) /\ \A q : q \in ps <=> q = p \/ q = p + 1 BY <1>1
<1> HIDE DEF ps
<1>4. \A q \in Ports : \A w : w \in holders'[q] <=>
          (w \in holders[q] /\ w # Allocator(c)) \/ ((q = p \/ q = p + 1) /\ w = Endpoint(c))
  <2>1. \A q \in Ports : \A w : w \in holders'[q] <=> w \in h[q] \/ (q \in ps /\ w = Endpoint(c))
    BY <1>3, TakeHolds
  <2> QED BY <1>2, <1>3, <2>1, Zenon
<1>16. \A q \in Ports : \A w : w # Allocator(c) /\ w # Endpoint(c) =>
          (w \in holders'[q] <=> w \in holders[q])
    BY <1>4, Zenon
<1>5. p \in MinPort .. MaxPort /\ endpoints[c] = 0 BY DEF PortInv, AllocInv, AllocOk
<1>6. p \in Ports /\ p + 1 \in Ports /\ p # 0 BY <1>5, PortsFacts
<1>7. Allocator(c) \in holders[p] BY <1>6 DEF PortInv, AllocInv, AllocOk
<1>8. Stranger \notin holders[p] BY <1>6, <1>7, PartiesDiffer DEF PortInv, StrangerInv
<1>9. \A w : w \notin holders[p + 1] BY DEF Free
<1>10. FabricType' BY <1>3, TakeHolds DEF PortInv, FabricType
<1>11. StrangerInv' BY <1>4, <1>8, <1>9, PartiesDiffer DEF PortInv, StrangerInv
<1>12. \A d \in Dialogs : alloc'[d] = (IF d = c THEN x ELSE alloc[d])
                          /\ endpoints'[d] = (IF d = c THEN p ELSE endpoints[d])
    BY DEF PortInv, FabricType
<1>13. AllocInv'
  <2>1. ASSUME NEW d \in Dialogs
        PROVE  AllocOk(d)'
    <3>1. CASE d = c
      <4>1. alloc'[d] = x BY <1>12, <3>1
      <4>2. \A q \in Ports : Allocator(d) \notin holders'[q] BY <1>4, <3>1, PartiesDiffer
      <4> QED BY <4>1, <4>2 DEF AllocOk
    <3>2. CASE d # c
      <4>1. alloc'[d] = alloc[d] /\ endpoints'[d] = endpoints[d] BY <1>12, <3>2
      <4>2. \A q \in Ports : Allocator(d) \in holders'[q] <=> Allocator(d) \in holders[q]
        BY <1>16, <3>2, PartiesDiffer
      <4>3. AllocOk(d) BY DEF PortInv, AllocInv
      <4> QED BY <4>1, <4>2, <4>3, AllocatorStays
    <3> QED BY <3>1, <3>2
  <2> QED BY <2>1 DEF AllocInv
<1>14. EndpointInv'
  <2>1. ASSUME NEW d \in Dialogs
        PROVE  EndpointOk(d)'
    <3>1. CASE d = c
      <4>1. endpoints'[d] = p BY <1>12, <3>1
      <4>2. \A q \in Ports : Endpoint(d) \notin holders[q] BY <1>5, <3>1 DEF PortInv, EndpointInv, EndpointOk
      <4>3. \A q \in Ports : Endpoint(d) \in holders'[q] <=> q = p \/ q = p + 1
        BY <1>4, <3>1, <4>2
      <4> QED BY <1>5, <1>6, <4>1, <4>3 DEF EndpointOk
    <3>2. CASE d # c
      <4>1. endpoints'[d] = endpoints[d] BY <1>12, <3>2
      <4>2. \A q \in Ports : Endpoint(d) \in holders'[q] <=> Endpoint(d) \in holders[q]
        BY <1>16, <3>2, PartiesDiffer
      <4>3. EndpointOk(d) BY DEF PortInv, EndpointInv
      <4> QED BY <4>1, <4>2, <4>3, EndpointStays
    <3> QED BY <3>1, <3>2
  <2> QED BY <2>1 DEF EndpointInv
<1>15. SamePairers /\ SameSessions /\ SameHandshakes
    BY <1>16, PartiesDiffer DEF SamePairers, SameSessions, SameHandshakes
<1> QED BY <1>10, <1>11, <1>13, <1>14, <1>15, PairersStay, SessionsStay, HandshakesStay DEF PortInv

LEMMA BindRtcpPorts == ASSUME PortInv, NEW c \in Dialogs, BindRtcp(c) PROVE PortInv'
<1>1. UNCHANGED <<pairing, sessions, dtls>> /\ alloc[c].phase = "rtcp" BY DEF BindRtcp
<1>2. PICK y \in AllocSet : y = alloc[c] BY DEF PortInv, FabricType
<1>3. PICK p : p = y.port OBVIOUS
<1>4. p \in Nat /\ p >= MinPort /\ y.tries \in Nat BY <1>1, <1>2, <1>3 DEF PortInv, AllocInv, AllocOk, AllocSet
<1>5. CASE Free(p + 1)
  <2>1. Register(c, p) BY <1>2, <1>3, <1>5 DEF BindRtcp
  <2>2. PICK x : x = [y EXCEPT !.phase = "idle"] OBVIOUS
  <2>3. x \in AllocSet /\ x.phase = "idle" BY <2>2 DEF AllocSet
  <2>4. /\ holders' = Take(Drop(holders, Allocator(c)), {p, p + 1}, Endpoint(c))
        /\ endpoints' = [endpoints EXCEPT ![c] = p]
    BY <2>1 DEF Register, Allocator, Endpoint, Pair
  <2>5. alloc' = [alloc EXCEPT ![c] = x] BY <1>2, <2>1, <2>2 DEF Register
  <2> QED BY <1>1, <1>2, <1>3, <1>5, <2>3, <2>4, <2>5, Registered
<1>6. CASE ~Free(p + 1)
  <2>1. PICK x : x = [y EXCEPT !.phase = "rtp", !.port = p + 2, !.tries = @ + 1] OBVIOUS
  <2>2. x \in AllocSet /\ x.phase = "rtp" /\ x.port = p + 2
    <3>1. PICK b \in Nat, t \in Nat : b = p + 2 /\ t = y.tries + 1 BY <1>4
    <3>2. x = [y EXCEPT !.phase = "rtp", !.port = b, !.tries = t] BY <2>1, <3>1
    <3> QED BY <3>1, <3>2 DEF AllocSet
  <2>3. alloc' = [alloc EXCEPT ![c] = x] BY <1>2, <1>3, <1>6, <2>1 DEF BindRtcp
  <2>4. holders' = Drop(holders, Allocator(c)) /\ UNCHANGED endpoints
    BY <1>2, <1>3, <1>6 DEF BindRtcp, Allocator
  <2>5. x.port >= MinPort BY <1>4, <2>2, PortsFacts
  <2> QED BY <1>1, <2>2, <2>3, <2>4, <2>5, RtpDropped
<1> QED BY <1>5, <1>6


LEMMA ReleaseEndpointPorts == ASSUME PortInv, NEW c \in Dialogs, ReleaseEndpoint(c) PROVE PortInv'
<1>1. endpoints' = [endpoints EXCEPT ![c] = 0] /\ endpoints[c] # 0
      /\ holders' = Drop(holders, Endpoint(c)) /\ UNCHANGED <<alloc, pairing, sessions, dtls>>
    BY DEF ReleaseEndpoint, Endpoint
<1>2. DOMAIN holders' = Ports
      /\ \A q \in Ports : \A w : w \in holders'[q] <=> w \in holders[q] /\ w # Endpoint(c)
    BY <1>1, DropHolds
<1>3. FabricType' BY <1>1, <1>2 DEF PortInv, FabricType
<1>4. StrangerInv' BY <1>2 DEF PortInv, StrangerInv
<1>5. \A d \in Dialogs : endpoints'[d] = IF d = c THEN 0 ELSE endpoints[d]
    BY <1>1 DEF PortInv, FabricType
<1>6. ASSUME NEW d \in Dialogs PROVE AllocOk(d)'
  <2>1. AllocOk(d) BY DEF PortInv, AllocInv
  <2>2. \A q \in Ports : Allocator(d) \in holders'[q] <=> Allocator(d) \in holders[q]
    BY <1>2, PartiesDiffer
  <2>3. endpoints'[d] = endpoints[d] \/ endpoints'[d] = 0 BY <1>5
  <2>4. alloc'[d] = alloc[d] BY <1>1
  <2> QED BY <2>1, <2>2, <2>3, <2>4 DEF AllocOk
<1>7. ASSUME NEW d \in Dialogs PROVE EndpointOk(d)'
  <2>1. CASE d = c
    <3>1. \A q \in Ports : Endpoint(d) \notin holders'[q] BY <1>2, <2>1
    <3> QED BY <1>5, <2>1, <3>1 DEF EndpointOk
  <2>2. CASE d # c
    <3>1. EndpointOk(d) BY DEF PortInv, EndpointInv
    <3>2. \A q \in Ports : Endpoint(d) \in holders'[q] <=> Endpoint(d) \in holders[q]
      BY <1>2, <2>2, PartiesDiffer
    <3> QED BY <1>5, <2>2, <3>1, <3>2, EndpointStays
  <2> QED BY <2>1, <2>2
<1>8. SamePairers /\ SameSessions /\ SameHandshakes
    BY <1>1, <1>2, PartiesDiffer DEF SamePairers, SameSessions, SameHandshakes
<1> QED BY <1>3, <1>4, <1>6, <1>7, <1>8, PairersStay, SessionsStay, HandshakesStay
        DEF PortInv, AllocInv, EndpointInv

(* A pairing moves on, and with it only its own sockets. *)
PairingOk(c) ==
    IF pairing[c].phase \in {"peer leg", "spawn"} THEN \E p \in Ports : Pairer(c) \in holders[p]
    ELSE \A p \in Ports : Pairer(c) \notin holders[p]

LEMMA PairingMoves ==
    ASSUME PortInv, NEW c \in Dialogs, NEW x \in PairingSet, pairing' = [pairing EXCEPT ![c] = x],
           PairingOk(c)', StrangerInv', DOMAIN holders' = Ports,
           \A q \in Ports : \A w : w # Pairer(c) => (w \in holders'[q] <=> w \in holders[q]),
           UNCHANGED <<alloc, endpoints, sessions, dtls>>
    PROVE  PortInv'
<1>1. FabricType' BY DEF PortInv, FabricType
<1>2. ASSUME NEW d \in Dialogs PROVE PairingOk(d)'
  <2>1. CASE d # c
    <3>1. PairingOk(d) BY DEF PortInv, PairingInv, PairingOk
    <3>2. \A q \in Ports : Pairer(d) \in holders'[q] <=> Pairer(d) \in holders[q]
      BY <2>1, PartiesDiffer
    <3>3. pairing'[d] = pairing[d] BY <2>1 DEF PortInv, FabricType
    <3> QED BY <3>1, <3>2, <3>3 DEF PairingOk
  <2> QED BY <2>1
<1>3. PairingInv' BY <1>2 DEF PairingInv, PairingOk
<1>4. SameAllocators /\ SameEndpoints BY PartiesDiffer DEF SameAllocators, SameEndpoints
<1>5. SameSessions /\ SameHandshakes BY PartiesDiffer DEF SameSessions, SameHandshakes
<1> QED BY <1>1, <1>3, <1>4, <1>5, AllocatorsStay, EndpointsStay, SessionsStay, HandshakesStay
        DEF PortInv

LEMMA BeginPairPorts ==
    ASSUME PortInv, NEW c \in Dialogs, NEW d \in Dialogs, NEW kind \in Kinds, BeginPair(c, d, kind)
    PROVE  PortInv'
<1>1. PICK x : x = [phase |-> "own leg", with |-> d, kind |-> kind] OBVIOUS
<1>2. x \in PairingSet /\ x.phase = "own leg" BY <1>1 DEF PairingSet, Pairings
<1>3. pairing' = [pairing EXCEPT ![c] = x] /\ pairing[c].phase = "none"
      /\ UNCHANGED <<holders, alloc, endpoints, sessions, dtls>>
    BY <1>1 DEF BeginPair
<1>4. pairing'[c] = x BY <1>3 DEF PortInv, FabricType
<1>5. PairingOk(c)' BY <1>2, <1>3, <1>4 DEF PortInv, PairingInv, PairingOk
<1>6. StrangerInv' /\ DOMAIN holders' = Ports BY <1>3 DEF PortInv, StrangerInv, FabricType
<1> QED BY <1>2, <1>3, <1>5, <1>6, PairingMoves

LEMMA AbandonPorts ==
    ASSUME PortInv, NEW c \in Dialogs, AbandonPairing(c), UNCHANGED <<alloc, endpoints, sessions, dtls>>
    PROVE  PortInv'
<1>1. holders' = Drop(holders, Pairer(c)) /\ pairing' = [pairing EXCEPT ![c] = NoPairing]
    BY DEF AbandonPairing, Pairer
<1>2. DOMAIN holders' = Ports
      /\ \A q \in Ports : \A w : w \in holders'[q] <=> w \in holders[q] /\ w # Pairer(c)
    BY <1>1, DropHolds
<1>3. NoPairing \in PairingSet /\ NoPairing.phase = "none" BY DEF NoPairing, PairingSet
<1>4. StrangerInv' BY <1>2 DEF PortInv, StrangerInv
<1>5. pairing'[c] = NoPairing BY <1>1 DEF PortInv, FabricType
<1>6. PairingOk(c)' BY <1>2, <1>3, <1>5 DEF PairingOk
<1> QED BY <1>1, <1>2, <1>3, <1>4, <1>6, PairingMoves

(* The sockets of an endpoint are shared: no stranger has them. *)
LEMMA EndpointPort ==
    ASSUME PortInv, NEW d \in Dialogs, endpoints[d] # 0
    PROVE  /\ endpoints[d] \in Ports /\ endpoints[d] + 1 \in Ports
           /\ Stranger \notin holders[endpoints[d]] /\ Stranger \notin holders[endpoints[d] + 1]
<1>1. EndpointOk(d) BY DEF PortInv, EndpointInv
<1>2. endpoints[d] \in MinPort .. MaxPort BY <1>1 DEF EndpointOk
<1>3. endpoints[d] \in Ports /\ endpoints[d] + 1 \in Ports BY <1>2, PortsFacts
<1>4. Endpoint(d) \in holders[endpoints[d]] /\ Endpoint(d) \in holders[endpoints[d] + 1]
    BY <1>1, <1>3 DEF EndpointOk
<1> QED BY <1>3, <1>4, PartiesDiffer DEF PortInv, StrangerInv

LEMMA TakesShared ==
    ASSUME PortInv, NEW d \in Dialogs, endpoints[d] # 0, NEW ps \in SUBSET Pair(endpoints[d]), NEW who,
           who # Stranger, holders' = Take(holders, ps, who)
    PROVE  /\ StrangerInv' /\ DOMAIN holders' = Ports
           /\ \A q \in Ports : \A w : w # who => (w \in holders'[q] <=> w \in holders[q])
           /\ \A q \in Ports : q \in ps => who \in holders'[q]
           /\ \A q \in Ports : who \in holders[q] => who \in holders'[q]
<1>1. PICK e : e = endpoints[d] OBVIOUS
<1>2. Stranger \notin holders[e] /\ Stranger \notin holders[e + 1] BY <1>1, EndpointPort
<1>3. \A q : q \in ps => q = e \/ q = e + 1 BY <1>1 DEF Pair
<1>4. DOMAIN holders' = Ports
      /\ \A q \in Ports : \A w : w \in holders'[q] <=> w \in holders[q] \/ (q \in ps /\ w = who)
    BY TakeHolds
<1>5. \A q \in ps : Stranger \notin holders[q] BY <1>2, <1>3
<1>6. StrangerInv' BY <1>4, <1>5 DEF PortInv, StrangerInv
<1> QED BY <1>4, <1>6

LEMMA PairingUnderWay ==
    ASSUME FabricType, NEW c \in Dialogs, pairing[c].phase # "none" PROVE pairing[c] \in Pairings
<1>1. pairing[c] \in PairingSet BY DEF FabricType
<1>2. NoPairing.phase = "none" BY DEF NoPairing
<1> QED BY <1>1, <1>2 DEF PairingSet

LEMMA LookUpLegPorts == ASSUME PortInv, NEW c \in Dialogs, LookUpLeg(c) PROVE PortInv'
<1>1. UNCHANGED <<alloc, endpoints, sessions, dtls>> /\ pairing[c].phase \in {"own leg", "peer leg"}
    BY DEF LookUpLeg
<1>2. CASE AbandonPairing(c) BY <1>1, <1>2, AbandonPorts
<1>3. CASE ~AbandonPairing(c)
  <2>1. PICK owner : owner = IF pairing[c].phase = "own leg" THEN c ELSE pairing[c].with OBVIOUS
  <2>2. PICK next \in {"peer leg", "spawn"} :
            next = IF pairing[c].phase = "own leg" THEN "peer leg" ELSE "spawn"
    OBVIOUS
  <2>3. endpoints[owner] # 0 /\ holders' = Take(holders, Pair(endpoints[owner]), Pairer(c))
        /\ pairing' = [pairing EXCEPT ![c].phase = next]
    BY <1>3, <2>1, <2>2 DEF LookUpLeg, Pairer
  <2>9. PICK y \in Pairings : y = pairing[c] BY <1>1, PairingUnderWay DEF PortInv
  <2>4. PICK d \in Dialogs : d = owner BY <2>1, <2>9 DEF Pairings
  <2>5. PICK ps \in SUBSET Pair(endpoints[d]) : ps = Pair(endpoints[d]) OBVIOUS
  <2>16. Pairer(c) # Stranger BY PartiesDiffer
  <2>6. PICK who : who = Pairer(c) /\ who # Stranger BY <2>16
  <2>7. /\ StrangerInv' /\ DOMAIN holders' = Ports
        /\ \A q \in Ports : \A w : w # who => (w \in holders'[q] <=> w \in holders[q])
        /\ \A q \in Ports : q \in ps => who \in holders'[q]
    BY <2>3, <2>4, <2>5, <2>6, TakesShared
  <2>8. endpoints[d] \in Ports /\ endpoints[d] \in ps BY <2>3, <2>4, <2>5, EndpointPort DEF Pair
  <2>10. PICK x : x = [y EXCEPT !.phase = next] OBVIOUS
  <2>11. x \in PairingSet /\ x.phase = next BY <2>10 DEF PairingSet, Pairings
  <2>12. pairing' = [pairing EXCEPT ![c] = x] BY <2>3, <2>9, <2>10
  <2>13. pairing'[c] = x BY <2>12 DEF PortInv, FabricType
  <2>14. PairingOk(c)' BY <2>6, <2>7, <2>8, <2>11, <2>13 DEF PairingOk
  <2> QED BY <1>1, <2>6, <2>7, <2>11, <2>12, <2>14, PairingMoves
<1> QED BY <1>2, <1>3

(* NextId: the least of a set of numbers is one of them. *)
LEMMA LeastOf ==
    ASSUME NEW S \in SUBSET Nat, S # {}
    PROVE  (CHOOSE s \in S : \A t \in S : s <= t) \in S
<1>1. PICK R : R = OpToRel(<, Nat) OBVIOUS
<1>2. IsWellFoundedOn(R, Nat) BY <1>1, NatLessThanWellFounded
<1>3. PICK x \in S : \A y \in S : ~(<<y, x>> \in R) BY <1>2, WFMin
<1>4. \A y \in S : y < x => <<y, x>> \in R BY <1>1 DEF OpToRel
<1>5. \A y \in S : ~(y < x) BY <1>3, <1>4
<1>6. \A y \in S : y \in Int /\ x \in Int OBVIOUS
<1>7. \A y \in S : x <= y BY <1>5, <1>6
<1> QED BY <1>7

LEMMA NextIsFresh == Fresh # {} => NextId \in Ids /\ sessions[NextId].state = "unmade"
<1>1. Fresh \subseteq Nat BY FabricAssumption DEF Fresh, Ids
<1> QED BY <1>1, LeastOf DEF NextId, Fresh

SessionOk(s) ==
    IF sessions[s].state \in {"running", "stopping"} THEN \E p \in Ports : Session(s) \in holders[p]
    ELSE \A p \in Ports : Session(s) \notin holders[p]

LEMMA SessionStays ==
    ASSUME NEW t, SessionOk(t), sessions'[t] = sessions[t],
           \A q \in Ports : Session(t) \in holders'[q] <=> Session(t) \in holders[q]
    PROVE  SessionOk(t)'
BY DEF SessionOk

(* A session moves on, and with it only its own sockets. *)
LEMMA SessionMoves ==
    ASSUME PortInv, NEW s \in Ids, NEW x \in SessionSet, sessions' = [sessions EXCEPT ![s] = x],
           SessionOk(s)', StrangerInv', DOMAIN holders' = Ports,
           \A q \in Ports : \A w : w # Session(s) => (w \in holders'[q] <=> w \in holders[q]),
           UNCHANGED <<alloc, endpoints, pairing, dtls>>
    PROVE  PortInv'
<1>1. FabricType' BY DEF PortInv, FabricType
<1>2. ASSUME NEW t \in Ids PROVE SessionOk(t)'
  <2>1. CASE t # s
    <3>1. SessionOk(t) BY DEF PortInv, SessionInv, SessionOk
    <3>2. \A q \in Ports : Session(t) \in holders'[q] <=> Session(t) \in holders[q]
      BY <2>1, PartiesDiffer
    <3>3. sessions'[t] = sessions[t] BY <2>1 DEF PortInv, FabricType
    <3> QED BY <3>1, <3>2, <3>3, SessionStays
  <2> QED BY <2>1
<1>3. SessionInv' BY <1>2 DEF SessionInv, SessionOk
<1>4. SameAllocators /\ SameEndpoints BY PartiesDiffer DEF SameAllocators, SameEndpoints
<1>5. SamePairers /\ SameHandshakes BY PartiesDiffer DEF SamePairers, SameHandshakes
<1> QED BY <1>1, <1>3, <1>4, <1>5, AllocatorsStay, EndpointsStay, PairersStay, HandshakesStay
        DEF PortInv

(* The session takes over what its pairing holds. *)
LEMMA SessionSpawned ==
    ASSUME PortInv, NEW c \in Dialogs, pairing[c].phase = "spawn", NEW s \in Ids,
           sessions[s].state = "unmade", NEW x \in SessionSet, x.state = "running",
           sessions' = [sessions EXCEPT ![s] = x], pairing' = [pairing EXCEPT ![c] = NoPairing],
           holders' = Take(Drop(holders, Pairer(c)), {p \in Ports : Pairer(c) \in holders[p]}, Session(s)),
           UNCHANGED <<alloc, endpoints, dtls>>
    PROVE  PortInv'
<1> DEFINE mine == {p \in Ports : Pairer(c) \in holders[p]}
<1>1. PICK h : h = Drop(holders, Pairer(c)) OBVIOUS
<1>2. \A q \in Ports : \A w : w \in h[q] <=> w \in holders[q] /\ w # Pairer(c) BY <1>1, DropHolds
<1>3. holders' = Take(h, mine, Session(s)) /\ \A q \in Ports : q \in mine <=> Pairer(c) \in holders[q]
    BY <1>1
<1> HIDE DEF mine
<1>4. DOMAIN holders' = Ports BY <1>3, TakeHolds
<1>5. \A q \in Ports : \A w : w \in holders'[q] <=>
          (w \in holders[q] /\ w # Pairer(c)) \/ (Pairer(c) \in holders[q] /\ w = Session(s))
  <2>1. \A q \in Ports : \A w : w \in holders'[q] <=> w \in h[q] \/ (q \in mine /\ w = Session(s))
    BY <1>3, TakeHolds
  <2> QED BY <1>2, <1>3, <2>1, Zenon
<1>6. NoPairing \in PairingSet /\ NoPairing.phase = "none" BY DEF NoPairing, PairingSet
<1>7. FabricType' BY <1>4, <1>6 DEF PortInv, FabricType
<1>8. StrangerInv' BY <1>5, PartiesDiffer DEF PortInv, StrangerInv
<1>9. PICK p \in Ports : Pairer(c) \in holders[p] BY DEF PortInv, PairingInv
<1>10. ASSUME NEW t \in Ids PROVE SessionOk(t)'
  <2>1. CASE t = s
    <3>1. sessions'[t] = x BY <2>1 DEF PortInv, FabricType
    <3>2. Session(t) \in holders'[p] BY <1>5, <1>9, <2>1
    <3> QED BY <3>1, <3>2 DEF SessionOk
  <2>2. CASE t # s
    <3>1. SessionOk(t) BY DEF PortInv, SessionInv, SessionOk
    <3>2. \A q \in Ports : Session(t) \in holders'[q] <=> Session(t) \in holders[q]
      BY <1>5, <2>2, PartiesDiffer
    <3>3. sessions'[t] = sessions[t] BY <2>2 DEF PortInv, FabricType
    <3> QED BY <3>1, <3>2, <3>3, SessionStays
  <2> QED BY <2>1, <2>2
<1>11. SessionInv' BY <1>10 DEF SessionInv, SessionOk
<1>12. ASSUME NEW d \in Dialogs PROVE PairingOk(d)'
  <2>1. CASE d = c
    <3>1. pairing'[d] = NoPairing BY <2>1 DEF PortInv, FabricType
    <3>2. \A q \in Ports : Pairer(d) \notin holders'[q] BY <1>5, <2>1, PartiesDiffer
    <3> QED BY <1>6, <3>1, <3>2 DEF PairingOk
  <2>2. CASE d # c
    <3>1. PairingOk(d) BY DEF PortInv, PairingInv, PairingOk
    <3>2. \A q \in Ports : Pairer(d) \in holders'[q] <=> Pairer(d) \in holders[q]
      BY <1>5, <2>2, PartiesDiffer
    <3>3. pairing'[d] = pairing[d] BY <2>2 DEF PortInv, FabricType
    <3> QED BY <3>1, <3>2, <3>3 DEF PairingOk
  <2> QED BY <2>1, <2>2
<1>13. PairingInv' BY <1>12 DEF PairingInv, PairingOk
<1>14. SameAllocators /\ SameEndpoints BY <1>5, PartiesDiffer DEF SameAllocators, SameEndpoints
<1>15. SameHandshakes BY <1>5, PartiesDiffer DEF SameHandshakes
<1> QED BY <1>7, <1>8, <1>11, <1>13, <1>14, <1>15, AllocatorsStay, EndpointsStay, HandshakesStay
        DEF PortInv

LEMMA SpawnSessionPorts == ASSUME PortInv, NEW c \in Dialogs, SpawnSession(c) PROVE PortInv'
<1>1. PICK s \in Ids : s = NextId /\ sessions[s].state = "unmade" BY NextIsFresh DEF SpawnSession
<1>2. pairing[c].phase = "spawn" BY DEF SpawnSession
<1>3. PICK y \in Pairings : y = pairing[c] BY <1>2, PairingUnderWay DEF PortInv
<1>4. PICK x : x = Running(y.kind, c, y.with) OBVIOUS
<1>5. x \in SessionSet /\ x.state = "running" BY <1>4 DEF Running, SessionSet, Pairings
<1>6. sessions' = [sessions EXCEPT ![s] = x] BY <1>1, <1>3, <1>4 DEF SpawnSession
<1>7. holders' = Take(Drop(holders, Pairer(c)), {p \in Ports : Pairer(c) \in holders[p]}, Session(s))
    BY <1>1 DEF SpawnSession, Pairer, Session
<1>8. pairing' = [pairing EXCEPT ![c] = NoPairing] /\ UNCHANGED <<alloc, endpoints, dtls>>
    BY DEF SpawnSession
<1> QED BY <1>1, <1>2, <1>5, <1>6, <1>7, <1>8, SessionSpawned

(* What BeginStop makes of a session. *)
Stopped(y, c) ==
    [y EXCEPT !.state = IF @ = "running" THEN "stopping" ELSE @,
              !.handles = IF y.kind = "bridge" THEN {} ELSE @ \ {c}]

LEMMA StoppedFields ==
    ASSUME NEW y \in SessionSet, NEW c
    PROVE  /\ Stopped(y, c) \in SessionSet
           /\ Stopped(y, c).kind = y.kind /\ Stopped(y, c).counted = y.counted
           /\ Stopped(y, c).state = IF y.state = "running" THEN "stopping" ELSE y.state
           /\ Stopped(y, c).handles = IF y.kind = "bridge" THEN {} ELSE y.handles \ {c}
<1>1. PICK st \in {"unmade", "running", "stopping", "stopped"} :
         st = IF y.state = "running" THEN "stopping" ELSE y.state
    BY DEF SessionSet
<1>2. PICK hs \in SUBSET Dialogs : hs = IF y.kind = "bridge" THEN {} ELSE y.handles \ {c}
    BY DEF SessionSet
<1>3. Stopped(y, c) = [y EXCEPT !.state = st, !.handles = hs] BY <1>1, <1>2 DEF Stopped
<1> QED BY <1>1, <1>2, <1>3 DEF SessionSet

LEMMA BeginStopPorts == ASSUME PortInv, NEW c \in Dialogs, NEW s \in Ids, BeginStop(c, s) PROVE PortInv'
<1>1. PICK y \in SessionSet : y = sessions[s] BY DEF PortInv, FabricType
<1>2. PICK x : x = Stopped(y, c) OBVIOUS
<1>3. sessions' = [sessions EXCEPT ![s] = x] BY <1>1, <1>2 DEF BeginStop, Stopped
<1>4. x \in SessionSet /\ x.state = (IF y.state = "running" THEN "stopping" ELSE y.state)
    BY <1>2, StoppedFields
<1>5. UNCHANGED <<holders, alloc, endpoints, pairing, dtls>> BY DEF BeginStop
<1>6. sessions'[s] = x BY <1>3 DEF PortInv, FabricType
<1>7. SessionOk(s) BY DEF PortInv, SessionInv, SessionOk
<1>8. SessionOk(s)' BY <1>1, <1>4, <1>5, <1>6, <1>7 DEF SessionOk
<1>9. StrangerInv' /\ DOMAIN holders' = Ports BY <1>5 DEF PortInv, StrangerInv, FabricType
<1> QED BY <1>3, <1>4, <1>5, <1>8, <1>9, SessionMoves

LEMMA StopCompletesPorts == ASSUME PortInv, NEW s \in Ids, StopCompletes(s) PROVE PortInv'
<1>1. PICK y \in SessionSet : y = sessions[s] BY DEF PortInv, FabricType
<1>2. PICK x : x = [y EXCEPT !.state = "stopped", !.counted = FALSE] OBVIOUS
<1>3. sessions' = [sessions EXCEPT ![s] = x] BY <1>1, <1>2 DEF StopCompletes
<1>4. x \in SessionSet /\ x.state = "stopped" BY <1>2 DEF SessionSet
<1>5. UNCHANGED <<alloc, endpoints, pairing, dtls>> /\ holders' = Drop(holders, Session(s))
    BY DEF StopCompletes, Session
<1>6. DOMAIN holders' = Ports
      /\ \A q \in Ports : \A w : w \in holders'[q] <=> w \in holders[q] /\ w # Session(s)
    BY <1>5, DropHolds
<1>7. sessions'[s] = x BY <1>3 DEF PortInv, FabricType
<1>8. SessionOk(s)' BY <1>4, <1>6, <1>7 DEF SessionOk
<1>9. StrangerInv' BY <1>6 DEF PortInv, StrangerInv
<1> QED BY <1>3, <1>4, <1>5, <1>6, <1>8, <1>9, SessionMoves

LEMMA BeginHandshakePorts == ASSUME PortInv, NEW c \in Dialogs, BeginHandshake(c) PROVE PortInv'
<1>1. UNCHANGED <<alloc, endpoints, pairing, sessions>> /\ dtls' = [dtls EXCEPT ![c] = "handshaking"]
      /\ endpoints[c] # 0 /\ holders' = Take(holders, {endpoints[c]}, Handshake(c))
    BY DEF BeginHandshake, Handshake
<1>2. PICK ps \in SUBSET Pair(endpoints[c]) : ps = {endpoints[c]} BY DEF Pair
<1>3. Handshake(c) # Stranger BY PartiesDiffer
<1>4. PICK who : who = Handshake(c) /\ who # Stranger BY <1>3
<1>5. /\ StrangerInv' /\ DOMAIN holders' = Ports
      /\ \A q \in Ports : \A w : w # who => (w \in holders'[q] <=> w \in holders[q])
    BY <1>1, <1>2, <1>4, TakesShared
<1>6. FabricType' BY <1>1, <1>5 DEF PortInv, FabricType
<1>7. \A d \in Dialogs : dtls'[d] = IF d = c THEN "handshaking" ELSE dtls[d]
    BY <1>1 DEF PortInv, FabricType
<1>8. ASSUME NEW d \in Dialogs, NEW p \in Ports, Handshake(d) \in holders'[p]
      PROVE  dtls'[d] = "handshaking"
  <2>1. CASE d = c BY <1>7, <2>1
  <2>2. CASE d # c
    <3>1. Handshake(d) # who BY <1>4, <2>2, PartiesDiffer
    <3>2. Handshake(d) \in holders[p] BY <1>5, <1>8, <3>1
    <3> QED BY <1>7, <2>2, <3>2 DEF PortInv, HandshakeInv
  <2> QED BY <2>1, <2>2
<1>9. HandshakeInv' BY <1>8 DEF HandshakeInv
<1>10. SameAllocators /\ SameEndpoints BY <1>1, <1>4, <1>5, PartiesDiffer DEF SameAllocators, SameEndpoints
<1>11. SamePairers /\ SameSessions BY <1>1, <1>4, <1>5, PartiesDiffer DEF SamePairers, SameSessions
<1> QED BY <1>5, <1>6, <1>9, <1>10, <1>11, AllocatorsStay, EndpointsStay, PairersStay, SessionsStay
        DEF PortInv

LEMMA FinishHandshakePorts ==
    ASSUME PortInv, NEW c \in Dialogs, NEW peer, FinishHandshake(c, peer) PROVE PortInv'
<1>1. PICK outcome : outcome = HandshakeOutcome(peer) OBVIOUS
<1>2. UNCHANGED <<alloc, endpoints, pairing, sessions>> /\ dtls' = [dtls EXCEPT ![c] = outcome]
      /\ holders' = Drop(holders, Handshake(c))
    BY <1>1 DEF FinishHandshake, Handshake
<1>3. DOMAIN holders' = Ports
      /\ \A q \in Ports : \A w : w \in holders'[q] <=> w \in holders[q] /\ w # Handshake(c)
    BY <1>2, DropHolds
<1>4. FabricType' BY <1>2, <1>3 DEF PortInv, FabricType
<1>5. StrangerInv' BY <1>3 DEF PortInv, StrangerInv
<1>6. \A d \in Dialogs : d # c => dtls'[d] = dtls[d] BY <1>2 DEF PortInv, FabricType
<1>7. HandshakeInv' BY <1>3, <1>6 DEF PortInv, HandshakeInv
<1>8. SameAllocators /\ SameEndpoints BY <1>2, <1>3, PartiesDiffer DEF SameAllocators, SameEndpoints
<1>9. SamePairers /\ SameSessions BY <1>2, <1>3, PartiesDiffer DEF SamePairers, SameSessions
<1> QED BY <1>4, <1>5, <1>7, <1>8, <1>9, AllocatorsStay, EndpointsStay, PairersStay, SessionsStay
        DEF PortInv

LEMMA PortsStep == PortInv /\ [FabricNext]_fabricVars => PortInv'
<1> SUFFICES ASSUME PortInv, [FabricNext]_fabricVars PROVE PortInv' OBVIOUS
<1>1. CASE UNCHANGED fabricVars BY <1>1, PortsStay DEF fabricVars
<1>2. CASE StartFabric BY <1>2, PortsStay DEF StartFabric
<1>3. CASE \E p \in Ports : StrangerBinds(p) BY <1>3, StrangerBindsPorts
<1>4. ASSUME NEW c \in Dialogs,
             BeginAllocate(c) \/ BindRtp(c) \/ BindRtcp(c) \/ ReleaseEndpoint(c)
      PROVE  PortInv'
    BY <1>4, BeginAllocatePorts, BindRtpPorts, BindRtcpPorts, ReleaseEndpointPorts
<1>5. ASSUME NEW c \in Dialogs, AskAdmission(c) \/ PairExchanges(c) PROVE PortInv'
  <2>1. UNCHANGED <<holders, alloc, endpoints, pairing, sessions, dtls>>
    BY <1>5 DEF AskAdmission, PairExchanges
  <2> QED BY <2>1, PortsStay
<1>6. ASSUME NEW c \in Dialogs, Refused(c) PROVE PortInv'
    BY <1>6, AbandonPorts DEF Refused
<1>7. ASSUME NEW c \in Dialogs, LookUpLeg(c) \/ SpawnSession(c) PROVE PortInv'
    BY <1>7, LookUpLegPorts, SpawnSessionPorts
<1>8. ASSUME NEW c \in Dialogs, \E d \in Dialogs, kind \in Kinds : BeginPair(c, d, kind) PROVE PortInv'
    BY <1>8, BeginPairPorts
<1>9. ASSUME NEW c \in Dialogs, \E s \in Ids : BeginStop(c, s) PROVE PortInv' BY <1>9, BeginStopPorts
<1>10. ASSUME NEW c \in Dialogs, BeginHandshake(c) \/ \E peer \in DtlsPeers : FinishHandshake(c, peer)
       PROVE  PortInv'
    BY <1>10, BeginHandshakePorts, FinishHandshakePorts
<1>11. CASE \E s \in Ids : StopCompletes(s) BY <1>11, StopCompletesPorts
<1>12. CASE \E q \in Others : OtherLoads(q) \/ OtherExchanges(q) \/ OtherDrops(q)
  <2>1. UNCHANGED <<holders, alloc, endpoints, pairing, sessions, dtls>>
    BY <1>12 DEF OtherLoads, OtherExchanges, OtherDrops
  <2> QED BY <2>1, PortsStay
<1>13. CASE \E n \in Caps : SetMaxConcurrent(n)
    BY <1>13, PortsStay DEF SetMaxConcurrent
<1> QED BY <1>1, <1>2, <1>3, <1>4, <1>5, <1>6, <1>7, <1>8, <1>9, <1>10, <1>11, <1>12, <1>13 DEF FabricNext

LEMMA PortsAreAccounted == PortInv => PortsAccounted
<1> SUFFICES ASSUME PortInv PROVE PortsAccounted OBVIOUS
<1>1. ASSUME NEW p \in Ports, NEW c \in Dialogs
      PROVE  /\ <<"alloc", c>> \in holders[p] => alloc[c].phase = "rtcp" /\ alloc[c].port = p
             /\ <<"endpoint", c>> \in holders[p] <=> endpoints[c] # 0 /\ p \in Pair(endpoints[c])
             /\ <<"pairing", c>> \in holders[p] => pairing[c].phase # "none"
             /\ <<"handshake", c>> \in holders[p] => dtls[c] = "handshaking"
  <2>1. <<"alloc", c>> \in holders[p] => alloc[c].phase = "rtcp" /\ alloc[c].port = p
    BY DEF PortInv, AllocInv, AllocOk, Allocator
  <2>2. <<"endpoint", c>> \in holders[p] <=> endpoints[c] # 0 /\ p \in Pair(endpoints[c])
    BY DEF PortInv, EndpointInv, EndpointOk, Endpoint, Pair
  <2>3. <<"pairing", c>> \in holders[p] => pairing[c].phase # "none" BY DEF PortInv, PairingInv, Pairer
  <2>4. <<"handshake", c>> \in holders[p] => dtls[c] = "handshaking"
    BY DEF PortInv, HandshakeInv, Handshake
  <2> QED BY <2>1, <2>2, <2>3, <2>4
<1>2. ASSUME NEW s \in Ids
      PROVE  LET held == {p \in Ports : <<"session", s>> \in holders[p]}
             IN  IF sessions[s].state \in {"running", "stopping"}
                 THEN held # {} /\ \A p \in held : <<"stranger">> \notin holders[p]
                 ELSE held = {}
  <2>1. SessionOk(s) BY DEF PortInv, SessionInv, SessionOk
  <2>2. \A p \in Ports : Session(s) \in holders[p] => Stranger \notin holders[p]
    BY PartiesDiffer DEF PortInv, StrangerInv
  <2> QED BY <2>1, <2>2 DEF SessionOk, Session, Stranger
<1> QED BY <1>1, <1>2 DEF PortsAccounted

-----------------------------------------------------------------------------
(* The counters *)

Admissions == [phase : {"none", "loaded", "leased", "refused"}, cur : Nat]
Leased == {q \in Dialogs \cup Others : admit[q].phase = "leased"}
IsLive(y) == y.kind = "transcoded" /\ (y.handles # {} \/ y.state = "stopping")
Live == {s \in Ids : IsLive(sessions[s])}
Counted(k) == {s \in Ids : sessions[s].kind = k /\ sessions[s].counted}

\* Who asks for admission is a pairing that has its sockets, and loaded a count below the top.
BudgetOk(q) ==
    /\ admit[q].phase = "loaded" => admit[q].cur < top
    /\ q \in Dialogs /\ admit[q].phase # "none" =>
         pairing[q].phase = "spawn" /\ pairing[q].kind = "transcoded"
BudgetInv ==
    /\ active \in Nat /\ cap \in Nat /\ top \in Nat /\ cap <= top /\ active <= top
    /\ admit \in [Dialogs \cup Others -> Admissions]
    /\ \A q \in Dialogs \cup Others : BudgetOk(q)
    /\ active = Cardinality(Leased) + Cardinality(Live)

\* A session is counted from its creation until it has stopped, and somebody holds it while it runs.
CountOk(y) ==
    /\ y.counted <=> y.state \in {"running", "stopping"}
    /\ y.state = "unmade" => y.handles = {}
    /\ y.state = "running" => y.handles # {}
GaugeInv ==
    /\ gauge \in [{"bridge", "fax"} -> Int]
    /\ \A s \in Ids : CountOk(sessions[s])
    /\ \A k \in {"bridge", "fax"} : gauge[k] = Cardinality(Counted(k))

CountInv == BudgetInv /\ GaugeInv

LEMMA FiniteParties ==
    /\ IsFiniteSet(Leased) /\ IsFiniteSet(Live) /\ \A k : IsFiniteSet(Counted(k))
    /\ Cardinality(Leased) \in Nat /\ Cardinality(Live) \in Nat
<1>1. IsFiniteSet(Dialogs \cup Others) BY FabricAssumption, FS_Union
<1>2. IsFiniteSet(Ids) BY FabricAssumption, FS_Interval DEF Ids
<1>3. Leased \subseteq Dialogs \cup Others /\ Live \subseteq Ids BY DEF Leased, Live
<1>4. \A k : Counted(k) \subseteq Ids BY DEF Counted
<1>5. \A k : IsFiniteSet(Counted(k)) BY <1>2, <1>4, FS_Subset
<1>6. IsFiniteSet(Leased) /\ IsFiniteSet(Live) BY <1>1, <1>2, <1>3, FS_Subset
<1> QED BY <1>5, <1>6, FS_CardinalityType

LEMMA CountsStart == FabricInit => CountInv
<1> SUFFICES ASSUME FabricInit PROVE CountInv OBVIOUS
<1>1. Leased = {} BY DEF FabricInit, Leased, NoAdmission
<1>2. Live = {} BY DEF FabricInit, Live, IsLive, Unmade
<1>3. \A k : Counted(k) = {} BY DEF FabricInit, Counted, Unmade
<1>4. Cardinality({}) = 0 BY FS_EmptySet
<1>5. admit \in [Dialogs \cup Others -> Admissions]
      /\ \A q \in Dialogs \cup Others : admit[q].phase = "none"
    BY DEF FabricInit, NoAdmission, Admissions
<1>6. BudgetInv BY <1>1, <1>2, <1>4, <1>5 DEF BudgetInv, BudgetOk, FabricInit
<1>7. \A s \in Ids : CountOk(sessions[s]) BY DEF FabricInit, CountOk, Unmade
<1>8. gauge \in [{"bridge", "fax"} -> Int] /\ \A k \in {"bridge", "fax"} : gauge[k] = 0
    BY DEF FabricInit
<1>9. GaugeInv BY <1>3, <1>4, <1>7, <1>8 DEF GaugeInv
<1> QED BY <1>6, <1>9 DEF CountInv

LEMMA GaugeStays == GaugeInv /\ UNCHANGED <<gauge, sessions>> => GaugeInv'
BY DEF GaugeInv, Counted, CountOk

(* Steps of pairings that have asked for nothing, and of anybody else. *)
LEMMA CountsStay ==
    ASSUME CountInv, UNCHANGED <<sessions, gauge, active, cap, top, admit>>,
           \A c \in Dialogs : pairing'[c] = pairing[c] \/ admit[c].phase = "none"
    PROVE  CountInv'
<1>1. \A q \in Dialogs \cup Others : BudgetOk(q)' BY DEF CountInv, BudgetInv, BudgetOk
<1>2. Leased' = Leased /\ Live' = Live BY DEF Leased, Live
<1>3. BudgetInv' BY <1>1, <1>2 DEF CountInv, BudgetInv
<1> QED BY <1>3, GaugeStays DEF CountInv

(* One admission moves on without a lease won or lost. *)
LEMMA AdmissionMoves ==
    ASSUME CountInv, NEW q \in Dialogs \cup Others, NEW x \in Admissions,
           admit' = [admit EXCEPT ![q] = x], x.phase # "leased", admit[q].phase # "leased",
           x.phase = "loaded" => x.cur < top,
           q \in Dialogs /\ x.phase # "none" => pairing'[q].phase = "spawn" /\ pairing'[q].kind = "transcoded",
           \A c \in Dialogs : c # q => pairing'[c] = pairing[c],
           UNCHANGED <<sessions, gauge, active, cap, top>>
    PROVE  CountInv'
<1>1. \A r \in Dialogs \cup Others : admit'[r] = IF r = q THEN x ELSE admit[r]
    BY DEF CountInv, BudgetInv
<1>2. \A r \in Dialogs \cup Others : BudgetOk(r)' BY <1>1 DEF CountInv, BudgetInv, BudgetOk
<1>3. Leased' = Leased BY <1>1 DEF Leased
<1>4. Live' = Live BY DEF Live
<1>5. admit' \in [Dialogs \cup Others -> Admissions] BY DEF CountInv, BudgetInv
<1>6. BudgetInv' BY <1>2, <1>3, <1>4, <1>5 DEF CountInv, BudgetInv
<1> QED BY <1>6, GaugeStays DEF CountInv

LEMMA LoadBudgetFacts ==
    ASSUME CountInv, NEW q
    PROVE  /\ LoadBudget(q) \in Admissions /\ LoadBudget(q).phase \in {"refused", "loaded"}
           /\ LoadBudget(q).phase = "loaded" => LoadBudget(q).cur < top
BY DEF LoadBudget, CountInv, BudgetInv, Admissions

LEMMA ExchangeCounts ==
    ASSUME CountInv, NEW q \in Dialogs \cup Others, admit[q].phase = "loaded", Exchange(q),
           UNCHANGED <<sessions, gauge, cap, top, pairing>>
    PROVE  CountInv'
<1>1. CASE active = admit[q].cur
  <2>1. PICK x : x = [phase |-> "leased", cur |-> 0] OBVIOUS
  <2>2. active' = active + 1 /\ admit' = [admit EXCEPT ![q] = x] BY <1>1, <2>1 DEF Exchange
  <2>3. x \in Admissions /\ x.phase = "leased" BY <2>1 DEF Admissions
  <2>4. \A r \in Dialogs \cup Others : admit'[r] = IF r = q THEN x ELSE admit[r]
    BY <2>2 DEF CountInv, BudgetInv
  <2>5. \A r \in Dialogs \cup Others : BudgetOk(r) BY DEF CountInv, BudgetInv
  <2>6. \A r \in Dialogs \cup Others : BudgetOk(r)' BY <2>3, <2>4, <2>5 DEF BudgetOk
  <2>7. Leased' = Leased \cup {q} /\ q \notin Leased BY <2>3, <2>4 DEF Leased
  <2>8. Cardinality(Leased') = Cardinality(Leased) + 1 BY <2>7, FiniteParties, FS_AddElement
  <2>9. Live' = Live BY DEF Live
  <2>10. active < top BY <1>1, <2>5 DEF BudgetOk
  <2>11. admit' \in [Dialogs \cup Others -> Admissions] BY <2>2, <2>3 DEF CountInv, BudgetInv
  <2>12. active' = Cardinality(Leased') + Cardinality(Live')
    BY <2>2, <2>8, <2>9, FiniteParties DEF CountInv, BudgetInv
  <2>13. active' \in Nat /\ active' <= top BY <2>2, <2>10 DEF CountInv, BudgetInv
  <2>14. BudgetInv' BY <2>6, <2>11, <2>12, <2>13 DEF CountInv, BudgetInv
  <2> QED BY <2>14, GaugeStays DEF CountInv
<1>2. CASE active # admit[q].cur
  <2>1. PICK x : x = LoadBudget(q) OBVIOUS
  <2>2. admit' = [admit EXCEPT ![q] = x] /\ UNCHANGED active BY <1>2, <2>1 DEF Exchange
  <2>3. BudgetOk(q) BY DEF CountInv, BudgetInv
  <2>4. q \in Dialogs => pairing'[q].phase = "spawn" /\ pairing'[q].kind = "transcoded"
    BY <2>3 DEF BudgetOk
  <2>5. x \in Admissions /\ x.phase # "leased" /\ (x.phase = "loaded" => x.cur < top)
    BY <2>1, LoadBudgetFacts
  <2> QED BY <2>2, <2>4, <2>5, AdmissionMoves
<1> QED BY <1>1, <1>2

LEMMA OtherCounts ==
    ASSUME CountInv, NEW q \in Others, OtherLoads(q) \/ OtherExchanges(q) \/ OtherDrops(q)
    PROVE  CountInv'
<1>0. q \in Dialogs \cup Others /\ q \notin Dialogs BY FabricAssumption
<1>1. CASE OtherLoads(q)
  <2>1. PICK x : x = LoadBudget(q) OBVIOUS
  <2>2. x \in Admissions /\ x.phase # "leased" /\ (x.phase = "loaded" => x.cur < top)
    BY <2>1, LoadBudgetFacts
  <2>3. admit' = [admit EXCEPT ![q] = x] /\ admit[q].phase # "leased" BY <1>1, <2>1 DEF OtherLoads
  <2>4. UNCHANGED <<sessions, gauge, active, cap, top, pairing>> BY <1>1 DEF OtherLoads
  <2> QED BY <1>0, <2>2, <2>3, <2>4, AdmissionMoves
<1>2. CASE OtherExchanges(q) BY <1>0, <1>2, ExchangeCounts DEF OtherExchanges
<1>3. CASE OtherDrops(q)
  <2>1. UNCHANGED <<sessions, gauge, cap, top, pairing>> /\ active' = active - 1
        /\ admit' = [admit EXCEPT ![q] = NoAdmission] /\ admit[q].phase = "leased"
    BY <1>3 DEF OtherDrops
  <2>2. NoAdmission \in Admissions /\ NoAdmission.phase = "none" BY DEF NoAdmission, Admissions
  <2>3. \A r \in Dialogs \cup Others : admit'[r] = IF r = q THEN NoAdmission ELSE admit[r]
    BY <2>1 DEF CountInv, BudgetInv
  <2>4. \A r \in Dialogs \cup Others : BudgetOk(r)'
    BY <2>1, <2>2, <2>3 DEF CountInv, BudgetInv, BudgetOk
  <2>5. Leased' = Leased \ {q} /\ q \in Leased BY <1>0, <2>1, <2>2, <2>3 DEF Leased
  <2>6. Cardinality(Leased') = Cardinality(Leased) - 1 BY <2>5, FiniteParties, FS_RemoveElement
  <2>7. Live' = Live BY <2>1 DEF Live
  <2>8. Cardinality(Leased) # 0 BY <2>5, FiniteParties, FS_EmptySet
  <2>9. admit' \in [Dialogs \cup Others -> Admissions] BY <2>1, <2>2 DEF CountInv, BudgetInv
  <2>10. active' = Cardinality(Leased') + Cardinality(Live')
    BY <2>1, <2>6, <2>7, FiniteParties DEF CountInv, BudgetInv
  <2>11. active' \in Nat /\ active' <= top BY <2>1, <2>8, FiniteParties DEF CountInv, BudgetInv
  <2>12. BudgetInv' BY <2>1, <2>4, <2>9, <2>10, <2>11 DEF CountInv, BudgetInv
  <2> QED BY <2>1, <2>12, GaugeStays DEF CountInv
<1> QED BY <1>1, <1>2, <1>3

LEMMA CapCounts == ASSUME CountInv, NEW n \in Caps, SetMaxConcurrent(n) PROVE CountInv'
<1>1. UNCHANGED <<sessions, gauge, active, admit, pairing>> BY DEF SetMaxConcurrent
<1>2. n \in Nat BY FabricAssumption
<1>3. cap' = n /\ top' \in Nat /\ cap' <= top' /\ top <= top' /\ top \in Nat
    BY <1>2 DEF SetMaxConcurrent, CountInv, BudgetInv
<1>4. ASSUME NEW q \in Dialogs \cup Others PROVE BudgetOk(q)'
  <2>1. BudgetOk(q) BY DEF CountInv, BudgetInv
  <2>2. admit[q].cur \in Nat BY DEF CountInv, BudgetInv, Admissions
  <2> QED BY <1>1, <1>3, <2>1, <2>2 DEF BudgetOk
<1>5. Leased' = Leased /\ Live' = Live BY <1>1 DEF Leased, Live
<1>6. BudgetInv' BY <1>1, <1>2, <1>3, <1>4, <1>5 DEF CountInv, BudgetInv
<1> QED BY <1>1, <1>6, GaugeStays DEF CountInv

LEMMA PairingCounts ==
    ASSUME CountInv, FabricType, NEW c \in Dialogs,
           LookUpLeg(c) \/ AskAdmission(c) \/ PairExchanges(c) \/ Refused(c)
               \/ \E d \in Dialogs, kind \in Kinds : BeginPair(c, d, kind)
    PROVE  CountInv'
<1>0. BudgetOk(c) BY DEF CountInv, BudgetInv
<1>1. CASE LookUpLeg(c) \/ \E d \in Dialogs, kind \in Kinds : BeginPair(c, d, kind)
  <2>1. UNCHANGED <<sessions, gauge, active, cap, top, admit>> BY <1>1 DEF LookUpLeg, BeginPair
  <2>2. pairing[c].phase # "spawn" BY <1>1 DEF LookUpLeg, BeginPair
  <2>3. admit[c].phase = "none" BY <1>0, <2>2 DEF BudgetOk
  <2>4. PICK x : pairing' = [pairing EXCEPT ![c] = x]
    <3>1. CASE LookUpLeg(c)
      <4>1. CASE AbandonPairing(c) BY <4>1 DEF AbandonPairing
      <4>2. CASE ~AbandonPairing(c) BY <3>1, <4>2 DEF LookUpLeg
      <4> QED BY <4>1, <4>2
    <3>2. CASE \E d \in Dialogs, kind \in Kinds : BeginPair(c, d, kind) BY <3>2 DEF BeginPair
    <3> QED BY <1>1, <3>1, <3>2
  <2>5. \A d \in Dialogs : d # c => pairing'[d] = pairing[d] BY <2>4 DEF FabricType
  <2> QED BY <2>1, <2>3, <2>5, CountsStay
<1>2. CASE AskAdmission(c)
  <2>1. PICK x : x = LoadBudget(c) OBVIOUS
  <2>2. x \in Admissions /\ x.phase # "leased" /\ (x.phase = "loaded" => x.cur < top)
    BY <2>1, LoadBudgetFacts
  <2>3. admit' = [admit EXCEPT ![c] = x] /\ admit[c].phase # "leased"
    BY <1>2, <2>1 DEF AskAdmission, NoAdmission
  <2>4. UNCHANGED <<sessions, gauge, active, cap, top, pairing>> BY <1>2 DEF AskAdmission
  <2>5. pairing[c].phase = "spawn" /\ pairing[c].kind = "transcoded" BY <1>2 DEF AskAdmission
  <2> QED BY <2>2, <2>3, <2>4, <2>5, AdmissionMoves
<1>3. CASE PairExchanges(c) BY <1>3, ExchangeCounts DEF PairExchanges
<1>4. CASE Refused(c)
  <2>1. UNCHANGED <<sessions, gauge, active, cap, top>> /\ admit' = [admit EXCEPT ![c] = NoAdmission]
        /\ pairing' = [pairing EXCEPT ![c] = NoPairing] /\ admit[c].phase # "leased"
    BY <1>4 DEF Refused, AbandonPairing
  <2>2. NoAdmission \in Admissions /\ NoAdmission.phase = "none" BY DEF NoAdmission, Admissions
  <2>3. \A d \in Dialogs : d # c => pairing'[d] = pairing[d] BY <2>1 DEF FabricType
  <2>4. PICK x \in Admissions : x = NoAdmission /\ x.phase = "none" BY <2>2
  <2> QED BY <2>1, <2>3, <2>4, AdmissionMoves
<1> QED BY <1>1, <1>2, <1>3, <1>4

(* The gauges follow when one session changes. *)
LEMMA GaugeMoves ==
    ASSUME GaugeInv, FabricType, NEW s \in Ids, NEW x \in SessionSet, NEW y \in SessionSet,
           y = sessions[s], sessions' = [sessions EXCEPT ![s] = x], CountOk(x),
           gauge' = [k \in DOMAIN gauge |->
                       IF ~y.counted /\ x.counted /\ k = x.kind THEN gauge[k] + 1
                       ELSE IF y.counted /\ ~x.counted /\ k = x.kind THEN gauge[k] - 1 ELSE gauge[k]],
           y.counted => x.kind = y.kind
    PROVE  GaugeInv'
<1>1. \A t \in Ids : sessions'[t] = IF t = s THEN x ELSE sessions[t] BY DEF FabricType
<1>2. \A t \in Ids : CountOk(sessions'[t]) BY <1>1 DEF GaugeInv
<1>3. DOMAIN gauge = {"bridge", "fax"} /\ \A k \in {"bridge", "fax"} : gauge[k] \in Int BY DEF GaugeInv
<1>4. gauge' \in [{"bridge", "fax"} -> Int] BY <1>3
<1>5. ASSUME NEW k \in {"bridge", "fax"} PROVE gauge'[k] = Cardinality(Counted(k)')
  <2>1. gauge[k] = Cardinality(Counted(k)) /\ IsFiniteSet(Counted(k)) BY FiniteParties DEF GaugeInv
  <2>2. CASE ~y.counted /\ x.counted /\ k = x.kind
    <3>1. Counted(k)' = Counted(k) \cup {s} /\ s \notin Counted(k) BY <1>1, <2>2 DEF Counted
    <3>2. gauge'[k] = gauge[k] + 1 BY <1>3, <2>2
    <3> QED BY <2>1, <3>1, <3>2, FS_AddElement
  <2>3. CASE y.counted /\ ~x.counted /\ k = x.kind
    <3>1. Counted(k)' = Counted(k) \ {s} /\ s \in Counted(k) BY <1>1, <2>3 DEF Counted
    <3>2. gauge'[k] = gauge[k] - 1 BY <1>3, <2>3
    <3> QED BY <2>1, <3>1, <3>2, FS_RemoveElement
  <2>4. CASE (y.counted <=> x.counted) \/ k # x.kind
    <3>1. (y.counted /\ y.kind = k) <=> (x.counted /\ x.kind = k) BY <2>4
    <3>2. Counted(k)' = Counted(k) BY <1>1, <3>1 DEF Counted
    <3>3. gauge'[k] = gauge[k] BY <1>3, <2>4
    <3> QED BY <2>1, <3>2, <3>3
  <2> QED BY <2>2, <2>3, <2>4
<1> QED BY <1>2, <1>4, <1>5 DEF GaugeInv

(* The budget follows when one session changes. *)
LEMMA BudgetMoves ==
    ASSUME BudgetInv, FabricType, NEW s \in Ids, NEW x \in SessionSet,
           sessions' = [sessions EXCEPT ![s] = x], IsLive(sessions[s]),
           active' = IF IsLive(x) THEN active ELSE active - 1,
           UNCHANGED <<cap, top, admit, pairing>>
    PROVE  BudgetInv'
<1>1. \A t \in Ids : sessions'[t] = IF t = s THEN x ELSE sessions[t] BY DEF FabricType
<1>2. Leased' = Leased BY DEF Leased
<1>3. \A q \in Dialogs \cup Others : BudgetOk(q)' BY DEF BudgetInv, BudgetOk
<1>4. s \in Live BY DEF Live
<1>5. CASE IsLive(x)
  <2>1. Live' = Live BY <1>1, <1>5 DEF Live
  <2> QED BY <1>2, <1>3, <1>5, <2>1 DEF BudgetInv
<1>6. CASE ~IsLive(x)
  <2>1. Live' = Live \ {s} BY <1>1, <1>6 DEF Live
  <2>2. Cardinality(Live') = Cardinality(Live) - 1 BY <1>4, <2>1, FiniteParties, FS_RemoveElement
  <2>3. Cardinality(Live) # 0 BY <1>4, FiniteParties, FS_EmptySet
  <2>4. active' = active - 1 BY <1>6
  <2>5. active' = Cardinality(Leased') + Cardinality(Live')
    BY <1>2, <2>2, <2>4, FiniteParties DEF BudgetInv
  <2>6. active' \in Nat /\ active' <= top BY <2>3, <2>4, FiniteParties DEF BudgetInv
  <2> QED BY <1>3, <2>5, <2>6 DEF BudgetInv
<1> QED BY <1>5, <1>6

LEMMA BudgetApart ==
    ASSUME BudgetInv, FabricType, NEW s \in Ids, NEW x \in SessionSet,
           sessions' = [sessions EXCEPT ![s] = x], ~IsLive(sessions[s]), ~IsLive(x),
           UNCHANGED <<active, cap, top, admit, pairing>>
    PROVE  BudgetInv'
<1>1. \A t \in Ids : sessions'[t] = IF t = s THEN x ELSE sessions[t] BY DEF FabricType
<1>2. Leased' = Leased BY DEF Leased
<1>3. \A q \in Dialogs \cup Others : BudgetOk(q)' BY DEF BudgetInv, BudgetOk
<1>4. Live' = Live BY <1>1 DEF Live
<1> QED BY <1>2, <1>3, <1>4 DEF BudgetInv

LEMMA BeginStopCounts ==
    ASSUME CountInv, FabricType, NEW c \in Dialogs, NEW s \in Ids, BeginStop(c, s) PROVE CountInv'
<1>1. PICK y \in SessionSet : y = sessions[s] BY DEF FabricType
<1>2. PICK x : x = Stopped(y, c) OBVIOUS
<1>3. sessions' = [sessions EXCEPT ![s] = x] BY <1>1, <1>2 DEF BeginStop, Stopped
<1>4. /\ x \in SessionSet /\ x.kind = y.kind /\ x.counted = y.counted
      /\ x.state = (IF y.state = "running" THEN "stopping" ELSE y.state)
      /\ x.handles = (IF y.kind = "bridge" THEN {} ELSE y.handles \ {c})
    BY <1>2, StoppedFields
<1>5. c \in y.handles BY <1>1 DEF BeginStop
<1>6. CountOk(y) BY <1>1 DEF CountInv, GaugeInv
<1>7. y.state # "unmade" BY <1>5, <1>6 DEF CountOk
<1>8. CountOk(x) BY <1>4, <1>6, <1>7 DEF CountOk
<1>9. UNCHANGED <<gauge, cap, top, admit, pairing>> BY DEF BeginStop
<1>10. gauge' = [k \in DOMAIN gauge |->
                   IF ~y.counted /\ x.counted /\ k = x.kind THEN gauge[k] + 1
                   ELSE IF y.counted /\ ~x.counted /\ k = x.kind THEN gauge[k] - 1 ELSE gauge[k]]
    BY <1>4, <1>9 DEF CountInv, GaugeInv
<1>11. GaugeInv' BY <1>1, <1>3, <1>4, <1>8, <1>10, GaugeMoves DEF CountInv
<1>12. CASE y.kind = "transcoded"
  <2>1. IsLive(sessions[s]) BY <1>1, <1>5, <1>12 DEF IsLive
  <2>2. y.state \in {"running", "stopping", "stopped"} BY <1>7 DEF SessionSet
  <2>3. IsLive(x) <=> ~(y.handles = {c} /\ y.state = "stopped")
    BY <1>4, <1>5, <1>12, <2>2 DEF IsLive
  <2>4. active' = IF y.handles = {c} /\ y.state = "stopped" THEN active - 1 ELSE active
    BY <1>1, <1>12 DEF BeginStop
  <2>5. active' = IF IsLive(x) THEN active ELSE active - 1 BY <2>3, <2>4
  <2> QED BY <1>3, <1>4, <1>9, <1>11, <2>1, <2>5, BudgetMoves DEF CountInv
<1>13. CASE y.kind # "transcoded"
  <2>1. ~IsLive(sessions[s]) /\ ~IsLive(x) BY <1>1, <1>4, <1>13 DEF IsLive
  <2>2. UNCHANGED active BY <1>1, <1>13 DEF BeginStop
  <2> QED BY <1>3, <1>4, <1>9, <1>11, <2>1, <2>2, BudgetApart DEF CountInv
<1> QED BY <1>12, <1>13

LEMMA StopCompletesCounts ==
    ASSUME CountInv, FabricType, NEW s \in Ids, StopCompletes(s) PROVE CountInv'
<1>1. PICK y \in SessionSet : y = sessions[s] BY DEF FabricType
<1>2. PICK x : x = [y EXCEPT !.state = "stopped", !.counted = FALSE] OBVIOUS
<1>3. sessions' = [sessions EXCEPT ![s] = x] BY <1>1, <1>2 DEF StopCompletes
<1>4. x \in SessionSet /\ x.kind = y.kind /\ ~x.counted /\ x.state = "stopped" /\ x.handles = y.handles
    BY <1>2 DEF SessionSet
<1>5. y.state = "stopping" /\ CountOk(y) BY <1>1 DEF StopCompletes, CountInv, GaugeInv
<1>6. y.counted BY <1>5 DEF CountOk
<1>7. CountOk(x) BY <1>4 DEF CountOk
<1>8. UNCHANGED <<cap, top, admit, pairing>> BY DEF StopCompletes
<1>9. gauge' = [k \in DOMAIN gauge |-> IF k = y.kind THEN gauge[k] - 1 ELSE gauge[k]]
    BY <1>1 DEF StopCompletes
<1>10. gauge' = [k \in DOMAIN gauge |->
                   IF ~y.counted /\ x.counted /\ k = x.kind THEN gauge[k] + 1
                   ELSE IF y.counted /\ ~x.counted /\ k = x.kind THEN gauge[k] - 1 ELSE gauge[k]]
    BY <1>4, <1>6, <1>9
<1>11. GaugeInv' BY <1>1, <1>3, <1>4, <1>7, <1>10, GaugeMoves DEF CountInv
<1>12. CASE y.kind = "transcoded"
  <2>1. IsLive(sessions[s]) BY <1>1, <1>5, <1>12 DEF IsLive
  <2>2. IsLive(x) <=> y.handles # {} BY <1>4, <1>12 DEF IsLive
  <2>3. active' = IF y.handles = {} THEN active - 1 ELSE active BY <1>1, <1>12 DEF StopCompletes
  <2>4. active' = IF IsLive(x) THEN active ELSE active - 1 BY <2>2, <2>3
  <2> QED BY <1>3, <1>4, <1>8, <1>11, <2>1, <2>4, BudgetMoves DEF CountInv
<1>13. CASE y.kind # "transcoded"
  <2>1. ~IsLive(sessions[s]) /\ ~IsLive(x) BY <1>1, <1>4, <1>13 DEF IsLive
  <2>2. UNCHANGED active BY <1>1, <1>13 DEF StopCompletes
  <2> QED BY <1>3, <1>4, <1>8, <1>11, <2>1, <2>2, BudgetApart DEF CountInv
<1> QED BY <1>12, <1>13

(* The lease moves from the pairing into the session. *)
LEMMA SpawnSessionCounts ==
    ASSUME CountInv, FabricType, NEW c \in Dialogs, SpawnSession(c) PROVE CountInv'
<1>1. PICK s \in Ids : s = NextId /\ sessions[s].state = "unmade" BY NextIsFresh DEF SpawnSession
<1>2. PICK y \in SessionSet : y = sessions[s] BY DEF FabricType
<1>3. pairing[c].phase = "spawn" BY DEF SpawnSession
<1>4. PICK m \in Pairings : m = pairing[c] BY <1>3, PairingUnderWay
<1>5. PICK x : x = Running(m.kind, c, m.with) OBVIOUS
<1>6. x \in SessionSet /\ x.kind = m.kind /\ x.counted /\ x.state = "running" /\ x.handles # {}
    BY <1>5 DEF Running, SessionSet, Pairings
<1>7. sessions' = [sessions EXCEPT ![s] = x] BY <1>1, <1>4, <1>5 DEF SpawnSession
<1>8. CountOk(y) /\ y.state = "unmade" BY <1>1, <1>2 DEF CountInv, GaugeInv
<1>9. ~y.counted /\ y.handles = {} BY <1>8 DEF CountOk
<1>10. CountOk(x) BY <1>6 DEF CountOk
<1>11. gauge' = [k \in DOMAIN gauge |-> IF k = m.kind THEN gauge[k] + 1 ELSE gauge[k]]
    BY <1>4 DEF SpawnSession
<1>12. gauge' = [k \in DOMAIN gauge |->
                   IF ~y.counted /\ x.counted /\ k = x.kind THEN gauge[k] + 1
                   ELSE IF y.counted /\ ~x.counted /\ k = x.kind THEN gauge[k] - 1 ELSE gauge[k]]
    BY <1>6, <1>9, <1>11
<1>13. GaugeInv' BY <1>2, <1>6, <1>7, <1>9, <1>10, <1>12, GaugeMoves DEF CountInv
<1>14. UNCHANGED <<active, cap, top>> /\ pairing' = [pairing EXCEPT ![c] = NoPairing]
       /\ admit' = [admit EXCEPT ![c] = NoAdmission]
    BY DEF SpawnSession
<1>15. NoAdmission \in Admissions /\ NoAdmission.phase = "none" BY DEF NoAdmission, Admissions
<1>16. \A q \in Dialogs \cup Others : admit'[q] = IF q = c THEN NoAdmission ELSE admit[q]
    BY <1>14 DEF CountInv, BudgetInv
<1>17. \A d \in Dialogs : d # c => pairing'[d] = pairing[d] BY <1>14 DEF FabricType
<1>18. \A q \in Dialogs \cup Others : BudgetOk(q)'
    BY <1>14, <1>15, <1>16, <1>17 DEF CountInv, BudgetInv, BudgetOk
<1>19. admit' \in [Dialogs \cup Others -> Admissions] BY <1>14, <1>15 DEF CountInv, BudgetInv
<1>20. \A t \in Ids : sessions'[t] = IF t = s THEN x ELSE sessions[t] BY <1>7 DEF FabricType
<1>21. ~IsLive(sessions[s]) BY <1>2, <1>8, <1>9 DEF IsLive
<1>22. BudgetOk(c) BY DEF CountInv, BudgetInv
<1>23. Cardinality(Leased') + Cardinality(Live') = Cardinality(Leased) + Cardinality(Live)
  <2>1. CASE m.kind = "transcoded"
    <3>1. admit[c].phase = "leased" BY <1>4, <2>1 DEF SpawnSession
    <3>2. Leased' = Leased \ {c} /\ c \in Leased BY <1>15, <1>16, <3>1 DEF Leased
    <3>3. IsLive(x) BY <1>6, <2>1 DEF IsLive
    <3>4. Live' = Live \cup {s} /\ s \notin Live BY <1>20, <1>21, <3>3 DEF Live
    <3>5. Cardinality(Leased') = Cardinality(Leased) - 1 BY <3>2, FiniteParties, FS_RemoveElement
    <3>6. Cardinality(Live') = Cardinality(Live) + 1 BY <3>4, FiniteParties, FS_AddElement
    <3> QED BY <3>5, <3>6, FiniteParties
  <2>2. CASE m.kind # "transcoded"
    <3>1. admit[c].phase = "none" BY <1>4, <1>22, <2>2 DEF BudgetOk
    <3>2. Leased' = Leased BY <1>15, <1>16, <3>1 DEF Leased
    <3>3. ~IsLive(x) BY <1>6, <2>2 DEF IsLive
    <3>4. Live' = Live BY <1>20, <1>21, <3>3 DEF Live
    <3> QED BY <3>2, <3>4
  <2> QED BY <2>1, <2>2
<1>24. BudgetInv' BY <1>14, <1>18, <1>19, <1>23 DEF CountInv, BudgetInv
<1> QED BY <1>13, <1>24 DEF CountInv

LEMMA CountsStep == FabricType /\ CountInv /\ [FabricNext]_fabricVars => CountInv'
<1> SUFFICES ASSUME FabricType, CountInv, [FabricNext]_fabricVars PROVE CountInv' OBVIOUS
<1> DEFINE Elsewhere == UNCHANGED <<sessions, gauge, active, cap, top, admit, pairing>>
<1>1. Elsewhere => CountInv' BY CountsStay
<1>2. UNCHANGED fabricVars => Elsewhere BY DEF fabricVars
<1>3. StartFabric \/ (\E p \in Ports : StrangerBinds(p)) => Elsewhere BY DEF StartFabric, StrangerBinds
<1>4. ASSUME NEW c \in Dialogs PROVE BeginAllocate(c) \/ BindRtp(c) => Elsewhere
    BY DEF BeginAllocate, BindRtp
<1>5. ASSUME NEW c \in Dialogs PROVE BindRtcp(c) \/ ReleaseEndpoint(c) => Elsewhere
    BY DEF BindRtcp, ReleaseEndpoint
<1>6. ASSUME NEW c \in Dialogs, NEW peer PROVE BeginHandshake(c) \/ FinishHandshake(c, peer) => Elsewhere
    BY DEF BeginHandshake, FinishHandshake
<1> HIDE DEF Elsewhere
<1>7. ASSUME NEW c \in Dialogs,
             \/ BeginAllocate(c) \/ BindRtp(c) \/ BindRtcp(c) \/ ReleaseEndpoint(c)
             \/ LookUpLeg(c) \/ AskAdmission(c) \/ PairExchanges(c) \/ Refused(c) \/ SpawnSession(c)
             \/ \E d \in Dialogs, kind \in Kinds : BeginPair(c, d, kind)
             \/ \E s \in Ids : BeginStop(c, s)
             \/ BeginHandshake(c)
             \/ \E peer \in DtlsPeers : FinishHandshake(c, peer)
      PROVE  CountInv'
    BY <1>1, <1>4, <1>5, <1>6, <1>7, PairingCounts, SpawnSessionCounts, BeginStopCounts
<1>8. CASE \E s \in Ids : StopCompletes(s) BY <1>8, StopCompletesCounts
<1>9. CASE \E q \in Others : OtherLoads(q) \/ OtherExchanges(q) \/ OtherDrops(q) BY <1>9, OtherCounts
<1>10. CASE \E n \in Caps : SetMaxConcurrent(n) BY <1>10, CapCounts
<1> QED BY <1>1, <1>2, <1>3, <1>7, <1>8, <1>9, <1>10 DEF FabricNext

LEMMA CountersAreExact == CountInv => CountersExact
<1> SUFFICES ASSUME CountInv PROVE CountersExact OBVIOUS
<1>1. DOMAIN gauge = {"bridge", "fax"} BY DEF CountInv, GaugeInv
<1>2. \A k \in DOMAIN gauge : gauge[k] = Cardinality({s \in Ids : sessions[s].kind = k /\ sessions[s].counted})
    BY <1>1 DEF CountInv, GaugeInv, Counted
<1>3. Leased = {q \in DOMAIN admit : admit[q].phase = "leased"} BY DEF CountInv, BudgetInv, Leased
<1>4. Live = {s \in Ids : /\ sessions[s].kind = "transcoded"
                          /\ \/ sessions[s].handles # {}
                             \/ sessions[s].state = "stopping"}
    BY DEF Live, IsLive
<1> QED BY <1>2, <1>3, <1>4 DEF CountersExact, CountInv, BudgetInv

(* For any number of calls, ports, sessions and caps: every bound media    *)
(* port belongs to something alive and every endpoint and session that has *)
(* not stopped has its ports; the gauges and the admission count are the   *)
(* sessions and leases there are, and admission never exceeds the highest  *)
(* cap so far (port_allocator.rs, fabric.rs, transcoded.rs, budget.rs).    *)
THEOREM MediaIsAccounted == FabricSpec => []MediaAccounted
<1>1. FabricInit => PortInv /\ CountInv BY PortsStart, CountsStart
<1>2. PortInv /\ CountInv /\ [FabricNext]_fabricVars => PortInv' /\ CountInv'
    BY PortsStep, CountsStep DEF PortInv
<1>3. PortInv /\ CountInv => MediaAccounted
    BY PortsAreAccounted, CountersAreExact DEF MediaAccounted
<1> QED BY <1>1, <1>2, <1>3, PTL DEF FabricSpec

=============================================================================
