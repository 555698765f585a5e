------------------------------ MODULE UasProofs -----------------------------
(***************************************************************************)
(* Proofs about calls, for every number of items, workers, requests,       *)
(* dialogs, 2xx retransmit loops, outbound calls, clients and bridges and  *)
(* every depth of the event bus.                                           *)
(*                                                                         *)
(* The workers: the inductive invariant IInv, the properties it implies,   *)
(* and the refinement of CallQueue.                                        *)
(*                                                                         *)
(* The dialogs of one Call-ID: DialogsSound is an invariant.  It is not    *)
(* inductive; the invariant below adds what each item of the worker's      *)
(* queue carries, what the worker holds at each point of a handler, where  *)
(* an unanswered INVITE is, and how the CDR of a dialog, its endings and   *)
(* its BYEs move together.                                                 *)
(*                                                                         *)
(* Outbound calls under concurrent tools and a drain: CallsSound is an     *)
(* invariant.  The inductive invariant CallsInv adds that a call is        *)
(* announced once and before its end, that only calls which are up are     *)
(* hung up, that a hangup answered 200 leaves the remote end over, and     *)
(* which legs a bridge request has still to release.                       *)
(***************************************************************************)
EXTENDS UasWorker, UasDialog, CallControl, FiniteSetTheorems, TLAPS

-----------------------------------------------------------------------------
(* The workers *)

(* What taking the head of a channel leaves. *)
LEMMA HeadTail ==
  ASSUME NEW S, NEW s \in Seq(S), s # <<>>
  PROVE  /\ Len(s) \in Nat \ {0}
         /\ Head(s) \in S
         /\ Head(s) = s[1]
         /\ Tail(s) \in Seq(S)
         /\ Len(Tail(s)) = Len(s) - 1
         /\ \A i \in 1 .. Len(Tail(s)) : Tail(s)[i] = s[i + 1]
  OBVIOUS

(* What sending to a channel appends. *)
LEMMA AppendFacts ==
  ASSUME NEW S, NEW s \in Seq(S), NEW e \in S
  PROVE  /\ Append(s, e) \in Seq(S)
         /\ Len(Append(s, e)) = Len(s) + 1
         /\ \A i \in 1 .. Len(s) : Append(s, e)[i] = s[i]
         /\ Append(s, e)[Len(s) + 1] = e
  OBVIOUS

(* Workers are numbered from 1. *)
LEMMA WorkerNumbers ==
  /\ Workers \subseteq Nat \ {0}
  /\ \A n \in Nat : n \in Workers <=> (n # 0 /\ n <= MaxWorkers)
  BY MaxWorkersAssumption DEF Workers

(* The initial state satisfies the inductive invariant. *)
LEMMA InitIInv == Init => IInv
<1> SUFFICES ASSUME Init PROVE IInv
  OBVIOUS
<1>1. TypeOK
  <2>1. sent \in 0 .. MaxItems /\ cur \in [Workers -> 0 .. MaxItems]
    BY MaxItemsAssumption DEF Init
  <2>2. entry \in 0 .. MaxWorkers /\ spawned \in 0 .. MaxWorkers /\ lock \in 0 .. MaxWorkers
    BY MaxWorkersAssumption DEF Init
  <2>3. q \in [Workers -> Seq(Items)] /\ handled \in Seq(Items)
    BY DEF Init
  <2>4. wk \in [Workers -> WorkerStates] /\ disp \in {"idle", "absent", "spawned"}
    BY DEF Init, WorkerStates
  <2>5. cancel \in BOOLEAN
    BY DEF Init
  <2> QED BY <2>1, <2>2, <2>3, <2>4, <2>5 DEF TypeOK
<1>2. LockInv
  BY WorkerNumbers DEF Init, LockInv
<1>3. SuccessionInv
  BY WorkerNumbers DEF Init, SuccessionInv, Left
<1>4. HandledInOrder /\ InHandInv /\ ChannelInv /\ CountInv
  BY DEF Init, HandledInOrder, InHandInv, ChannelInv, CountInv, Taken
<1>5. NoItemStranded
  BY DEF Init, NoItemStranded
<1> QED BY <1>1, <1>2, <1>3, <1>4, <1>5 DEF IInv

(* Typing is preserved by every step. *)
LEMMA TypeStep == IInv /\ [Next]_vars => TypeOK'
<1> SUFFICES ASSUME IInv, [Next]_vars PROVE TypeOK'
  OBVIOUS
<1>1. TypeOK
  BY DEF IInv
<1>2. CASE DispatchSends
  <2>1. sent + 1 \in Items
    BY <1>1, <1>2, MaxItemsAssumption DEF TypeOK, DispatchSends, Dispatching, Items
  <2>2. entry \in Workers
    BY <1>1, <1>2, WorkerNumbers, MaxWorkersAssumption DEF TypeOK, DispatchSends
  <2> QED BY <1>1, <1>2, <2>1, <2>2, AppendFacts, MaxItemsAssumption
          DEF TypeOK, DispatchSends, Dispatching
<1>3. CASE DispatchMisses
  BY <1>1, <1>3 DEF TypeOK, DispatchMisses
<1>4. CASE DispatchSpawns
  <2>1. spawned + 1 \in 0 .. MaxWorkers
    BY <1>1, <1>4, MaxWorkersAssumption DEF TypeOK, DispatchSpawns
  <2>2. wk' \in [Workers -> WorkerStates]
    BY <1>1, <1>4 DEF TypeOK, DispatchSpawns, WorkerStates
  <2> QED BY <1>1, <1>4, <2>1, <2>2 DEF TypeOK, DispatchSpawns
<1>5. ASSUME NEW w \in Workers, WorkerStep(w) PROVE TypeOK'
  <2>0. q[w] \in Seq(Items)
    BY <1>1 DEF TypeOK
  <2>1. CASE Receives(w)
    <3>0. Head(q[w]) \in Items /\ Tail(q[w]) \in Seq(Items)
      BY <2>0, <2>1, HeadTail DEF Receives
    <3>1. Head(q[w]) \in 0 .. MaxItems /\ Tail(q[w]) \in Seq(Items)
      BY <3>0 DEF Items
    <3> QED BY <1>1, <2>1, <3>1 DEF TypeOK, Receives, WorkerStates
  <2>2. CASE FindsItem(w)
    <3>0. Head(q[w]) \in Items /\ Tail(q[w]) \in Seq(Items)
      BY <2>0, <2>2, HeadTail DEF FindsItem
    <3>1. Head(q[w]) \in 0 .. MaxItems /\ Tail(q[w]) \in Seq(Items)
      BY <3>0 DEF Items
    <3> QED BY <1>1, <2>2, <3>1, MaxWorkersAssumption DEF TypeOK, FindsItem, WorkerStates
  <2>3. CASE Handles(w)
    <3>1. cur[w] \in Items
      BY <1>1, <2>3, MaxItemsAssumption DEF IInv, InHandInv, TypeOK, Handles, Items
    <3>2. Append(handled, cur[w]) \in Seq(Items)
      BY <1>1, <3>1, AppendFacts DEF TypeOK
    <3>3. wk' \in [Workers -> WorkerStates] /\ cur' \in [Workers -> 0 .. MaxItems]
      BY <1>1, <2>3, MaxItemsAssumption DEF TypeOK, Handles, WorkerStates
    <3> QED BY <1>1, <2>3, <3>2, <3>3 DEF TypeOK, Handles
  <2>4. CASE SeesCancel(w)
    BY <1>1, <2>4 DEF TypeOK, SeesCancel, WorkerStates
  <2>5. CASE TimesOut(w)
    BY <1>1, <2>5 DEF TypeOK, TimesOut, WorkerStates
  <2>6. CASE TakesEntry(w)
    BY <1>1, <2>6, WorkerNumbers, MaxWorkersAssumption DEF TypeOK, TakesEntry, WorkerStates
  <2>7. CASE FindsNothing(w)
    BY <1>1, <2>7 DEF TypeOK, FindsNothing, WorkerStates
  <2>8. CASE Retires(w)
    BY <1>1, <2>8, MaxWorkersAssumption DEF TypeOK, Retires, WorkerStates
  <2>9. CASE Drops(w)
    BY <1>1, <2>9 DEF TypeOK, Drops, WorkerStates
  <2> QED BY <1>5, <2>1, <2>2, <2>3, <2>4, <2>5, <2>6, <2>7, <2>8, <2>9 DEF WorkerStep
<1>6. CASE Shutdown
  BY <1>1, <1>6 DEF TypeOK, Shutdown
<1>7. CASE UNCHANGED vars
  BY <1>1, <1>7 DEF TypeOK, vars
<1> QED BY <1>2, <1>3, <1>4, <1>5, <1>6, <1>7 DEF Next, DispatchStep

(* What a step of one worker does to the states of the tasks. *)
LEMMA WorkerFrame ==
  ASSUME IInv, NEW w \in Workers, WorkerStep(w)
  PROVE  /\ \A v \in Workers \ {w} : wk'[v] = wk[v] /\ q'[v] = q[v] /\ cur'[v] = cur[v]
         /\ UNCHANGED <<disp, sent, spawned, cancel>>
         /\ wk[w] # "none" /\ wk[w] # "gone"
<1>1. TypeOK
  BY DEF IInv
<1> QED BY <1>1 DEF TypeOK, WorkerStep, Receives, SeesCancel, TimesOut, TakesEntry,
        FindsItem, FindsNothing, Retires, Drops, Handles

(* The lock belongs to the deciding worker, whatever step is taken. *)
LEMMA LockStep == IInv /\ [Next]_vars => LockInv'
<1> SUFFICES ASSUME IInv, [Next]_vars, NEW v \in Workers
             PROVE  (lock = v <=> wk[v] \in {"holding", "empty"})'
  BY DEF LockInv
<1>1. /\ wk \in [Workers -> WorkerStates]
      /\ \A u \in Workers : lock = u <=> wk[u] \in {"holding", "empty"}
      /\ 0 \notin Workers
  BY WorkerNumbers DEF IInv, TypeOK, LockInv
<1>2. CASE DispatchSends
  BY <1>1, <1>2 DEF DispatchSends
<1>3. CASE DispatchMisses
  BY <1>1, <1>3 DEF DispatchMisses
<1>4. CASE DispatchSpawns
  BY <1>1, <1>4 DEF DispatchSpawns
<1>5. ASSUME NEW w \in Workers, WorkerStep(w)
      PROVE  (lock = v <=> wk[v] \in {"holding", "empty"})'
  <2>1. CASE Receives(w)
    BY <1>1, <2>1 DEF Receives
  <2>2. CASE FindsItem(w)
    BY <1>1, <2>2 DEF FindsItem
  <2>3. CASE Handles(w)
    BY <1>1, <2>3 DEF Handles
  <2>4. CASE SeesCancel(w)
    BY <1>1, <2>4 DEF SeesCancel
  <2>5. CASE TimesOut(w)
    BY <1>1, <2>5 DEF TimesOut
  <2>6. CASE TakesEntry(w)
    BY <1>1, <2>6 DEF TakesEntry
  <2>7. CASE FindsNothing(w)
    BY <1>1, <2>7 DEF FindsNothing
  <2>8. CASE Retires(w)
    BY <1>1, <2>8 DEF Retires
  <2>9. CASE Drops(w)
    BY <1>1, <2>9 DEF Drops
  <2> QED BY <1>5, <2>1, <2>2, <2>3, <2>4, <2>5, <2>6, <2>7, <2>8, <2>9 DEF WorkerStep
<1>6. CASE Shutdown
  BY <1>1, <1>6 DEF Shutdown
<1>7. CASE UNCHANGED vars
  BY <1>1, <1>7 DEF vars
<1> QED BY <1>2, <1>3, <1>4, <1>5, <1>6, <1>7 DEF Next, DispatchStep

(* Workers go on succeeding one another, whatever step is taken. *)
LEMMA SuccessionStep == IInv /\ [Next]_vars => SuccessionInv'
<1> SUFFICES ASSUME IInv, [Next]_vars PROVE SuccessionInv'
  OBVIOUS
<1>0. /\ wk \in [Workers -> WorkerStates] /\ spawned \in Nat /\ entry \in Nat /\ lock \in Nat
      /\ cancel \in BOOLEAN /\ SuccessionInv /\ LockInv
      /\ \A u \in Workers : u \in Nat \ {0}
      /\ spawned # 0 => spawned \in Workers
      /\ spawned <= MaxWorkers
  BY WorkerNumbers, MaxWorkersAssumption DEF IInv, TypeOK
<1>1. CASE DispatchSends
  BY <1>0, <1>1 DEF DispatchSends, Dispatching, SuccessionInv, Left
<1>2. CASE DispatchMisses
  BY <1>0, <1>2 DEF DispatchMisses, SuccessionInv, Left
<1>3. CASE DispatchSpawns
  <2>1. spawned + 1 \in Workers
    BY <1>0, <1>3, WorkerNumbers, MaxWorkersAssumption DEF DispatchSpawns
  <2>2. \A u \in Workers : wk'[u] = IF u = spawned + 1 THEN "recv" ELSE wk[u]
    BY <1>0, <1>3, <2>1 DEF DispatchSpawns
  <2>3. \A u \in Workers : u <= spawned => wk[u] \in Left
    BY <1>0, <1>3 DEF DispatchSpawns, SuccessionInv, Left
  <2> QED BY <1>0, <1>3, <2>1, <2>2, <2>3 DEF DispatchSpawns, SuccessionInv, Left
<1>5. ASSUME NEW w \in Workers, WorkerStep(w) PROVE SuccessionInv'
  <2>0. /\ \A v \in Workers \ {w} : wk'[v] = wk[v]
        /\ UNCHANGED <<disp, spawned, cancel>>
        /\ wk[w] # "none" /\ wk[w] # "gone"
    BY <1>5, WorkerFrame
  <2>1. CASE wk'[w] \notin Left \cup {"none"} /\ UNCHANGED entry /\ wk[w] \notin Left
    BY <1>0, <2>0, <2>1 DEF SuccessionInv, Left
  <2>2. CASE SeesCancel(w)
    BY <1>0, <2>0, <2>2 DEF SeesCancel, SuccessionInv, Left
  <2>3. CASE Drops(w)
    BY <1>0, <2>0, <2>3 DEF Drops, SuccessionInv, Left
  <2>4. CASE Retires(w)
    BY <1>0, <2>0, <2>4 DEF Retires, SuccessionInv, Left
  <2> QED
    BY <1>0, <1>5, <2>1, <2>2, <2>3, <2>4
    DEF WorkerStep, Receives, TimesOut, TakesEntry, FindsItem, FindsNothing, Handles, Left
<1>6. CASE Shutdown
  BY <1>0, <1>6 DEF Shutdown, SuccessionInv
<1>7. CASE UNCHANGED vars
  BY <1>0, <1>7 DEF vars, SuccessionInv
<1> QED BY <1>1, <1>2, <1>3, <1>5, <1>6, <1>7 DEF Next, DispatchStep

(* No step leaves an item behind in the channel of a worker that left. *)
LEMMA StrandStep == IInv /\ [Next]_vars => NoItemStranded'
<1> SUFFICES ASSUME IInv, [Next]_vars, ~cancel', NEW v \in Workers, wk'[v] \in Left
             PROVE  q'[v] = <<>>
  BY DEF NoItemStranded
<1>0. /\ wk \in [Workers -> WorkerStates] /\ q \in [Workers -> Seq(Items)]
      /\ ~cancel
  BY DEF IInv, TypeOK, Next, DispatchStep, DispatchSends, DispatchMisses, DispatchSpawns, WorkerStep,
     Receives, SeesCancel, TimesOut, TakesEntry, FindsItem, FindsNothing, Retires, Drops, Handles,
     Shutdown, vars
<1>1. wk[v] \in Left => (q[v] = <<>> /\ v # entry)
  BY <1>0 DEF IInv, NoItemStranded, SuccessionInv
<1>2. CASE DispatchSends
  BY <1>0, <1>1, <1>2 DEF DispatchSends
<1>3. CASE DispatchMisses
  BY <1>1, <1>3 DEF DispatchMisses
<1>4. CASE DispatchSpawns
  BY <1>0, <1>1, <1>4 DEF DispatchSpawns, Left
<1>5. ASSUME NEW w \in Workers, WorkerStep(w) PROVE q'[v] = <<>>
  <2>1. CASE v # w
    BY <1>1, <1>5, <2>1, WorkerFrame
  <2>2. CASE v = w /\ wk[w] \in Left
    BY <1>0, <1>1, <1>5, <2>2 DEF WorkerStep, Receives, SeesCancel, TimesOut, TakesEntry, FindsItem,
       FindsNothing, Retires, Drops, Handles, Left
  <2>3. CASE v = w /\ wk[w] \notin Left
    <3>1. Retires(w)
      BY <1>0, <1>5, <2>3 DEF WorkerStep, Receives, SeesCancel, TimesOut, TakesEntry, FindsItem,
         FindsNothing, Drops, Handles, Left
    <3> QED BY <2>3, <3>1 DEF Retires, IInv, ChannelInv
  <2> QED BY <2>1, <2>2, <2>3
<1>6. CASE Shutdown
  BY <1>1, <1>6 DEF Shutdown
<1>7. CASE UNCHANGED vars
  BY <1>1, <1>7 DEF vars
<1> QED BY <1>2, <1>3, <1>4, <1>5, <1>6, <1>7 DEF Next, DispatchStep

(* The typing facts the proofs below use. *)
LEMMA Facts ==
  ASSUME IInv
  PROVE  /\ wk \in [Workers -> WorkerStates] /\ q \in [Workers -> Seq(Items)]
         /\ cur \in [Workers -> 0 .. MaxItems]
         /\ handled \in Seq(Items) /\ Len(handled) \in Nat
         /\ sent \in Nat /\ spawned \in Nat /\ entry \in Nat
         /\ \A u \in Workers : u \in Nat \ {0} /\ Len(q[u]) \in Nat
         /\ spawned # 0 => spawned \in Workers
         /\ entry # 0 => (entry \in Workers /\ entry = spawned)
<1>1. /\ wk \in [Workers -> WorkerStates] /\ q \in [Workers -> Seq(Items)]
      /\ cur \in [Workers -> 0 .. MaxItems]
      /\ handled \in Seq(Items)
      /\ sent \in Nat /\ spawned \in Nat /\ entry \in Nat
      /\ spawned <= MaxWorkers /\ entry <= MaxWorkers
  BY MaxItemsAssumption, MaxWorkersAssumption DEF IInv, TypeOK
<1>2. \A u \in Workers : u \in Nat \ {0} /\ Len(q[u]) \in Nat
  BY <1>1, WorkerNumbers
<1>3. entry \in {0, spawned}
  BY DEF IInv, SuccessionInv
<1> QED BY <1>1, <1>2, <1>3, WorkerNumbers

(* A worker that has not left its loop is the latest one. *)
LEMMA LatestWorker ==
  ASSUME IInv, NEW w \in Workers, wk[w] \notin Left \cup {"none"}
  PROVE  w = spawned /\ \A u \in Workers \ {w} : wk[u] \in Left \cup {"none"}
  BY Facts DEF IInv, SuccessionInv, Left

(* Taking the oldest item off a channel. *)
LEMMA TakeStep ==
  ASSUME IInv, NEW w \in Workers, Receives(w) \/ FindsItem(w)
  PROVE  /\ wk[w] # "busy" /\ wk'[w] = "busy" /\ UNCHANGED handled
         /\ cur'[w] = Len(handled) + 1
         /\ Len(q'[w]) = Len(q[w]) - 1
         /\ \A i \in 1 .. Len(q'[w]) : q'[w][i] = Len(handled) + 1 + i
         /\ disp = "idle"
         /\ w = spawned
<1>1. /\ q[w] # <<>> /\ wk[w] \in {"recv", "holding"} /\ UNCHANGED handled
      /\ wk'[w] = "busy" /\ cur'[w] = Head(q[w]) /\ q'[w] = Tail(q[w])
  BY Facts DEF Receives, FindsItem
<1>2. /\ Len(q[w]) \in Nat \ {0}
      /\ Head(q[w]) = q[w][1]
      /\ Len(q'[w]) = Len(q[w]) - 1
      /\ \A i \in 1 .. Len(q'[w]) : q'[w][i] = q[w][i + 1]
  BY Facts, <1>1, HeadTail
<1>3. \A i \in 1 .. Len(q[w]) : q[w][i] = Len(handled) + i
  BY <1>1 DEF IInv, ChannelInv, Taken, Left
<1>4. cur'[w] = Len(handled) + 1
  BY <1>1, <1>2, <1>3
<1>5. ASSUME NEW i \in 1 .. Len(q'[w]) PROVE q'[w][i] = Len(handled) + 1 + i
  <2>1. i + 1 \in 1 .. Len(q[w]) /\ i \in Nat
    BY <1>2
  <2>2. q'[w][i] = q[w][i + 1]
    BY <1>2
  <2>3. q[w][i + 1] = Len(handled) + (i + 1)
    BY <1>3, <2>1
  <2>4. Len(handled) \in Nat
    BY Facts
  <2> QED BY <2>1, <2>2, <2>3, <2>4
<1>6. disp = "idle"
  BY <1>1 DEF IInv, CountInv
<1>7. w = spawned
  BY <1>1, LatestWorker DEF Left
<1> QED BY <1>1, <1>2, <1>4, <1>5, <1>6, <1>7

(* A handler returning. *)
LEMMA HandleStep ==
  ASSUME IInv, NEW w \in Workers, Handles(w)
  PROVE  /\ wk[w] = "busy" /\ wk'[w] = "recv" /\ cur'[w] = 0 /\ q'[w] = q[w]
         /\ Len(handled') = Len(handled) + 1
         /\ \A i \in 1 .. Len(handled') : handled'[i] = i
         /\ disp = "idle"
         /\ w = spawned
<1>1. /\ wk[w] = "busy" /\ wk'[w] = "recv" /\ cur'[w] = 0 /\ q'[w] = q[w]
      /\ handled' = Append(handled, cur[w])
  BY Facts DEF Handles
<1>2. cur[w] = Len(handled) + 1
  BY <1>1 DEF IInv, InHandInv
<1>3. cur[w] \in Items
  BY Facts, <1>2, MaxItemsAssumption DEF Items
<1>4. /\ Len(handled') = Len(handled) + 1
      /\ \A i \in 1 .. Len(handled) : handled'[i] = handled[i]
      /\ handled'[Len(handled) + 1] = Len(handled) + 1
  BY Facts, <1>1, <1>2, <1>3, AppendFacts
<1>5. ASSUME NEW i \in 1 .. Len(handled') PROVE handled'[i] = i
  <2>1. Len(handled) \in Nat
    BY Facts
  <2>2. CASE i \in 1 .. Len(handled)
    BY <1>4, <2>2 DEF IInv, HandledInOrder
  <2>3. CASE i = Len(handled) + 1
    BY <1>4, <2>3
  <2> QED BY <1>4, <2>1, <2>2, <2>3
<1>6. disp = "idle"
  BY <1>1 DEF IInv, CountInv
<1>7. w = spawned
  BY <1>1, LatestWorker DEF Left
<1> QED BY <1>1, <1>4, <1>5, <1>6, <1>7

(* The other steps of a worker move no item. *)
LEMMA QuietStep ==
  ASSUME IInv, NEW w \in Workers, WorkerStep(w),
         ~(Receives(w) \/ FindsItem(w)), ~Handles(w)
  PROVE  /\ UNCHANGED <<q, cur, handled>>
         /\ wk[w] # "busy" /\ wk'[w] # "busy" /\ wk'[w] # "none"
         /\ wk[w] \in Left => wk'[w] \in Left
         /\ wk'[w] = "empty" => q[w] = <<>>
  BY Facts DEF WorkerStep, SeesCancel, TimesOut, TakesEntry, FindsNothing, Retires, Drops, Left

(* A send that succeeds. *)
LEMMA SendStep ==
  ASSUME IInv, DispatchSends
  PROVE  /\ entry \in Workers /\ entry = spawned
         /\ UNCHANGED <<spawned, wk, cur, handled, cancel>>
         /\ sent' = sent + 1 /\ disp' = "idle"
         /\ \A u \in Workers \ {entry} : q'[u] = q[u]
         /\ Len(q'[entry]) = Len(q[entry]) + 1
         /\ \A i \in 1 .. Len(q[entry]) : q'[entry][i] = q[entry][i]
         /\ q'[entry][Len(q[entry]) + 1] = sent + 1
         /\ sent = Taken(entry) + Len(q[entry])
         /\ wk[entry] \notin {"none", "empty"}
<1>1. /\ entry \in Workers /\ entry = spawned
      /\ sent + 1 \in Items
      /\ UNCHANGED <<spawned, wk, cur, handled, cancel>>
      /\ sent' = sent + 1 /\ disp' = "idle"
      /\ lock = 0
  BY Facts, MaxItemsAssumption DEF DispatchSends, Dispatching, Items
<1>2. /\ \A u \in Workers \ {entry} : q'[u] = q[u]
      /\ q'[entry] = Append(q[entry], sent + 1)
  BY Facts, <1>1 DEF DispatchSends
<1>3. /\ Len(q'[entry]) = Len(q[entry]) + 1
      /\ \A i \in 1 .. Len(q[entry]) : q'[entry][i] = q[entry][i]
      /\ q'[entry][Len(q[entry]) + 1] = sent + 1
  BY Facts, <1>1, <1>2, AppendFacts
<1>4. sent = Taken(entry) + Len(q[entry])
  <2>1. CASE disp = "idle"
    BY Facts, <1>1, <2>1 DEF DispatchSends, Dispatching, IInv, CountInv
  <2>2. CASE disp # "idle"
    <3>1. sent = Len(handled) /\ q[entry] = <<>> /\ wk[entry] # "busy"
      BY <1>1, <2>2 DEF IInv, CountInv
    <3>2. Len(q[entry]) = 0 /\ Len(handled) \in Nat
      BY Facts, <3>1
    <3> QED BY <3>1, <3>2 DEF Taken
  <2> QED BY <2>1, <2>2
<1>5. wk[entry] # "empty"
  BY <1>1, WorkerNumbers DEF IInv, LockInv
<1>6. wk[entry] # "none"
  BY Facts, <1>1 DEF IInv, SuccessionInv
<1> QED BY <1>1, <1>2, <1>3, <1>4, <1>5, <1>6

(* A worker spawned: all earlier items are handled. *)
LEMMA SpawnStep ==
  ASSUME IInv, DispatchSpawns
  PROVE  /\ spawned + 1 \in Workers /\ spawned' = spawned + 1
         /\ \A u \in Workers : wk'[u] = IF u = spawned + 1 THEN "recv" ELSE wk[u]
         /\ UNCHANGED <<q, cur, handled, sent, cancel>>
         /\ sent = Len(handled)
         /\ \A u \in Workers : q[u] = <<>> /\ wk[u] # "busy" /\ cur[u] = 0
<1>1. spawned + 1 \in Workers
  BY WorkerNumbers, MaxWorkersAssumption DEF IInv, TypeOK, DispatchSpawns
<1>2. sent = Len(handled) /\ \A u \in Workers : q[u] = <<>> /\ wk[u] # "busy"
  BY DEF DispatchSpawns, IInv, CountInv
<1> QED BY Facts, <1>1, <1>2 DEF DispatchSpawns, IInv, InHandInv

(* A lookup that finds no usable worker. *)
LEMMA MissStep ==
  ASSUME IInv, DispatchMisses
  PROVE  /\ UNCHANGED <<sent, entry, spawned, wk, q, cur, handled, cancel>>
         /\ sent = Len(handled)
         /\ \A u \in Workers : q[u] = <<>> /\ wk[u] # "busy"
<1>1. UNCHANGED <<sent, entry, spawned, wk, q, cur, handled, cancel>>
  BY DEF DispatchMisses
<1>2. CASE disp = "idle"
  <2>1. ~cancel
    BY <1>2 DEF DispatchMisses, Dispatching
  <2>2. entry = 0
    BY Facts, <2>1 DEF DispatchMisses, IInv, SuccessionInv, Left
  <2>3. \A u \in Workers : wk[u] \in Left \cup {"none"}
    BY Facts, <2>2 DEF IInv, SuccessionInv
  <2>4. \A u \in Workers : q[u] = <<>> /\ wk[u] # "busy"
    BY <2>1, <2>3 DEF IInv, NoItemStranded, ChannelInv, Left
  <2>5. sent = Len(handled)
    <3>1. CASE spawned = 0
      BY <2>1, <3>1 DEF IInv, CountInv
    <3>2. CASE spawned # 0
      <4>1. spawned \in Workers /\ Len(handled) \in Nat
        BY Facts, <3>2
      <4>2. Len(q[spawned]) = 0 /\ wk[spawned] # "busy"
        BY <2>4, <4>1
      <4> QED BY <2>1, <3>2, <4>1, <4>2 DEF IInv, CountInv, Taken
    <3> QED BY <3>1, <3>2
  <2> QED BY <1>1, <2>4, <2>5
<1>3. CASE disp # "idle"
  BY <1>1, <1>3 DEF IInv, CountInv
<1> QED BY <1>2, <1>3

(* The order of the handled items survives every step. *)
LEMMA HandledStep == IInv /\ [Next]_vars => HandledInOrder'
<1> SUFFICES ASSUME IInv, [Next]_vars PROVE HandledInOrder'
  OBVIOUS
<1>1. CASE \E w \in Workers : Handles(w)
  BY <1>1, HandleStep DEF HandledInOrder
<1>2. CASE UNCHANGED handled
  BY <1>2 DEF IInv, HandledInOrder
<1> QED
  BY <1>1, <1>2 DEF Next, DispatchStep, DispatchSends, DispatchMisses, DispatchSpawns, WorkerStep,
     Receives, SeesCancel, TimesOut, TakesEntry, FindsItem, FindsNothing, Retires, Drops,
     Shutdown, vars

(* The item in hand stays the next one, whatever step is taken. *)
LEMMA InHandStep == IInv /\ [Next]_vars => InHandInv'
<1> SUFFICES ASSUME IInv, [Next]_vars, NEW v \in Workers
             PROVE  /\ wk'[v] = "busy" => cur'[v] = Len(handled') + 1
                    /\ wk'[v] # "busy" => cur'[v] = 0
  BY DEF InHandInv
<1>1. /\ wk[v] = "busy" => cur[v] = Len(handled) + 1
      /\ wk[v] # "busy" => cur[v] = 0
  BY DEF IInv, InHandInv
<1>2. CASE DispatchSends
  BY <1>1, <1>2, SendStep
<1>3. CASE DispatchMisses
  BY <1>1, <1>3, MissStep
<1>4. CASE DispatchSpawns
  BY <1>1, <1>4, SpawnStep
<1>5. ASSUME NEW w \in Workers, WorkerStep(w)
      PROVE  /\ wk'[v] = "busy" => cur'[v] = Len(handled') + 1
             /\ wk'[v] # "busy" => cur'[v] = 0
  <2>0. v # w => (wk'[v] = wk[v] /\ cur'[v] = cur[v])
    BY <1>5, WorkerFrame
  <2>1. CASE Receives(w) \/ FindsItem(w)
    BY <1>1, <2>0, <2>1, TakeStep
  <2>2. CASE Handles(w)
    <3>1. v # w => wk[v] # "busy"
      BY <2>2, HandleStep, LatestWorker DEF Left
    <3> QED BY <1>1, <2>0, <2>2, <3>1, HandleStep
  <2>3. CASE ~(Receives(w) \/ FindsItem(w)) /\ ~Handles(w)
    BY <1>1, <1>5, <2>0, <2>3, QuietStep
  <2> QED BY <2>1, <2>2, <2>3
<1>6. CASE Shutdown
  BY <1>1, <1>6 DEF Shutdown
<1>7. CASE UNCHANGED vars
  BY <1>1, <1>7 DEF vars
<1> QED BY <1>2, <1>3, <1>4, <1>5, <1>6, <1>7 DEF Next, DispatchStep

(* The channels stay consecutive, whatever step is taken. *)
LEMMA ChannelStep == IInv /\ [Next]_vars => ChannelInv'
<1>a. SUFFICES ASSUME IInv, [Next]_vars, NEW v \in Workers
             PROVE  /\ wk'[v] \in {"none", "empty"} => q'[v] = <<>>
                    /\ wk'[v] \notin Left =>
                          \A i \in 1 .. Len(q'[v]) : q'[v][i] = Taken(v)' + i
  BY DEF ChannelInv
<1> DEFINE Goal == /\ wk'[v] \in {"none", "empty"} => q'[v] = <<>>
                   /\ wk'[v] \notin Left =>
                         \A i \in 1 .. Len(q'[v]) : q'[v][i] = Taken(v)' + i
<1>1. /\ wk[v] \in {"none", "empty"} => q[v] = <<>>
      /\ wk[v] \notin Left => \A i \in 1 .. Len(q[v]) : q[v][i] = Taken(v) + i
  BY <1>a DEF IInv, ChannelInv
<1>2. CASE DispatchSends
  <2>1. CASE v # entry
    BY <1>a, <1>1, <1>2, <2>1, SendStep DEF Taken
  <2>2. CASE v = entry
    <3>0. Len(q[v]) \in Nat /\ Taken(v) \in Nat
      BY <1>a, Facts DEF Taken
    <3>1. Taken(v)' = Taken(v) /\ Taken(v) \in Nat /\ sent + 1 = Taken(v) + (Len(q[v]) + 1)
          /\ Len(q[v]) \in Nat
      <4>1. Taken(v)' = Taken(v)
        BY <1>a, <1>2, SendStep DEF Taken
      <4>2. sent = Taken(v) + Len(q[v])
        BY <1>a, <1>2, <2>2, SendStep
      <4> QED BY <3>0, <4>1, <4>2
    <3>2. ASSUME wk[v] \notin Left, NEW i \in 1 .. Len(q'[v]) PROVE q'[v][i] = Taken(v)' + i
      <4>1. CASE i \in 1 .. Len(q[v])
        BY <1>a, <1>1, <1>2, <2>2, <3>1, <3>2, <4>1, SendStep
      <4>2. CASE i = Len(q[v]) + 1
        BY <1>a, <1>2, <2>2, <3>1, <4>2, SendStep
      <4> QED BY <1>a, <1>2, <2>2, <3>1, <4>1, <4>2, SendStep
    <3>3. wk' = wk /\ wk[v] \notin {"none", "empty"}
      BY <1>a, <1>2, <2>2, SendStep
    <3> QED BY <3>2, <3>3
  <2> QED BY <2>1, <2>2
<1>3. CASE DispatchMisses
  BY <1>a, <1>1, <1>3, MissStep DEF Taken
<1>4. CASE DispatchSpawns
  <2>1. q'[v] = <<>>
    BY <1>a, <1>4, SpawnStep
  <2> QED BY <2>1
<1>5. ASSUME NEW w \in Workers, WorkerStep(w) PROVE Goal
  <2>0. v # w => (wk'[v] = wk[v] /\ q'[v] = q[v])
    BY <1>a, <1>5, WorkerFrame
  <2>1. CASE Receives(w) \/ FindsItem(w)
    BY <1>a, <1>1, <2>0, <2>1, TakeStep DEF Taken
  <2>2. CASE Handles(w)
    <3>1. CASE v # w
      <4>1. wk[v] \in Left \cup {"none"}
        BY <1>a, <2>2, <3>1, HandleStep, LatestWorker DEF Left
      <4>2. wk[v] = "none" => Len(q[v]) = 0
        BY <1>1
      <4> QED BY <1>1, <2>0, <3>1, <4>1, <4>2
    <3>2. CASE v = w
      BY <1>a, <1>1, <2>2, <3>2, HandleStep DEF Taken, Left
    <3> QED BY <3>1, <3>2
  <2>3. CASE ~(Receives(w) \/ FindsItem(w)) /\ ~Handles(w)
    BY <1>a, <1>1, <1>5, <2>0, <2>3, QuietStep DEF Taken
  <2> QED BY <2>1, <2>2, <2>3
<1>6. CASE Shutdown
  BY <1>1, <1>6 DEF Shutdown, Taken
<1>7. CASE UNCHANGED vars
  BY <1>1, <1>7 DEF vars, Taken
<1> QED BY <1>a, <1>2, <1>3, <1>4, <1>5, <1>6, <1>7 DEF Next, DispatchStep

(* No step before shutdown loses count of an item. *)
LEMMA CountStep == IInv /\ [Next]_vars => CountInv'
<1>a. SUFFICES ASSUME IInv, [Next]_vars PROVE CountInv'
  OBVIOUS
<1>0. CountInv
  BY <1>a DEF IInv
<1>2. CASE DispatchSends
  <2>1. Taken(spawned)' = Taken(spawned)
    BY <1>a, <1>2, SendStep DEF Taken
  <2>2. Taken(spawned) \in Nat /\ Len(q[spawned]) \in Nat /\ spawned # 0
    BY <1>a, <1>2, SendStep, Facts DEF Taken
  <2>3. sent' = Taken(spawned)' + Len(q'[spawned'])
    <3>1. sent' = sent + 1 /\ sent = Taken(spawned) + Len(q[spawned]) /\ spawned' = spawned
      BY <1>a, <1>2, SendStep
    <3>2. Len(q'[spawned]) = Len(q[spawned]) + 1
      BY <1>a, <1>2, SendStep
    <3> QED BY <2>1, <2>2, <3>1, <3>2
  <2> QED BY <1>a, <1>2, <2>2, <2>3, SendStep DEF CountInv
<1>3. CASE DispatchMisses
  BY <1>a, <1>0, <1>3, MissStep DEF CountInv, Taken
<1>4. CASE DispatchSpawns
  <2>1. Len(q'[spawned']) = 0 /\ Taken(spawned)' = Len(handled) /\ spawned' # 0
    BY <1>a, <1>4, SpawnStep, Facts DEF Taken
  <2>2. \A u \in Workers : q'[u] = <<>> /\ wk'[u] # "busy"
    BY <1>a, <1>4, SpawnStep
  <2> QED BY <1>a, <1>4, <2>1, <2>2, SpawnStep, Facts DEF CountInv
<1>5. ASSUME NEW w \in Workers, WorkerStep(w) PROVE CountInv'
  <2>0. /\ \A v \in Workers \ {w} : wk'[v] = wk[v] /\ q'[v] = q[v]
        /\ UNCHANGED <<disp, sent, spawned, cancel>>
    BY <1>a, <1>5, WorkerFrame
  <2>1. CASE Receives(w) \/ FindsItem(w)
    <3>1. /\ w = spawned /\ disp = "idle" /\ Taken(w)' = Taken(w) + 1 /\ Taken(w) \in Nat
          /\ Len(q'[w]) = Len(q[w]) - 1 /\ Len(q[w]) \in Nat
          /\ spawned # 0
      BY <1>a, <2>1, TakeStep, Facts DEF Taken
    <3>2. ~cancel => sent = Taken(w) + Len(q[w])
      BY <1>0, <3>1 DEF CountInv
    <3>3. ~cancel => sent = Taken(w)' + Len(q'[w])
      BY <3>1, <3>2
    <3> QED BY <2>0, <3>1, <3>3 DEF CountInv
  <2>2. CASE Handles(w)
    BY <1>a, <1>0, <2>0, <2>2, HandleStep, Facts DEF CountInv, Taken
  <2>3. CASE ~(Receives(w) \/ FindsItem(w)) /\ ~Handles(w)
    BY <1>a, <1>0, <1>5, <2>0, <2>3, QuietStep, Facts DEF CountInv, Taken
  <2> QED BY <2>1, <2>2, <2>3
<1>6. CASE Shutdown
  BY <1>0, <1>6 DEF Shutdown, CountInv, Taken
<1>7. CASE UNCHANGED vars
  BY <1>0, <1>7 DEF vars, CountInv, Taken
<1> QED BY <1>a, <1>2, <1>3, <1>4, <1>5, <1>6, <1>7 DEF Next, DispatchStep

(* Whatever the number of items and workers, IInv always holds. *)
THEOREM Inductive == Spec => []IInv
<1>1. Init => IInv
  BY InitIInv
<1>2. IInv /\ [Next]_vars => IInv'
  BY TypeStep, LockStep, SuccessionStep, HandledStep, InHandStep, ChannelStep, CountStep, StrandStep
  DEF IInv
<1> QED BY <1>1, <1>2, PTL DEF Spec

(* The handlers of one Call-ID never run on two tasks at once. *)
THEOREM SerialHandlers == Spec => []OneHandlerAtATime
<1>1. IInv => OneHandlerAtATime
  BY LatestWorker DEF OneHandlerAtATime, Left
<1> QED BY <1>1, Inductive, PTL

(* Before shutdown no item is left in a queue nobody drains. *)
THEOREM NothingStranded == Spec => []NoItemStranded
<1>1. IInv => NoItemStranded
  BY DEF IInv
<1> QED BY <1>1, Inductive, PTL

(* Items are handled in the order they were dispatched. *)
THEOREM FifoOrder == Spec => []HandledInOrder
<1>1. IInv => HandledInOrder
  BY DEF IInv
<1> QED BY <1>1, Inductive, PTL

(* The initial state is an initial state of the abstract queue. *)
LEMMA InitRefines == Init => Abstract!Init
  BY DEF Init, Abstract!Init, QueueBar, ServingBar

(* Every step is a step of the abstract queue or leaves it as it is. *)
LEMMA StepRefines == IInv /\ [Next]_vars => [Abstract!Next]_(Abstract!vars)
<1>a. SUFFICES ASSUME IInv, [Next]_vars
               PROVE  Abstract!Next \/ UNCHANGED Abstract!vars
  OBVIOUS
<1>1. CASE DispatchSends
  <2>1. CASE wk[entry] \in Left
    <3>1. UNCHANGED <<QueueBar, ServingBar, handled, cancel>>
      BY <1>a, <1>1, <2>1, SendStep DEF QueueBar, ServingBar
    <3> QED BY <3>1 DEF Abstract!vars
  <2>2. CASE wk[entry] \notin Left
    <3>1. sent + 1 \in Items
      BY <1>a, <1>1, Facts, MaxItemsAssumption DEF DispatchSends, Dispatching, Items
    <3>2. q' = [q EXCEPT ![entry] = Append(q[entry], sent + 1)] /\ entry # 0
      BY <1>1 DEF DispatchSends
    <3>3. QueueBar' = Append(QueueBar, sent + 1)
      BY <1>a, <1>1, <2>2, <3>2, SendStep, Facts DEF QueueBar
    <3>4. UNCHANGED <<ServingBar, handled, cancel>>
      BY <1>a, <1>1, SendStep DEF ServingBar
    <3>5. Abstract!Enqueue(sent + 1)
      BY <3>3, <3>4 DEF Abstract!Enqueue
    <3> QED BY <3>1, <3>5 DEF Abstract!Next
  <2> QED BY <2>1, <2>2
<1>2. CASE DispatchMisses
  BY <1>a, <1>2, MissStep DEF QueueBar, ServingBar, Abstract!vars
<1>3. CASE DispatchSpawns
  <2>1. QueueBar = <<>> /\ ServingBar = 0
    BY <1>a, <1>3, SpawnStep, Facts DEF QueueBar, ServingBar
  <2>2. QueueBar' = <<>> /\ ServingBar' = 0
    BY <1>a, <1>3, SpawnStep, Facts DEF QueueBar, ServingBar
  <2> QED BY <1>a, <1>3, <2>1, <2>2, SpawnStep DEF Abstract!vars
<1>4. ASSUME NEW w \in Workers, WorkerStep(w)
      PROVE  Abstract!Next \/ UNCHANGED Abstract!vars
  <2>0. /\ UNCHANGED <<spawned, cancel>> /\ spawned \in Nat /\ w # 0
        /\ \A v \in Workers \ {w} : wk'[v] = wk[v] /\ q'[v] = q[v] /\ cur'[v] = cur[v]
        /\ spawned # 0 => spawned \in Workers
    BY <1>a, <1>4, WorkerFrame, Facts
  <2>1. CASE Receives(w) \/ FindsItem(w)
    <3>1. /\ q[w] # <<>> /\ wk[w] \notin Left /\ wk'[w] \notin Left /\ UNCHANGED handled
          /\ cur'[w] = Head(q[w]) /\ q'[w] = Tail(q[w])
      BY <1>a, <2>1, Facts DEF Receives, FindsItem, Left
    <3>2. w = spawned /\ wk[w] # "busy"
      BY <1>a, <2>1, TakeStep
    <3>3. cur[w] = 0
      BY <1>a, <3>2 DEF IInv, InHandInv
    <3>4. QueueBar = q[w] /\ ServingBar = 0 /\ QueueBar' = q'[w] /\ ServingBar' = cur'[w]
      BY <2>0, <3>1, <3>2, <3>3 DEF QueueBar, ServingBar
    <3>5. Abstract!Serve
      BY <2>0, <3>1, <3>4 DEF Abstract!Serve
    <3> QED BY <3>5 DEF Abstract!Next
  <2>2. CASE Handles(w)
    <3>1. /\ w = spawned /\ handled' = Append(handled, cur[w]) /\ cur'[w] = 0 /\ q'[w] = q[w]
          /\ wk[w] = "busy" /\ wk'[w] = "recv"
      BY <1>a, <2>2, HandleStep DEF Handles
    <3>2. cur[w] # 0
      BY <1>a, <3>1, Facts DEF IInv, InHandInv
    <3>3. ServingBar = cur[w] /\ ServingBar' = 0 /\ QueueBar' = QueueBar
      BY <2>0, <3>1 DEF QueueBar, ServingBar, Left
    <3>4. Abstract!Finish
      BY <2>0, <3>1, <3>2, <3>3 DEF Abstract!Finish
    <3> QED BY <3>4 DEF Abstract!Next
  <2>3. CASE ~(Receives(w) \/ FindsItem(w)) /\ ~Handles(w)
    <3>1. UNCHANGED <<q, cur, handled>> /\ (wk[w] \in Left => wk'[w] \in Left)
      BY <1>a, <1>4, <2>3, QuietStep
    <3>2. ServingBar' = ServingBar
      BY <2>0, <3>1 DEF ServingBar
    <3>3. CASE QueueBar' = QueueBar
      BY <2>0, <3>1, <3>2, <3>3 DEF Abstract!vars
    <3>4. CASE QueueBar' # QueueBar
      <4>1. /\ w = spawned /\ wk[w] \notin Left /\ wk'[w] \in Left
            /\ q[w] # <<>> /\ QueueBar' = <<>>
        BY <2>0, <3>1, <3>4 DEF QueueBar
      <4>2. cancel
        BY <1>a, <1>4, <2>3, <4>1, Facts
        DEF WorkerStep, SeesCancel, TimesOut, TakesEntry, FindsNothing, Retires, Drops, Left,
            IInv, ChannelInv
      <4>3. Abstract!Discard
        BY <2>0, <3>1, <3>2, <4>1, <4>2 DEF Abstract!Discard
      <4> QED BY <4>3 DEF Abstract!Next
    <3> QED BY <3>3, <3>4
  <2> QED BY <2>1, <2>2, <2>3
<1>5. CASE Shutdown
  <2>1. Abstract!Close
    BY <1>5 DEF Shutdown, Abstract!Close, QueueBar, ServingBar
  <2> QED BY <2>1 DEF Abstract!Next
<1>6. CASE UNCHANGED vars
  BY <1>6 DEF vars, Abstract!vars, QueueBar, ServingBar
<1> QED BY <1>a, <1>1, <1>2, <1>3, <1>4, <1>5, <1>6 DEF Next, DispatchStep

(* The per-Call-ID workers implement a FIFO with a single server: what     *)
(* dispatch promises, for every number of items and worker generations.    *)
THEOREM WorkersRefineQueue == Spec => ImplementsCallQueue
<1>1. Spec => []IInv
  BY Inductive
<1> QED BY <1>1, InitRefines, StepRefines, PTL DEF Spec, ImplementsCallQueue, Abstract!Spec

-----------------------------------------------------------------------------
(* The dialogs *)

IsInvite(item) == item.k \in {"INVITE", "REINVITE"}

\* A queued INVITE names its transaction; an in-dialog request or a timer event
\* names a dialog; an ACK one or the other.
GoodItems ==
    {item \in ItemSet :
        /\ IsInvite(item) => item.br \in Branches
        /\ item.k \in {"REINVITE", "UPDATE", "BYE", "AckTimeout", "SessionExpired",
                       "MaxDurationReached"} => item.tag \in Tags
        /\ item.k = "ACK" => item.tag \in Tags \/ item.br \in Branches}

Whys == {"answered", "ack_timeout", "session_expired", "stale_expiry", "max_duration"}
JobSet == [pc : Points, item : ItemSet, media : BOOLEAN]
LoopSet == [st : {"free", "run", "expired", "removing", "sending", "over"},
            tag : 0 .. MaxInvites, dead : BOOLEAN, late : BOOLEAN]
TimerSet == [gen : Nat, id : Nat, asleep : BOOLEAN]

Owners == {t \in Tags : dlg[t] # "none" /\ media[t]}

\* An INVITE of branch b waits in line, or is the one the worker handles.
WaitsIn(line, b) == \E i \in 1 .. Len(line) : IsInvite(line[i]) /\ line[i].br = b
InHand(b) == job.pc \notin {"idle", "arm", "rearm"} /\ IsInvite(job.item) /\ job.item.br = b

ArrivalsInv ==
    /\ admitted \in 0 .. MaxInvites
    /\ arrivals \in 0 .. MaxArrivals
    /\ cancelled \subseteq Branches

ItemsInv == queue \in Seq(GoodItems) /\ internal \in Seq(GoodItems)

\* What the worker holds at each point of a handler.
JobInv ==
    /\ job \in JobSet
    /\ job.pc = "idle" => job = Idle
    /\ job.pc # "idle" => job.item \in GoodItems
    /\ job.pc \in {"admit", "second", "tag", "attach"} \cup Making => job.item.k = "INVITE"
    /\ job.pc \in {"admit", "reneg", "rearm"} \cup Making => job.media = FALSE
    /\ job.pc \in {"reneg", "rearm"} => job.item.k \in {"REINVITE", "UPDATE"}

\* The dialog a handler works on is live, or was cut off at this point or before.
StageInv ==
    /\ cut \in [Tags -> Points]
    /\ job.pc \in Making => made # 0
    /\ job.pc = "cdr" => cdr[made] = "none" /\ (dlg[made] = "none" => cut[made] = "cdr")
    /\ job.pc = "answer" => (dlg[made] = "none" => cut[made] \in {"cdr", "answer"})
    /\ job.pc = "arm" => (dlg[made] = "none" => cut[made] \in Making)
    /\ job.pc = "reneg" => (dlg[job.item.tag] = "none" => cut[job.item.tag] = "reneg")
    /\ job.pc = "rearm" => (dlg[job.item.tag] = "none" => cut[job.item.tag] \in {"reneg", "rearm"})

\* An INVITE transaction that has no final response yet is in the queue or in hand.
WaitInv ==
    /\ txn \in [Branches -> {"none", "Proceeding", "Completed"}]
    /\ \A b \in Branches : txn[b] = "Proceeding" => WaitsIn(queue, b) \/ InHand(b)

RecInv ==
    /\ dlg \in [Tags -> {"none", "Early", "Confirmed"}]
    /\ branch \in [Tags -> Branches \cup {"none"}]
    /\ media \in [Tags -> BOOLEAN]
    /\ made \in 0 .. MaxInvites

LoopInv ==
    /\ loop \in [Loops -> LoopSet]
    /\ handle \in [Tags -> 0 .. MaxInvites]
    /\ \A l \in Loops : loop[l].st \notin {"free", "over"} => loop[l].tag \in Tags

TimerInv ==
    /\ timer \in [Tags -> TimerSet]
    /\ armings \in [Tags -> Nat]
    /\ guard \subseteq Tags

\* The CDR entry is opened after the record, and the row is written with the
\* one ending and its BYE, if the entry was there.
LifeInv ==
    /\ cdr \in [Tags -> {"none", "pending", "row"}]
    /\ byes \in [Tags -> Nat]
    /\ ends \in [Tags -> Seq(Whys)]
    /\ \A t \in Tags :
           /\ t > made => dlg[t] = "none" /\ cdr[t] = "none"
           /\ t > made \/ dlg[t] # "none" => ends[t] = <<>> /\ byes[t] = 0 /\ cdr[t] # "row"
           /\ dlg[t] # "none" /\ cdr[t] = "none" => job.pc = "cdr" /\ t = made
           /\ t <= made /\ dlg[t] = "none" => Len(ends[t]) = 1 /\ byes[t] <= 1
           /\ t <= made /\ dlg[t] = "none" /\ cut[t] # "cdr" => cdr[t] = "row"

\* What is armed for a dialog that is gone was armed by the handler it was cut off in.
ArmedInv ==
    \A t \in Tags : dlg[t] = "none" =>
        /\ handle[t] # 0 => cut[t] \in {"cdr", "answer", "reneg"}
        /\ timer[t].gen # 0 => cut[t] \in Making \cup {"reneg", "rearm"}
        /\ t \in guard => cut[t] \in Making

MediaInv == live = Cardinality(Owners) + (IF job.media THEN 1 ELSE 0)

AckInv ==
    /\ acked \subseteq Tags
    /\ \A t \in acked : t <= made /\ dlg[t] # "Early"
    /\ \A t \in acked : \A i \in 1 .. Len(ends[t]) : ends[t][i] # "ack_timeout"

DialogInv ==
    /\ ArrivalsInv
    /\ ItemsInv
    /\ JobInv
    /\ StageInv
    /\ WaitInv
    /\ RecInv
    /\ LoopInv
    /\ TimerInv
    /\ LifeInv
    /\ ArmedInv
    /\ MediaInv
    /\ AckInv

-----------------------------------------------------------------------------
(* The worker's queue: what its head carries, and what an append and a     *)
(* removal do to the INVITEs that wait in it.                              *)
LEMMA QueueHead ==
  ASSUME NEW line \in Seq(GoodItems), line # <<>>
  PROVE  /\ Head(line) \in GoodItems
         /\ Tail(line) \in Seq(GoodItems)
         /\ \A b : WaitsIn(line, b) => (IsInvite(Head(line)) /\ Head(line).br = b) \/ WaitsIn(Tail(line), b)
<1>1. Head(line) \in GoodItems /\ Tail(line) \in Seq(GoodItems) /\ Head(line) = line[1]
      /\ Len(line) \in Nat \ {0}
  OBVIOUS
<1>2. ASSUME NEW b, WaitsIn(line, b), ~(IsInvite(Head(line)) /\ Head(line).br = b)
      PROVE  WaitsIn(Tail(line), b)
  <2>1. PICK i \in 1 .. Len(line) : IsInvite(line[i]) /\ line[i].br = b
    BY <1>2 DEF WaitsIn
  <2>2. i # 1
    BY <1>1, <1>2, <2>1
  <2>3. i - 1 \in 1 .. Len(Tail(line)) /\ Tail(line)[i - 1] = line[i]
    BY <1>1, <2>2
  <2> QED
    BY <2>1, <2>3 DEF WaitsIn
<1> QED
  BY <1>1, <1>2

LEMMA QueueAppend ==
  ASSUME NEW line \in Seq(GoodItems), NEW item \in GoodItems
  PROVE  /\ Append(line, item) \in Seq(GoodItems)
         /\ \A b : WaitsIn(line, b) => WaitsIn(Append(line, item), b)
         /\ IsInvite(item) => WaitsIn(Append(line, item), item.br)
<1>1. /\ Append(line, item) \in Seq(GoodItems)
      /\ Len(line) \in Nat
      /\ Len(Append(line, item)) = Len(line) + 1
      /\ Append(line, item)[Len(line) + 1] = item
      /\ \A i \in 1 .. Len(line) : Append(line, item)[i] = line[i]
  OBVIOUS
<1>2. ASSUME NEW b, WaitsIn(line, b)
      PROVE  WaitsIn(Append(line, item), b)
  <2>1. PICK i \in 1 .. Len(line) : IsInvite(line[i]) /\ line[i].br = b
    BY <1>2 DEF WaitsIn
  <2>2. i \in 1 .. Len(Append(line, item)) /\ Append(line, item)[i] = line[i]
    BY <1>1
  <2> QED
    BY <2>1, <2>2 DEF WaitsIn
<1>3. IsInvite(item) => WaitsIn(Append(line, item), item.br)
  <2>1. Len(line) + 1 \in 1 .. Len(Append(line, item))
    BY <1>1
  <2> QED
    BY <1>1, <2>1 DEF WaitsIn
<1> QED
  BY <1>1, <1>2, <1>3

(* An event of a timer of dialog t is an item the worker can handle. *)
LEMMA EventIsGood ==
  ASSUME NEW k \in {"AckTimeout", "SessionExpired", "MaxDurationReached"}, NEW t \in Tags,
         NEW g \in Nat, NEW i \in Nat
  PROVE  Event(k, t, g, i) \in GoodItems
BY BoundsAssumption DEF Event, GoodItems, ItemSet, IsInvite, Tags, AllMethods, Branches

(* The dialogs that own an endpoint are finitely many. *)
LEMMA OwnersFinite == IsFiniteSet(Owners) /\ Cardinality(Owners) \in Nat
<1>1. IsFiniteSet(1 .. MaxInvites)
  BY FS_Interval, BoundsAssumption
<1>2. Owners \in SUBSET (1 .. MaxInvites)
  BY DEF Owners, Tags
<1>3. IsFiniteSet(Owners)
  BY <1>1, <1>2, FS_Subset
<1> QED
  BY <1>3, FS_CardinalityType

(* A part of the invariant holds on as long as the variables it is about   *)
(* do not change.                                                          *)
LEMMA Undisturbed ==
  ASSUME DialogInv
  PROVE  /\ UNCHANGED <<admitted, arrivals, cancelled>> => ArrivalsInv'
         /\ UNCHANGED <<queue, internal>> => ItemsInv'
         /\ UNCHANGED job => JobInv'
         /\ UNCHANGED <<job, made, dlg, cdr, cut>> => StageInv'
         /\ UNCHANGED <<txn, queue, job>> => WaitInv'
         /\ UNCHANGED <<dlg, branch, media, made>> => RecInv'
         /\ UNCHANGED <<loop, handle>> => LoopInv'
         /\ UNCHANGED <<timer, armings, guard>> => TimerInv'
         /\ /\ UNCHANGED <<cdr, byes, ends, cut, dlg, made>>
            /\ (UNCHANGED job \/ job.pc # "cdr")
            => LifeInv'
         /\ UNCHANGED <<dlg, cut, handle, timer, guard>> => ArmedInv'
         /\ UNCHANGED <<live, dlg, media, job>> => MediaInv'
         /\ UNCHANGED <<acked, made, dlg, ends>> => AckInv'
<1>1. UNCHANGED <<admitted, arrivals, cancelled>> => ArrivalsInv'
  BY DEF DialogInv, ArrivalsInv
<1>2. UNCHANGED <<queue, internal>> => ItemsInv'
  BY DEF DialogInv, ItemsInv
<1>3. UNCHANGED job => JobInv'
  BY DEF DialogInv, JobInv
<1>31. UNCHANGED <<job, made, dlg, cdr, cut>> => StageInv'
  BY DEF DialogInv, StageInv
<1>4. UNCHANGED <<txn, queue, job>> => WaitInv'
  BY DEF DialogInv, WaitInv, InHand
<1>5. UNCHANGED <<dlg, branch, media, made>> => RecInv'
  BY DEF DialogInv, RecInv
<1>6. UNCHANGED <<loop, handle>> => LoopInv'
  BY DEF DialogInv, LoopInv
<1>7. UNCHANGED <<timer, armings, guard>> => TimerInv'
  BY DEF DialogInv, TimerInv
<1>8. /\ UNCHANGED <<cdr, byes, ends, cut, dlg, made>>
      /\ (UNCHANGED job \/ job.pc # "cdr")
      => LifeInv'
  BY DEF DialogInv, LifeInv
<1>9. UNCHANGED <<dlg, cut, handle, timer, guard>> => ArmedInv'
  BY DEF DialogInv, ArmedInv
<1>10. UNCHANGED <<live, dlg, media, job>> => MediaInv'
  BY DEF DialogInv, MediaInv, Owners
<1>11. UNCHANGED <<acked, made, dlg, ends>> => AckInv'
  BY DEF DialogInv, AckInv
<1> QED
  BY <1>1, <1>2, <1>3, <1>31, <1>4, <1>5, <1>6, <1>7, <1>8, <1>9, <1>10, <1>11

(* Nothing has arrived yet. *)
LEMMA DialogInitInv == DialogInit => DialogInv
<1> SUFFICES ASSUME DialogInit PROVE DialogInv
  OBVIOUS
<1> USE DEF DialogInit
<1>1. ArrivalsInv /\ ItemsInv /\ RecInv /\ TimerInv /\ ArmedInv /\ AckInv
  BY BoundsAssumption DEF ArrivalsInv, ItemsInv, RecInv, TimerInv, ArmedInv, AckInv, TimerSet,
     NoTimer, Tags
<1>2. JobInv /\ StageInv
  BY BoundsAssumption DEF JobInv, StageInv, JobSet, Idle, Request, ItemSet, AllMethods, Points,
     Making
<1>3. WaitInv
  BY DEF WaitInv
<1>4. LoopInv
  <2>3. loop \in [Loops -> LoopSet]
    BY BoundsAssumption DEF LoopSet, NoLoop
  <2>4. \A l \in Loops : loop[l].st = "free"
    BY DEF NoLoop
  <2> QED
    BY <2>3, <2>4, BoundsAssumption DEF LoopInv
<1>5. LifeInv
  BY DEF LifeInv, Tags
<1>6. MediaInv
  <2>1. Owners = {}
    BY DEF Owners
  <2>2. Cardinality(Owners) = 0
    BY <2>1, FS_EmptySet
  <2> QED
    BY <2>2 DEF MediaInv, Idle
<1> QED
  BY <1>1, <1>2, <1>3, <1>4, <1>5, <1>6 DEF DialogInv

(* A handler that has no dialog in the table yet, or is done. *)
LEMMA NoDialogYet ==
  ASSUME DialogInv, UNCHANGED cut, job'.pc \in {"idle", "admit", "second", "tag", "attach"}
  PROVE  StageInv'
BY DEF DialogInv, StageInv, Making

LEMMA IdleJob == Idle \in JobSet /\ Idle.pc = "idle" /\ Idle.media = FALSE
BY BoundsAssumption DEF JobSet, Idle, Request, ItemSet, Points

(* The worker takes an item: it is idle, the item is good, and an INVITE   *)
(* that was queued is the item or still queued.                            *)
LEMMA TakeKeeps ==
  ASSUME DialogInv, NEW k, Take(k), UNCHANGED internal
  PROVE  /\ ItemsInv'
         /\ job = Idle
         /\ Head(queue) \in GoodItems /\ Head(queue).k = k
         /\ \A b \in Branches : txn[b] = "Proceeding" =>
                (IsInvite(Head(queue)) /\ Head(queue).br = b) \/ WaitsIn(queue', b)
<1>1. queue \in Seq(GoodItems) /\ internal \in Seq(GoodItems) /\ queue # <<>>
  BY DEF Take, DialogInv, ItemsInv
<1>2. job = Idle /\ ~(job.pc # "idle")
  BY DEF Take, DialogInv, JobInv
<1>3. \A b \in Branches : txn[b] = "Proceeding" => WaitsIn(queue, b)
  BY <1>2 DEF DialogInv, WaitInv, InHand, Idle
<1> QED
  BY <1>1, <1>2, <1>3, QueueHead DEF Take, ItemsInv

(* A request reaches the queue; nothing that waited is lost. *)
LEMMA EnqueueKeeps ==
  ASSUME DialogInv, NEW item \in GoodItems, Enqueue(item)
  PROVE  /\ queue' \in Seq(GoodItems)
         /\ \A b : WaitsIn(queue, b) => WaitsIn(queue', b)
         /\ IsInvite(item) => WaitsIn(queue', item.br)
BY QueueAppend DEF DialogInv, ItemsInv, Enqueue

LEMMA EnqueueWaits ==
  ASSUME DialogInv, NEW item \in GoodItems, Enqueue(item), UNCHANGED <<txn, job>>
  PROVE  WaitInv'
BY EnqueueKeeps DEF DialogInv, WaitInv, InHand

-----------------------------------------------------------------------------
(* The 2xx retransmit loops. *)
LEMMA LoopMoves ==
  ASSUME DialogInv, NEW l \in Loops, NEW r \in LoopSet,
         loop' = [loop EXCEPT ![l] = r], loop[l].st # "free", r.st # "free",
         r.st # "over" => r.tag \in Tags,
         handle' \in [Tags -> 0 .. MaxInvites]
  PROVE  LoopInv'
<1>1. loop' \in [Loops -> LoopSet] /\ \A m \in Loops : loop'[m] = IF m = l THEN r ELSE loop[m]
  BY DEF DialogInv, LoopInv
<1>2. \A m \in Loops : loop'[m].st \notin {"free", "over"} => loop'[m].tag \in Tags
  BY <1>1 DEF DialogInv, LoopInv
<1> QED
  BY <1>1, <1>2 DEF DialogInv, LoopInv

LEMMA OverIsLoop == Over \in LoopSet /\ Over.st = "over"
<1>1. NoLoop \in LoopSet
  BY BoundsAssumption DEF NoLoop, LoopSet
<1> QED
  BY <1>1 DEF Over, LoopSet

(* A token is tripped; the loop itself goes on to see it. *)
LEMMA LoopCancelKeeps ==
  ASSUME DialogInv, NEW t \in Tags, CancelInvite2xxRetransmit(t)
  PROVE  LoopInv' /\ handle' = [handle EXCEPT ![t] = 0]
<1>1. loop \in [Loops -> LoopSet] /\ handle \in [Tags -> 0 .. MaxInvites]
  BY DEF DialogInv, LoopInv
<1>2. /\ loop' \in [Loops -> LoopSet]
      /\ \A m \in Loops : loop'[m].st = loop[m].st /\ loop'[m].tag = loop[m].tag
  BY <1>1 DEF CancelInvite2xxRetransmit, LoopSet
<1>3. handle' \in [Tags -> 0 .. MaxInvites]
  BY <1>1, BoundsAssumption DEF CancelInvite2xxRetransmit
<1> QED
  BY <1>2, <1>3 DEF DialogInv, LoopInv, CancelInvite2xxRetransmit

LEMMA SpawnKeeps ==
  ASSUME DialogInv, NEW t \in Tags, SpawnInvite2xxRetransmit(t)
  PROVE  LoopInv' /\ \A u \in Tags : u # t => handle'[u] = handle[u]
<1>1. PICK l \in Loops :
        /\ loop[l].st = "free"
        /\ loop' = [m \in Loops |->
                      IF m = l THEN [NoLoop EXCEPT !.st = "run", !.tag = t]
                      ELSE IF m = handle[t] THEN [loop[m] EXCEPT !.dead = TRUE]
                      ELSE loop[m]]
        /\ handle' = [handle EXCEPT ![t] = l]
  BY DEF SpawnInvite2xxRetransmit
<1>2. loop \in [Loops -> LoopSet] /\ handle \in [Tags -> 0 .. MaxInvites]
  BY DEF DialogInv, LoopInv
<1>3. l \in 0 .. MaxInvites /\ t \in 0 .. MaxInvites
  BY BoundsAssumption DEF Loops, Tags
<1>4. /\ loop' \in [Loops -> LoopSet]
      /\ loop'[l].st = "run" /\ loop'[l].tag = t
      /\ \A m \in Loops \ {l} : loop'[m].st = loop[m].st /\ loop'[m].tag = loop[m].tag
  BY <1>1, <1>2, <1>3 DEF LoopSet, NoLoop
<1>5. handle' \in [Tags -> 0 .. MaxInvites] /\ \A u \in Tags : u # t => handle'[u] = handle[u]
  BY <1>1, <1>2, <1>3
<1>10. \A m \in Loops : loop'[m].st \notin {"free", "over"} => loop'[m].tag \in Tags
  BY <1>4 DEF DialogInv, LoopInv
<1> QED
  BY <1>4, <1>5, <1>10 DEF LoopInv

-----------------------------------------------------------------------------
(* teardown of a live dialog, by its worker or by its partner's: the loop, *)
(* the timers and the endpoint go with it, its one ending is recorded, and *)
(* so is the point at which its worker was.                                *)
LEMMA TeardownKeeps ==
  ASSUME DialogInv, NEW t \in Tags, NEW why \in Whys, NEW sendBye \in BOOLEAN,
         dlg[t] # "none", why = "ack_timeout" => dlg[t] = "Early",
         Teardown(t, why, sendBye), UNCHANGED <<job, branch, media, made, acked>>
  PROVE  JobInv' /\ StageInv' /\ RecInv' /\ LoopInv' /\ TimerInv' /\ LifeInv' /\ ArmedInv' /\ MediaInv'
         /\ AckInv'
<1>1. JobInv'
  BY DEF DialogInv, JobInv
<1>2. RecInv' /\ dlg' = [dlg EXCEPT ![t] = "none"]
  BY DEF DialogInv, RecInv, Teardown
<1>3. LoopInv' /\ handle' = [handle EXCEPT ![t] = 0]
  BY LoopCancelKeeps DEF Teardown
<1>4. TimerInv' /\ timer' = [timer EXCEPT ![t] = NoTimer] /\ guard' = guard \ {t}
  BY DEF DialogInv, TimerInv, Teardown, CancelSessionTimer, NoTimer, TimerSet
<1>5. /\ cdr[t] # "row" /\ ends[t] = <<>> /\ byes[t] = 0
      /\ cdr[t] = "none" => job.pc = "cdr" /\ t = made
  BY DEF DialogInv, LifeInv
<1>51. /\ cut' = [cut EXCEPT ![t] = At(t)] /\ At(t) \in Points
       /\ cut' \in [Tags -> Points]
       /\ \A u \in Tags : cut'[u] = IF u = t THEN At(t) ELSE cut[u]
       /\ cdr[t] = "none" => At(t) = "cdr"
       /\ cut \in [Tags -> Points]
  <2>1. At(t) \in Points
    BY DEF At, Points, Making, DialogInv, JobInv, JobSet
  <2>2. cdr[t] = "none" => At(t) = "cdr"
    BY <1>5 DEF At, Making
  <2> QED
    BY <2>1, <2>2 DEF Teardown, DialogInv, StageInv
<1>6. /\ cdr' = [cdr EXCEPT ![t] = IF cdr[t] = "pending" THEN "row" ELSE cdr[t]]
      /\ ends' = [ends EXCEPT ![t] = <<why>>]
      /\ byes' \in [Tags -> Nat]
      /\ byes'[t] <= 1
      /\ \A u \in Tags : u # t => byes'[u] = byes[u]
  <2>1. ends' = [ends EXCEPT ![t] = Append(ends[t], why)] /\ Append(ends[t], why) = <<why>>
    BY <1>5 DEF Teardown
  <2>2. byes' \in [Tags -> Nat] /\ byes'[t] <= 1 /\ \A u \in Tags : u # t => byes'[u] = byes[u]
    <3>1. CASE sendBye
      BY <3>1, <1>5 DEF Teardown, DialogInv, LifeInv
    <3>2. CASE ~sendBye
      BY <3>2, <1>5 DEF Teardown, DialogInv, LifeInv
    <3> QED
      BY <3>1, <3>2
  <2> QED
    BY <1>5, <2>1, <2>2 DEF Teardown
<1>7. <<why>> \in Seq(Whys) /\ Len(<<why>>) = 1 /\ <<why>>[1] = why
  OBVIOUS
<1>8. ends' \in [Tags -> Seq(Whys)]
      /\ \A u \in Tags : ends'[u] = IF u = t THEN <<why>> ELSE ends[u]
  BY <1>6, <1>7 DEF DialogInv, LifeInv
<1>9. LifeInv'
  <2>1. /\ cdr' \in [Tags -> {"none", "pending", "row"}]
        /\ \A u \in Tags : u # t => cdr'[u] = cdr[u]
        /\ cdr[t] = "none" \/ cdr'[t] = "row"
    BY <1>5, <1>6 DEF DialogInv, LifeInv
  <2>2. t <= made
    BY BoundsAssumption DEF DialogInv, LifeInv, RecInv, Tags
  <2>3. ASSUME NEW u \in Tags
        PROVE  /\ u > made' => dlg'[u] = "none" /\ cdr'[u] = "none"
               /\ u > made' \/ dlg'[u] # "none" => ends'[u] = <<>> /\ byes'[u] = 0 /\ cdr'[u] # "row"
               /\ dlg'[u] # "none" /\ cdr'[u] = "none" => job'.pc = "cdr" /\ u = made'
               /\ u <= made' /\ dlg'[u] = "none" => Len(ends'[u]) = 1 /\ byes'[u] <= 1
               /\ u <= made' /\ dlg'[u] = "none" /\ cut'[u] # "cdr" => cdr'[u] = "row"
    <3>1. CASE u = t
      <4>1. /\ dlg'[u] = "none" /\ Len(ends'[u]) = 1 /\ byes'[u] <= 1
            /\ cut'[u] # "cdr" => cdr'[u] = "row"
        BY <3>1, <1>2, <1>51, <1>6, <1>7, <1>8, <2>1 DEF DialogInv, RecInv
      <4>2. ~(u > made')
        BY <3>1, <2>2, BoundsAssumption DEF DialogInv, RecInv, Tags
      <4> QED
        BY <4>1, <4>2
    <3>2. CASE u # t
      <4>1. /\ dlg'[u] = dlg[u] /\ cdr'[u] = cdr[u] /\ ends'[u] = ends[u] /\ byes'[u] = byes[u]
            /\ cut'[u] = cut[u]
        BY <3>2, <1>2, <1>51, <1>6, <1>8, <2>1 DEF DialogInv, RecInv
      <4> QED
        BY <4>1 DEF DialogInv, LifeInv
    <3> QED
      BY <3>1, <3>2
  <2> QED
    BY <1>6, <1>8, <2>1, <2>3 DEF LifeInv
<1>91. StageInv'
  <2>1. /\ \A u \in Tags : u # t => dlg'[u] = dlg[u] /\ cdr'[u] = cdr[u] /\ cut'[u] = cut[u]
        /\ dlg'[t] = "none" /\ cut'[t] = At(t) /\ (cdr[t] = "none" => cdr'[t] = "none")
    BY <1>2, <1>51, <1>6 DEF DialogInv, RecInv, LifeInv
  <2>2. job.pc \in Making => made \in Tags
    BY BoundsAssumption DEF DialogInv, StageInv, RecInv, Tags
  <2>3. job.pc \in {"reneg", "rearm"} => job.item.tag \in Tags
    BY DEF DialogInv, JobInv, GoodItems
  <2>4. /\ job.pc \in Making /\ t = made => At(t) = job.pc
        /\ job.pc \in {"reneg", "rearm"} /\ t = job.item.tag => At(t) = job.pc
    BY DEF At, Item
  <2> QED
    BY <2>1, <2>2, <2>3, <2>4, <1>51 DEF DialogInv, StageInv, Making
<1>10. ArmedInv'
  BY <1>2, <1>3, <1>4, <1>51 DEF DialogInv, ArmedInv, RecInv, LoopInv, TimerInv, NoTimer
<1>11. MediaInv'
  <2>1. Owners' = Owners \ {t}
    BY <1>2 DEF Owners, DialogInv, RecInv
  <2>2. t \in Owners <=> media[t]
    BY DEF Owners
  <2>3. Cardinality(Owners') = IF media[t] THEN Cardinality(Owners) - 1 ELSE Cardinality(Owners)
    BY <2>1, <2>2, OwnersFinite, FS_RemoveElement
  <2>4. live = Cardinality(Owners) + (IF job.media THEN 1 ELSE 0) /\ Cardinality(Owners) \in Nat
    BY OwnersFinite DEF DialogInv, MediaInv
  <2>5. live' = IF media[t] THEN live - 1 ELSE live
    BY DEF Teardown
  <2> QED
    BY <2>3, <2>4, <2>5 DEF MediaInv
<1>12. AckInv'
  <2>1. t \in acked => why # "ack_timeout"
    BY DEF DialogInv, AckInv
  <2>2. \A u \in acked : u \in Tags /\ u <= made /\ dlg'[u] # "Early"
    BY <1>2 DEF DialogInv, AckInv, RecInv
  <2>3. ASSUME NEW u \in acked, NEW i \in 1 .. Len(ends'[u])
        PROVE  ends'[u][i] # "ack_timeout"
    <3>1. CASE u = t
      BY <3>1, <2>1, <2>2, <1>7, <1>8
    <3>2. CASE u # t
      BY <3>2, <2>2, <1>8 DEF DialogInv, AckInv
    <3> QED
      BY <3>1, <3>2
  <2> QED
    BY <2>2, <2>3 DEF AckInv, DialogInv
<1> QED
  BY <1>1, <1>2, <1>3, <1>4, <1>9, <1>91, <1>10, <1>11, <1>12

(* admit_request for an INVITE or a re-INVITE. *)
LEMMA AdmitKeeps ==
  ASSUME DialogInv, NEW k \in {"INVITE", "REINVITE"}, NEW b \in Branches, NEW t \in 0 .. made,
         NEW tm \in BOOLEAN, k = "REINVITE" => t \in 1 .. made, AdmitInvite(k, b, t, tm)
  PROVE  DialogInv'
<1>1. Request(k, b, t, tm) \in GoodItems
  BY BoundsAssumption DEF Request, GoodItems, ItemSet, IsInvite, Tags, AllMethods, Branches,
     DialogInv, RecInv
<1>2. ArrivalsInv'
  BY BoundsAssumption DEF DialogInv, ArrivalsInv, AdmitInvite, Arrives
<1>3. ItemsInv'
  BY <1>1, EnqueueKeeps DEF DialogInv, ItemsInv, AdmitInvite
<1>4. WaitInv'
  <2>1. \A c : WaitsIn(queue, c) => WaitsIn(queue', c)
    BY <1>1, EnqueueKeeps DEF AdmitInvite
  <2>2. WaitsIn(queue', b)
    BY <1>1, EnqueueKeeps DEF AdmitInvite, Request, IsInvite
  <2> QED
    BY <2>1, <2>2 DEF DialogInv, WaitInv, InHand, AdmitInvite
<1>5. JobInv' /\ StageInv' /\ RecInv' /\ LoopInv' /\ TimerInv' /\ LifeInv' /\ ArmedInv'
      /\ MediaInv'
      /\ AckInv'
  BY Undisturbed DEF AdmitInvite, txnVars, recVars, loopVars, timerVars, endVars
<1> QED
  BY <1>1, <1>2, <1>3, <1>4, <1>5 DEF DialogInv

(* An in-dialog request. *)
LEMMA InDialogArrivesKeeps ==
  ASSUME DialogInv, InDialogArrives
  PROVE  DialogInv'
<1>1. PICK k \in {"UPDATE", "BYE", "ACK"}, t \in 1 .. made, tm \in BOOLEAN :
        Arrives(k) /\ Enqueue(Request(k, "none", t, tm))
  BY DEF InDialogArrives
<1>2. Request(k, "none", t, tm) \in GoodItems
  BY BoundsAssumption DEF Request, GoodItems, ItemSet, IsInvite, Tags, AllMethods, Branches,
     DialogInv, RecInv
<1>3. ArrivalsInv'
  BY <1>1, BoundsAssumption DEF DialogInv, ArrivalsInv, InDialogArrives, Arrives, txnVars
<1>4. ItemsInv' /\ WaitInv'
  BY <1>1, <1>2, EnqueueKeeps, EnqueueWaits DEF DialogInv, ItemsInv, InDialogArrives, txnVars
<1>5. JobInv' /\ StageInv' /\ RecInv' /\ LoopInv' /\ TimerInv' /\ LifeInv' /\ ArmedInv'
      /\ MediaInv'
      /\ AckInv'
  BY Undisturbed DEF InDialogArrives, txnVars, recVars, loopVars, timerVars, endVars
<1> QED
  BY <1>1, <1>2, <1>3, <1>4, <1>5 DEF DialogInv

(* The ACK of a rejected INVITE. *)
LEMMA RejectedAckArrivesKeeps ==
  ASSUME DialogInv, RejectedAckArrives
  PROVE  DialogInv'
<1>1. PICK b \in Branches, t \in 0 .. made : Enqueue(Request("ACK", b, t, FALSE))
  BY DEF RejectedAckArrives
<1>2. Request("ACK", b, t, FALSE) \in GoodItems
  <2>1. t \in 0 .. MaxInvites
    BY BoundsAssumption DEF DialogInv, RecInv
  <2> QED
    BY <2>1, BoundsAssumption DEF Request, GoodItems, ItemSet, IsInvite, AllMethods, Branches, Tags
<1>3. ArrivalsInv'
  BY BoundsAssumption DEF DialogInv, ArrivalsInv, RejectedAckArrives, Arrives, txnVars
<1>4. ItemsInv' /\ WaitInv'
  BY <1>1, <1>2, EnqueueKeeps, EnqueueWaits DEF DialogInv, ItemsInv, RejectedAckArrives, txnVars
<1>5. JobInv' /\ StageInv' /\ RecInv' /\ LoopInv' /\ TimerInv' /\ LifeInv' /\ ArmedInv'
      /\ MediaInv'
      /\ AckInv'
  BY Undisturbed DEF RejectedAckArrives, txnVars, recVars, loopVars, timerVars, endVars
<1> QED
  BY <1>1, <1>2, <1>3, <1>4, <1>5 DEF DialogInv

(* cancel_pending_invite flags the branch. *)
LEMMA CancelPendingKeeps ==
  ASSUME DialogInv, CancelPendingInvite
  PROVE  DialogInv'
<1>1. ArrivalsInv'
  BY BoundsAssumption DEF DialogInv, ArrivalsInv, CancelPendingInvite, Arrives
<1>2. ItemsInv' /\ JobInv' /\ StageInv' /\ WaitInv' /\ RecInv' /\ LoopInv' /\ TimerInv' /\ LifeInv'
      /\ ArmedInv' /\ MediaInv' /\ AckInv'
  BY Undisturbed DEF CancelPendingInvite, txnVars, recVars, loopVars, timerVars, endVars
<1> QED
  BY <1>1, <1>2 DEF DialogInv

(* A CANCEL that comes too late. *)
LEMMA CancelAfterFinalKeeps ==
  ASSUME DialogInv, CancelAfterFinal
  PROVE  DialogInv'
<1>1. ArrivalsInv'
  BY BoundsAssumption DEF DialogInv, ArrivalsInv, CancelAfterFinal, Arrives, txnVars
<1>2. ItemsInv' /\ WaitInv'
  <2>1. CASE UNCHANGED queue
    BY <2>1, Undisturbed DEF CancelAfterFinal, txnVars
  <2>2. CASE \E b \in Branches : Enqueue(Request("CANCEL", b, 0, FALSE))
    <3>1. PICK b \in Branches : Enqueue(Request("CANCEL", b, 0, FALSE))
      BY <2>2
    <3>2. Request("CANCEL", b, 0, FALSE) \in GoodItems
      BY BoundsAssumption DEF Request, GoodItems, ItemSet, IsInvite, AllMethods, Branches
    <3> QED
      BY <3>1, <3>2, EnqueueKeeps, EnqueueWaits DEF DialogInv, ItemsInv, CancelAfterFinal,
         txnVars
  <2> QED
    BY <2>1, <2>2 DEF CancelAfterFinal
<1>3. JobInv' /\ StageInv' /\ RecInv' /\ LoopInv' /\ TimerInv' /\ LifeInv' /\ ArmedInv'
      /\ MediaInv'
      /\ AckInv'
  BY Undisturbed DEF CancelAfterFinal, txnVars, recVars, loopVars, timerVars, endVars
<1> QED
  BY <1>1, <1>2, <1>3 DEF DialogInv

(* The run loop forwards a timer event. *)
LEMMA ForwardKeeps ==
  ASSUME DialogInv, ForwardInternal
  PROVE  DialogInv'
<1>1. ItemsInv' /\ WaitInv'
  <2>1. Head(internal) \in GoodItems /\ Tail(internal) \in Seq(GoodItems)
    BY QueueHead DEF ForwardInternal, DialogInv, ItemsInv
  <2> QED
    BY <2>1, EnqueueKeeps, EnqueueWaits DEF ItemsInv, ForwardInternal, txnVars
<1>2. ArrivalsInv' /\ JobInv' /\ StageInv' /\ RecInv' /\ LoopInv' /\ TimerInv'
      /\ LifeInv' /\ ArmedInv'
      /\ MediaInv' /\ AckInv'
  BY Undisturbed DEF ForwardInternal, txnVars, recVars, loopVars, timerVars, endVars
<1> QED
  BY <1>1, <1>2 DEF DialogInv

(* Timer H or I ends a rejected transaction. *)
LEMMA TxnEndsKeeps ==
  ASSUME DialogInv, NEW b \in Branches, TxnEnds(b)
  PROVE  DialogInv'
<1>1. WaitInv'
  BY DEF DialogInv, WaitInv, InHand, TxnEnds
<1>2. ArrivalsInv' /\ ItemsInv' /\ JobInv' /\ StageInv' /\ RecInv' /\ LoopInv' /\ TimerInv'
      /\ LifeInv'
      /\ ArmedInv' /\ MediaInv' /\ AckInv'
  BY Undisturbed DEF TxnEnds, txnVars, recVars, loopVars, timerVars, endVars
<1> QED
  BY <1>1, <1>2 DEF DialogInv

-----------------------------------------------------------------------------
(* The INVITE handler. *)
(* handle_invite, first checkpoint. *)
LEMMA InviteStartsKeeps ==
  ASSUME DialogInv, InviteStarts
  PROVE  DialogInv'
<1>1. /\ ItemsInv' /\ job = Idle
      /\ Head(queue) \in GoodItems /\ Head(queue).k = "INVITE"
      /\ \A b \in Branches : txn[b] = "Proceeding" =>
             (IsInvite(Head(queue)) /\ Head(queue).br = b) \/ WaitsIn(queue', b)
  BY TakeKeeps DEF InviteStarts
<1>2. Head(queue).br \in Branches /\ Head(queue) \in ItemSet
  BY <1>1 DEF GoodItems, IsInvite
<1>3. ArrivalsInv'
  BY <1>2 DEF DialogInv, ArrivalsInv, InviteStarts, TakeInviteTag
<1>4. JobInv' /\ MediaInv'
  <2>1. CASE UNCHANGED job
    BY <2>1, Undisturbed DEF InviteStarts, recVars
  <2>2. CASE job' = [pc |-> "admit", item |-> Head(queue), media |-> FALSE]
    <3>1. JobInv'
      BY <2>2, <1>1, <1>2 DEF JobInv, JobSet, InviteStarts, recVars, Points, Making
    <3>2. Owners' = Owners /\ job'.media = job.media
      BY <2>2, <1>1 DEF Owners, Idle, InviteStarts, recVars
    <3> QED
      BY <3>1, <3>2 DEF MediaInv, DialogInv, InviteStarts
  <2> QED
    BY <2>1, <2>2 DEF InviteStarts
<1>5. WaitInv'
  <2>1. CASE job' = [pc |-> "admit", item |-> Head(queue), media |-> FALSE] /\ UNCHANGED txn
    BY <2>1, <1>1 DEF DialogInv, WaitInv, InHand
  <2>2. CASE RejectInvite(Head(queue).br)
    BY <2>2, <1>1, <1>2 DEF DialogInv, WaitInv, RejectInvite
  <2> QED
    BY <2>1, <2>2 DEF InviteStarts
<1>61. StageInv'
  <2>1. CASE UNCHANGED job
    BY <2>1, <1>1, IdleJob, NoDialogYet DEF InviteStarts, endVars
  <2>2. CASE job' = [pc |-> "admit", item |-> Head(queue), media |-> FALSE]
    BY <2>2, NoDialogYet DEF InviteStarts, endVars
  <2> QED
    BY <2>1, <2>2 DEF InviteStarts
<1>6. ItemsInv' /\ RecInv' /\ LoopInv' /\ TimerInv' /\ LifeInv' /\ ArmedInv' /\ AckInv'
  BY Undisturbed, <1>1 DEF InviteStarts, Idle, txnVars, recVars, loopVars, timerVars, endVars
<1> QED
  BY <1>1, <1>2, <1>3, <1>4, <1>5, <1>6, <1>61 DEF DialogInv

(* admit_invite and the offer: refused, or accepted with or without an endpoint. *)
LEMMA NegotiateKeeps ==
  ASSUME DialogInv, NegotiateInitialOffer
  PROVE  DialogInv'
<1>1. /\ job.item \in GoodItems /\ job.item.k = "INVITE" /\ job.item.br \in Branches
      /\ job.media = FALSE
  BY DEF DialogInv, JobInv, GoodItems, IsInvite, NegotiateInitialOffer
<1>2. job \in JobSet
  BY DEF DialogInv, JobInv
<1>3. \/ job' = [job EXCEPT !.pc = "second"] /\ UNCHANGED <<txn, cancelled, live>>
      \/ /\ job' = [job EXCEPT !.pc = "second", !.media = TRUE]
         /\ live' = live + 1 /\ UNCHANGED <<txn, cancelled>>
      \/ /\ txn' = [txn EXCEPT ![job.item.br] = "Completed"]
         /\ cancelled' = cancelled \ {job.item.br} /\ job' = Idle /\ UNCHANGED live
  BY DEF NegotiateInitialOffer, Goto, RejectInvite, TakeInviteTag, Finished, Item
<1>4. ArrivalsInv'
  BY <1>3 DEF DialogInv, ArrivalsInv, NegotiateInitialOffer
<1>5. JobInv'
  BY <1>1, <1>2, <1>3, IdleJob DEF JobInv, JobSet, Idle, Points, Making
<1>6. WaitInv'
  <2>1. CASE job'.pc = "second" /\ job'.item = job.item /\ UNCHANGED txn
    BY <2>1 DEF DialogInv, WaitInv, InHand, NegotiateInitialOffer
  <2>2. CASE txn' = [txn EXCEPT ![job.item.br] = "Completed"]
    BY <2>2, <1>1 DEF DialogInv, WaitInv, InHand, NegotiateInitialOffer
  <2> QED
    BY <2>1, <2>2, <1>2, <1>3 DEF JobSet
<1>7. MediaInv'
  <2>1. Owners' = Owners
    BY DEF Owners, NegotiateInitialOffer, recVars
  <2>2. live = Cardinality(Owners) /\ live \in Nat
    BY <1>1, OwnersFinite DEF DialogInv, MediaInv
  <2>3. (job'.media = FALSE /\ live' = live) \/ (job'.media = TRUE /\ live' = live + 1)
    <3>1. CASE job' = [job EXCEPT !.pc = "second"] /\ UNCHANGED live
      BY <3>1, <1>1, <1>2 DEF JobSet
    <3>2. CASE job' = [job EXCEPT !.pc = "second", !.media = TRUE] /\ live' = live + 1
      BY <3>2, <1>2 DEF JobSet
    <3>3. CASE job' = Idle /\ UNCHANGED live
      BY <3>3 DEF Idle
    <3> QED
      BY <3>1, <3>2, <3>3, <1>3
  <2> QED
    BY <2>1, <2>2, <2>3 DEF MediaInv
<1>81. StageInv'
  BY <1>2, <1>3, NoDialogYet, IdleJob DEF NegotiateInitialOffer, endVars, JobSet, Idle
<1>8. ItemsInv' /\ RecInv' /\ LoopInv' /\ TimerInv' /\ LifeInv' /\ ArmedInv' /\ AckInv'
  BY Undisturbed DEF NegotiateInitialOffer, txnVars, recVars, loopVars, timerVars, endVars
<1> QED
  BY <1>1, <1>2, <1>3, <1>4, <1>5, <1>6, <1>7, <1>8, <1>81 DEF DialogInv

(* The second checkpoint: 487 and the endpoint released, or on to the answer. *)
LEMMA SecondKeeps ==
  ASSUME DialogInv, SecondCheckpoint
  PROVE  DialogInv'
<1>1. job.item \in GoodItems /\ job.item.k = "INVITE" /\ job.item.br \in Branches
  BY DEF DialogInv, JobInv, GoodItems, IsInvite, SecondCheckpoint
<1>2. job \in JobSet
  BY DEF DialogInv, JobInv
<1>3. \/ job' = [job EXCEPT !.pc = "tag"] /\ UNCHANGED <<txn, cancelled, live>>
      \/ /\ txn' = [txn EXCEPT ![job.item.br] = "Completed"]
         /\ cancelled' = cancelled \ {job.item.br} /\ job' = Idle
         /\ live' = IF job.media THEN live - 1 ELSE live
  BY DEF SecondCheckpoint, Goto, RejectInvite, TakeInviteTag, Finished, Item, ReleaseNegotiated
<1>4. ArrivalsInv'
  BY <1>3 DEF DialogInv, ArrivalsInv, SecondCheckpoint
<1>5. JobInv'
  BY <1>1, <1>2, <1>3, IdleJob DEF JobInv, JobSet, Idle, Points, Making
<1>6. WaitInv'
  <2>1. CASE job'.pc = "tag" /\ job'.item = job.item /\ UNCHANGED txn
    BY <2>1 DEF DialogInv, WaitInv, InHand, SecondCheckpoint
  <2>2. CASE txn' = [txn EXCEPT ![job.item.br] = "Completed"]
    BY <2>2, <1>1 DEF DialogInv, WaitInv, InHand, SecondCheckpoint
  <2> QED
    BY <2>1, <2>2, <1>2, <1>3 DEF JobSet
<1>7. MediaInv'
  <2>1. Owners' = Owners
    BY DEF Owners, SecondCheckpoint, recVars
  <2>2. live = Cardinality(Owners) + (IF job.media THEN 1 ELSE 0) /\ Cardinality(Owners) \in Nat
    BY OwnersFinite DEF DialogInv, MediaInv
  <2>3. CASE job' = [job EXCEPT !.pc = "tag"] /\ UNCHANGED live
    BY <2>1, <2>2, <2>3, <1>2 DEF MediaInv, JobSet
  <2>4. CASE job' = Idle /\ live' = IF job.media THEN live - 1 ELSE live
    BY <2>1, <2>2, <2>4, <1>2 DEF MediaInv, Idle, JobSet
  <2> QED
    BY <2>3, <2>4, <1>3
<1>81. StageInv'
  BY <1>2, <1>3, NoDialogYet, IdleJob DEF SecondCheckpoint, endVars, JobSet, Idle
<1>8. ItemsInv' /\ RecInv' /\ LoopInv' /\ TimerInv' /\ LifeInv' /\ ArmedInv' /\ AckInv'
  BY Undisturbed DEF SecondCheckpoint, txnVars, recVars, loopVars, timerVars, endVars
<1> QED
  BY <1>1, <1>2, <1>3, <1>4, <1>5, <1>6, <1>7, <1>8, <1>81 DEF DialogInv

(* take_invite_tag consumes the flag. *)
LEMMA TakesTagKeeps ==
  ASSUME DialogInv, TakesTag
  PROVE  DialogInv'
<1>1. /\ job.item \in GoodItems /\ job.item.k = "INVITE" /\ job.pc = "tag"
      /\ job \in JobSet
  BY DEF DialogInv, JobInv, TakesTag
<1>2. job' = [job EXCEPT !.pc = "attach"] /\ cancelled' = cancelled \ {job.item.br}
  BY DEF TakesTag, Goto, TakeInviteTag, Item
<1>3. ArrivalsInv'
  BY <1>2 DEF DialogInv, ArrivalsInv, TakesTag
<1>4. JobInv'
  BY <1>1, <1>2 DEF JobInv, JobSet, Points, Making
<1>5. WaitInv'
  <2>1. job'.pc = "attach" /\ job'.item = job.item
    BY <1>1, <1>2 DEF JobSet
  <2> QED
    BY <2>1 DEF DialogInv, WaitInv, InHand, TakesTag
<1>6. MediaInv'
  <2>1. Owners' = Owners /\ job'.media = job.media
    BY <1>1, <1>2 DEF JobSet, Owners, TakesTag, recVars
  <2> QED
    BY <2>1 DEF DialogInv, MediaInv, TakesTag
<1>71. StageInv'
  BY <1>1, <1>2, NoDialogYet, IdleJob DEF TakesTag, endVars, JobSet, Idle
<1>7. ItemsInv' /\ RecInv' /\ LoopInv' /\ TimerInv' /\ LifeInv' /\ ArmedInv' /\ AckInv'
  BY Undisturbed DEF TakesTag, txnVars, recVars, loopVars, timerVars, endVars
<1> QED
  BY <1>1, <1>2, <1>3, <1>4, <1>5, <1>6, <1>7, <1>71 DEF DialogInv

(* attach_media refuses the leg: the endpoint is released. *)
LEMMA AttachFailsKeeps ==
  ASSUME DialogInv, AttachMediaFails
  PROVE  DialogInv'
<1>1. /\ job.item \in GoodItems /\ job.item.br \in Branches
      /\ job' = Idle /\ live' = live - 1 /\ txn' = [txn EXCEPT ![job.item.br] = "Completed"]
  BY DEF DialogInv, JobInv, GoodItems, IsInvite, AttachMediaFails, RejectInvite, Finished, Item,
     ReleaseNegotiated
<1>2. JobInv' /\ StageInv'
  BY <1>1, IdleJob, NoDialogYet DEF JobInv, Making, AttachMediaFails, endVars
<1>3. WaitInv'
  BY <1>1 DEF DialogInv, WaitInv, InHand, AttachMediaFails
<1>4. MediaInv'
  <2>1. Owners' = Owners /\ job'.media = FALSE
    BY <1>1 DEF Owners, AttachMediaFails, recVars, Idle
  <2>2. live = Cardinality(Owners) + 1 /\ Cardinality(Owners) \in Nat
    BY OwnersFinite DEF DialogInv, MediaInv, AttachMediaFails
  <2> QED
    BY <1>1, <2>1, <2>2 DEF MediaInv
<1>5. ArrivalsInv' /\ ItemsInv' /\ RecInv' /\ LoopInv' /\ TimerInv' /\ LifeInv' /\ ArmedInv'
      /\ AckInv'
  BY Undisturbed DEF AttachMediaFails, txnVars, recVars, loopVars, timerVars, endVars
<1> QED
  BY <1>1, <1>2, <1>3, <1>4, <1>5 DEF DialogInv

(* A timer is armed or cancelled for one dialog only. *)
LEMMA RearmKeeps ==
  ASSUME DialogInv, NEW t \in Tags, NEW tm \in BOOLEAN,
         RearmSessionTimer(t, tm) \/ UNCHANGED <<timer, armings>>
  PROVE  /\ timer' \in [Tags -> TimerSet] /\ armings' \in [Tags -> Nat]
         /\ \A u \in Tags : u # t => timer'[u] = timer[u]
<1>1. timer \in [Tags -> TimerSet] /\ armings \in [Tags -> Nat]
  BY DEF DialogInv, TimerInv
<1>2. CASE ArmSessionTimer(t)
  BY <1>1, <1>2 DEF ArmSessionTimer, TimerSet
<1>3. CASE CancelSessionTimer(t)
  BY <1>1, <1>3 DEF CancelSessionTimer, NoTimer, TimerSet
<1>4. CASE UNCHANGED <<timer, armings>>
  BY <1>1, <1>4
<1> QED
  BY <1>2, <1>3, <1>4 DEF RearmSessionTimer

(* establish_dialog inserts the record. *)
LEMMA EstablishKeeps ==
  ASSUME DialogInv, EstablishDialog
  PROVE  DialogInv'
<1> DEFINE t == made + 1
<1>1. /\ job.item \in GoodItems /\ job.item.br \in Branches /\ job.item.k = "INVITE"
      /\ job.media \in BOOLEAN /\ job \in JobSet
  BY DEF DialogInv, JobInv, JobSet, GoodItems, ItemSet, IsInvite, EstablishDialog
<1>2. made \in Nat /\ t \in Tags /\ t \in Nat /\ made < t /\ t # 0 /\ t <= MaxInvites
  BY BoundsAssumption DEF DialogInv, RecInv, EstablishDialog, Tags
<1>3. /\ made' = t
      /\ dlg' = [dlg EXCEPT ![t] = "Early"]
      /\ branch' = [branch EXCEPT ![t] = job.item.br]
      /\ media' = [media EXCEPT ![t] = job.media]
      /\ job' = [job EXCEPT !.pc = "cdr", !.media = FALSE]
      /\ UNCHANGED <<txn, queue, loop, handle, timer, armings, guard, cdr, byes, ends, cut, live, acked>>
  BY DEF EstablishDialog, Item, txnVars, loopVars, timerVars, endVars
<1>4. job' \in JobSet /\ job'.pc = "cdr" /\ job'.media = FALSE /\ job'.item = job.item
  BY <1>1, <1>3 DEF JobSet, Points, Making
<1>5. dlg[t] = "none" /\ cdr[t] = "none" /\ ends[t] = <<>> /\ byes[t] = 0
  BY <1>2 DEF DialogInv, LifeInv
<1> HIDE DEF t
<1>6. /\ dlg' \in [Tags -> {"none", "Early", "Confirmed"}]
      /\ \A u \in Tags : dlg'[u] = IF u = t THEN "Early" ELSE dlg[u]
  BY <1>2, <1>3 DEF DialogInv, RecInv
<1>7. JobInv'
  BY <1>1, <1>4 DEF JobInv, Making
<1>8. WaitInv'
  BY <1>1, <1>3, <1>4 DEF DialogInv, WaitInv, InHand, EstablishDialog
<1>9. RecInv'
  <2>1. made' \in 0 .. MaxInvites
    BY <1>2, <1>3, BoundsAssumption
  <2> QED
    BY <1>1, <1>2, <1>3, <1>6, <2>1 DEF DialogInv, RecInv
<1>10. StageInv'
  BY <1>2, <1>3, <1>4, <1>5, <1>6 DEF DialogInv, StageInv
<1>11. LoopInv' /\ TimerInv'
  BY <1>3, Undisturbed
<1>12. LifeInv'
  <2>1. ASSUME NEW u \in Tags
        PROVE  /\ u > made' => dlg'[u] = "none" /\ cdr'[u] = "none"
               /\ u > made' \/ dlg'[u] # "none" => ends'[u] = <<>> /\ byes'[u] = 0 /\ cdr'[u] # "row"
               /\ dlg'[u] # "none" /\ cdr'[u] = "none" => job'.pc = "cdr" /\ u = made'
               /\ u <= made' /\ dlg'[u] = "none" => Len(ends'[u]) = 1 /\ byes'[u] <= 1
               /\ u <= made' /\ dlg'[u] = "none" /\ cut'[u] # "cdr" => cdr'[u] = "row"
    <3>1. CASE u = t
      <4>1. ~(u > made')
        BY <3>1, <1>2, <1>3
      <4> QED
        BY <3>1, <4>1, <1>3, <1>4, <1>5, <1>6
    <3>2. CASE u # t
      <4>1. (u > made' => u > made) /\ (u <= made' => u <= made)
        BY <3>2, <1>2, <1>3 DEF Tags, t
      <4>2. dlg'[u] = dlg[u] /\ cdr'[u] = cdr[u] /\ ends'[u] = ends[u] /\ byes'[u] = byes[u]
            /\ cut'[u] = cut[u]
        BY <3>2, <1>3, <1>6
      <4>3. ~(dlg[u] # "none" /\ cdr[u] = "none")
        BY DEF DialogInv, LifeInv, EstablishDialog
      <4> QED
        BY <4>1, <4>2, <4>3 DEF DialogInv, LifeInv
    <3> QED
      BY <3>1, <3>2
  <2> QED
    BY <2>1, <1>3 DEF DialogInv, LifeInv
<1>13. ArmedInv'
  BY <1>3, <1>6 DEF DialogInv, ArmedInv
<1>14. MediaInv'
  <2>1. t \notin Owners
    BY <1>5 DEF Owners
  <2>2. Owners' = IF job.media THEN Owners \cup {t} ELSE Owners
    BY <1>1, <1>2, <1>3, <1>5, <1>6 DEF Owners, DialogInv, RecInv
  <2>3. Cardinality(Owners \cup {t}) = Cardinality(Owners) + 1
    BY <2>1, OwnersFinite, FS_AddElement
  <2>4. job'.media = FALSE /\ live' = live /\ Cardinality(Owners) \in Nat
    BY <1>3, <1>4, OwnersFinite
  <2> QED
    BY <2>2, <2>3, <2>4 DEF DialogInv, MediaInv
<1>15. AckInv'
  <2>1. \A u \in acked : u \in Tags /\ u <= made' /\ dlg'[u] # "Early"
    BY <1>2, <1>3, <1>6 DEF DialogInv, AckInv, Tags, t
  <2> QED
    BY <2>1, <1>3 DEF DialogInv, AckInv
<1>16. ArrivalsInv' /\ ItemsInv'
  BY Undisturbed DEF EstablishDialog, txnVars
<1> QED
  BY <1>7, <1>8, <1>9, <1>10, <1>11, <1>12, <1>13, <1>14, <1>15, <1>16 DEF DialogInv

(* The CDR entry is opened, for a dialog that may be gone already. *)
LEMMA OpensCdrKeeps ==
  ASSUME DialogInv, OpensCdr
  PROVE  DialogInv'
<1>1. job \in JobSet /\ job.item \in GoodItems /\ job.item.k = "INVITE" /\ job.media = FALSE
  BY DEF DialogInv, JobInv, OpensCdr, Making
<1>2. job' = [job EXCEPT !.pc = "answer"] /\ job'.pc = "answer" /\ job'.item = job.item
      /\ job'.media = FALSE /\ job' \in JobSet
  BY <1>1 DEF OpensCdr, Goto, JobSet, Points, Making
<1>3. made \in Tags /\ cdr[made] = "none" /\ (dlg[made] = "none" => cut[made] = "cdr")
  BY BoundsAssumption DEF DialogInv, StageInv, RecInv, OpensCdr, Tags, Making
<1>4. /\ cdr' \in [Tags -> {"none", "pending", "row"}]
      /\ \A u \in Tags : cdr'[u] = IF u = made THEN "pending" ELSE cdr[u]
  BY <1>3 DEF DialogInv, LifeInv, OpensCdr
<1>5. JobInv' /\ WaitInv'
  <2>1. JobInv'
    BY <1>1, <1>2 DEF JobInv, Making
  <2> QED
    BY <2>1, <1>2 DEF DialogInv, WaitInv, InHand, OpensCdr, txnVars
<1>6. StageInv'
  BY <1>2, <1>3 DEF DialogInv, StageInv, OpensCdr, recVars, Making
<1>7. LifeInv'
  <2>1. \A u \in Tags : u # made => ~(dlg[u] # "none" /\ cdr[u] = "none")
    BY DEF DialogInv, LifeInv
  <2>2. ~(made > made) /\ made <= made
    BY BoundsAssumption DEF DialogInv, RecInv
  <2> QED
    BY <1>3, <1>4, <2>1, <2>2 DEF DialogInv, LifeInv, OpensCdr, recVars
<1>8. MediaInv'
  <2>1. Owners' = Owners
    BY DEF Owners, OpensCdr, recVars
  <2> QED
    BY <2>1, <1>1, <1>2 DEF DialogInv, MediaInv, OpensCdr
<1>9. ArrivalsInv' /\ ItemsInv' /\ RecInv' /\ LoopInv' /\ TimerInv' /\ ArmedInv' /\ AckInv'
  BY Undisturbed DEF OpensCdr, txnVars, recVars, loopVars, timerVars
<1> QED
  BY <1>5, <1>6, <1>7, <1>8, <1>9 DEF DialogInv

(* The 200 and its retransmit loop. *)
LEMMA AnswersKeeps ==
  ASSUME DialogInv, Answers2xx
  PROVE  DialogInv'
<1>1. /\ job \in JobSet /\ job.item \in GoodItems /\ job.item.k = "INVITE" /\ job.media = FALSE
      /\ job.item.br \in Branches
  BY DEF DialogInv, JobInv, Answers2xx, Making, GoodItems, IsInvite
<1>2. job' = [job EXCEPT !.pc = "arm"] /\ job'.pc = "arm" /\ job'.item = job.item
      /\ job'.media = FALSE /\ job' \in JobSet
  BY <1>1 DEF Answers2xx, Goto, JobSet, Points, Making
<1>3. made \in Tags /\ (dlg[made] = "none" => cut[made] \in {"cdr", "answer"})
  BY BoundsAssumption DEF DialogInv, StageInv, RecInv, Answers2xx, Tags, Making
<1>4. JobInv' /\ StageInv'
  <2>1. JobInv'
    BY <1>1, <1>2 DEF JobInv, Making
  <2> QED
    BY <2>1, <1>2, <1>3 DEF DialogInv, StageInv, Answers2xx, recVars, endVars, Making
<1>5. WaitInv'
  BY <1>1, <1>2 DEF DialogInv, WaitInv, InHand, Answers2xx, Item
<1>6. LoopInv' /\ ArmedInv'
  <2>1. LoopInv' /\ \A u \in Tags : u # made => handle'[u] = handle[u]
    BY <1>3, SpawnKeeps DEF Answers2xx
  <2> QED
    BY <2>1, <1>3 DEF DialogInv, ArmedInv, Answers2xx, recVars, endVars, timerVars
<1>7. MediaInv'
  <2>1. Owners' = Owners
    BY DEF Owners, Answers2xx, recVars
  <2> QED
    BY <2>1, <1>1, <1>2 DEF DialogInv, MediaInv, Answers2xx
<1>8. ArrivalsInv' /\ ItemsInv' /\ RecInv' /\ TimerInv' /\ LifeInv' /\ AckInv'
  BY Undisturbed DEF Answers2xx, recVars, timerVars, endVars
<1> QED
  BY <1>4, <1>5, <1>6, <1>7, <1>8 DEF DialogInv

(* The timers of a new dialog. *)
LEMMA ArmsKeeps ==
  ASSUME DialogInv, ArmsTimers
  PROVE  DialogInv'
<1>1. /\ job.item \in GoodItems /\ job.media = FALSE /\ job.item.tm \in BOOLEAN
      /\ job' = Idle /\ guard' \subseteq guard \cup {made}
  BY DEF DialogInv, JobInv, ArmsTimers, Making, GoodItems, ItemSet, Finished
<1>2. made \in Tags /\ (dlg[made] = "none" => cut[made] \in Making)
  BY BoundsAssumption DEF DialogInv, StageInv, RecInv, ArmsTimers, Tags, Making
<1>3. JobInv' /\ StageInv'
  BY <1>1, IdleJob, NoDialogYet DEF JobInv, Making, ArmsTimers, endVars
<1>4. WaitInv'
  BY <1>1 DEF DialogInv, WaitInv, InHand, ArmsTimers, txnVars
<1>5. TimerInv' /\ \A u \in Tags : u # made => timer'[u] = timer[u]
  <2>1. RearmSessionTimer(made, job.item.tm) \/ UNCHANGED <<timer, armings>>
    BY <1>1 DEF ArmsTimers, RearmSessionTimer, Item
  <2> QED
    BY <2>1, <1>1, <1>2, RearmKeeps DEF DialogInv, TimerInv
<1>6. ArmedInv'
  BY <1>1, <1>2, <1>5 DEF DialogInv, ArmedInv, ArmsTimers, recVars, endVars, loopVars
<1>7. MediaInv'
  <2>1. Owners' = Owners
    BY DEF Owners, ArmsTimers, recVars
  <2> QED
    BY <2>1, <1>1, IdleJob DEF DialogInv, MediaInv, ArmsTimers
<1>8. ArrivalsInv' /\ ItemsInv' /\ RecInv' /\ LoopInv' /\ LifeInv' /\ AckInv'
  BY Undisturbed DEF ArmsTimers, txnVars, recVars, loopVars, endVars
<1> QED
  BY <1>3, <1>4, <1>5, <1>6, <1>7, <1>8 DEF DialogInv

-----------------------------------------------------------------------------
(* The in-dialog handlers. *)
(* handle_reinvite and handle_update: the dialog is looked up. *)
LEMMA InDialogStartsKeeps ==
  ASSUME DialogInv, NEW k \in {"REINVITE", "UPDATE"}, InDialogStarts(k)
  PROVE  DialogInv'
<1>1. /\ ItemsInv' /\ job = Idle
      /\ Head(queue) \in GoodItems /\ Head(queue).k = k
      /\ \A b \in Branches : txn[b] = "Proceeding" =>
             (IsInvite(Head(queue)) /\ Head(queue).br = b) \/ WaitsIn(queue', b)
  BY TakeKeeps DEF InDialogStarts
<1>2. /\ Head(queue) \in ItemSet
      /\ k = "REINVITE" => Head(queue).br \in Branches
      /\ k = "UPDATE" => ~IsInvite(Head(queue))
  BY <1>1 DEF GoodItems, IsInvite
<1>3. ArrivalsInv'
  BY DEF DialogInv, ArrivalsInv, InDialogStarts, TakeInviteTag
<1>4. \/ /\ dlg[Head(queue).tag] # "none" /\ UNCHANGED txn
         /\ job' = [pc |-> "reneg", item |-> Head(queue), media |-> FALSE]
      \/ UNCHANGED job /\ k = "REINVITE" /\ txn' = [txn EXCEPT ![Head(queue).br] = "Completed"]
      \/ UNCHANGED job /\ k = "UPDATE" /\ UNCHANGED txn
  BY DEF InDialogStarts, RejectInvite
<1>5. JobInv' /\ StageInv'
  <2>1. CASE UNCHANGED job
    BY <2>1, Undisturbed DEF InDialogStarts, recVars, endVars
  <2>2. CASE /\ job' = [pc |-> "reneg", item |-> Head(queue), media |-> FALSE]
             /\ dlg[Head(queue).tag] # "none"
    <3>1. job' \in JobSet /\ job'.pc = "reneg" /\ job'.item = Head(queue) /\ job'.media = FALSE
      BY <2>2, <1>2 DEF JobSet, Points
    <3>2. dlg'[job'.item.tag] # "none"
      BY <2>2, <3>1 DEF InDialogStarts, recVars
    <3>3. JobInv'
      BY <3>1, <1>1 DEF JobInv, Making
    <3> QED
      BY <3>1, <3>2, <3>3 DEF DialogInv, StageInv, InDialogStarts, endVars, Making
  <2> QED
    BY <2>1, <2>2, <1>4
<1>6. WaitInv'
  <2>1. CASE UNCHANGED txn /\ job' = [pc |-> "reneg", item |-> Head(queue), media |-> FALSE]
    BY <2>1, <1>1 DEF DialogInv, WaitInv, InHand
  <2>2. CASE k = "REINVITE" /\ txn' = [txn EXCEPT ![Head(queue).br] = "Completed"]
    BY <2>2, <1>1, <1>2 DEF DialogInv, WaitInv
  <2>3. CASE k = "UPDATE" /\ UNCHANGED txn
    BY <2>3, <1>1, <1>2 DEF DialogInv, WaitInv
  <2> QED
    BY <2>1, <2>2, <2>3, <1>4
<1>7. MediaInv'
  <2>1. Owners' = Owners /\ job'.media = job.media
    <3>1. Owners' = Owners
      BY DEF Owners, InDialogStarts, recVars
    <3>2. job'.media = job.media
      <4>1. CASE UNCHANGED job
        BY <4>1
      <4>2. CASE job' = [pc |-> "reneg", item |-> Head(queue), media |-> FALSE]
        BY <4>2, <1>1 DEF Idle
      <4> QED
        BY <4>1, <4>2, <1>4
    <3> QED
      BY <3>1, <3>2
  <2> QED
    BY <2>1 DEF DialogInv, MediaInv, InDialogStarts
<1>8. RecInv' /\ LoopInv' /\ TimerInv' /\ LifeInv' /\ ArmedInv' /\ AckInv'
  BY Undisturbed, <1>1 DEF InDialogStarts, Idle, txnVars, recVars, loopVars, timerVars, endVars
<1> QED
  BY <1>1, <1>2, <1>3, <1>4, <1>5, <1>6, <1>7, <1>8 DEF DialogInv

(* renegotiate failed. *)
LEMMA RenegFailsKeeps ==
  ASSUME DialogInv, RenegotiateFails
  PROVE  DialogInv'
<1>1. /\ job.item \in GoodItems /\ job.media = FALSE
      /\ job.item.k \in {"REINVITE", "UPDATE"} /\ job.item.tag \in Tags
      /\ job.item.tm \in BOOLEAN
      /\ IsInvite(job.item) <=> job.item.k = "REINVITE"
      /\ IsInvite(job.item) => job.item.br \in Branches
  BY DEF DialogInv, JobInv, GoodItems, ItemSet, IsInvite, RenegotiateFails
<1>2. JobInv' /\ StageInv'
  BY IdleJob, NoDialogYet DEF JobInv, Making, RenegotiateFails, Finished, endVars
<1>3. WaitInv'
  BY <1>1 DEF DialogInv, WaitInv, InHand, RenegotiateFails, RejectInvite, Item, Finished
<1>4. MediaInv'
  <2>1. Owners' = Owners /\ job'.media = FALSE
    BY DEF Owners, RenegotiateFails, recVars, Finished, Idle
  <2> QED
    BY <1>1, <2>1 DEF DialogInv, MediaInv, RenegotiateFails
<1>5. ArrivalsInv' /\ ItemsInv' /\ RecInv' /\ LoopInv' /\ TimerInv' /\ LifeInv' /\ ArmedInv'
      /\ AckInv'
  BY Undisturbed DEF RenegotiateFails, txnVars, recVars, loopVars, timerVars, endVars
<1> QED
  BY <1>1, <1>2, <1>3, <1>4, <1>5 DEF DialogInv

(* renegotiate, the 200 and rearm_session_timer. *)
LEMMA RenegSucceedsKeeps ==
  ASSUME DialogInv, RenegotiateSucceeds
  PROVE  DialogInv'
<1>1. /\ job.item \in GoodItems /\ job.media = FALSE
      /\ job.item.k \in {"REINVITE", "UPDATE"} /\ job.item.tag \in Tags
      /\ job \in JobSet /\ (dlg[job.item.tag] = "none" => cut[job.item.tag] = "reneg")
      /\ IsInvite(job.item) <=> job.item.k = "REINVITE"
      /\ IsInvite(job.item) => job.item.br \in Branches
  BY DEF DialogInv, JobInv, StageInv, GoodItems, ItemSet, IsInvite, RenegotiateSucceeds
<1>11. job' = [job EXCEPT !.pc = "rearm"] /\ job'.pc = "rearm" /\ job'.item = job.item
       /\ job'.media = FALSE /\ job' \in JobSet
  BY <1>1 DEF RenegotiateSucceeds, Goto, JobSet, Points
<1> DEFINE t == job.item.tag
<1>2. JobInv' /\ StageInv'
  <2>1. JobInv'
    BY <1>1, <1>11 DEF JobInv, Making
  <2> QED
    BY <2>1, <1>1, <1>11 DEF DialogInv, StageInv, RenegotiateSucceeds, endVars, Making
<1>3. WaitInv'
  BY <1>1, <1>11 DEF DialogInv, WaitInv, InHand, RenegotiateSucceeds, Item, loopVars
<1>4. \/ UNCHANGED <<live, media>>
      \/ /\ dlg[t] # "none" /\ media[t] = FALSE /\ live' = live + 1
         /\ media' = [media EXCEPT ![t] = TRUE]
  BY <1>1 DEF RenegotiateSucceeds, Item, DialogInv, RecInv
<1>5. RecInv'
  <2>1. branch' \in [Tags -> Branches \cup {"none"}]
    BY <1>1 DEF DialogInv, RecInv, RenegotiateSucceeds, Item
  <2> QED
    BY <1>1, <1>4, <2>1 DEF DialogInv, RecInv, RenegotiateSucceeds
<1>6. LoopInv' /\ \A u \in Tags : u # t => handle'[u] = handle[u]
  <2>1. CASE UNCHANGED loopVars
    BY <2>1, Undisturbed DEF loopVars, RenegotiateSucceeds
  <2>2. CASE SpawnInvite2xxRetransmit(t)
    BY <2>2, <1>1, SpawnKeeps DEF RenegotiateSucceeds
  <2> QED
    BY <2>1, <2>2 DEF RenegotiateSucceeds, Item
<1>8. ArmedInv'
  BY <1>1, <1>6 DEF DialogInv, ArmedInv, RenegotiateSucceeds, timerVars, endVars
<1>9. MediaInv'
  <2>1. job'.media = FALSE /\ live = Cardinality(Owners) /\ Cardinality(Owners) \in Nat
    BY <1>1, <1>11, OwnersFinite DEF DialogInv, MediaInv
  <2>2. CASE UNCHANGED <<live, media>>
    <3>1. Owners' = Owners
      BY <2>2 DEF Owners, RenegotiateSucceeds
    <3> QED
      BY <2>1, <2>2, <3>1 DEF MediaInv
  <2>3. CASE /\ dlg[t] # "none" /\ media[t] = FALSE /\ live' = live + 1
             /\ media' = [media EXCEPT ![t] = TRUE]
    <3>1. t \notin Owners /\ Owners' = Owners \cup {t}
      BY <1>1, <2>3 DEF Owners, RenegotiateSucceeds, DialogInv, RecInv
    <3>2. Cardinality(Owners') = Cardinality(Owners) + 1
      BY <3>1, OwnersFinite, FS_AddElement
    <3> QED
      BY <2>1, <2>3, <3>2 DEF MediaInv
  <2> QED
    BY <2>2, <2>3, <1>4
<1>10. ArrivalsInv' /\ ItemsInv' /\ TimerInv' /\ LifeInv' /\ AckInv'
  BY Undisturbed DEF RenegotiateSucceeds, txnVars, recVars, loopVars, timerVars, endVars
<1> QED
  BY <1>2, <1>3, <1>5, <1>6, <1>8, <1>9, <1>10 DEF DialogInv

(* rearm_session_timer after a refresh. *)
LEMMA RearmsKeeps ==
  ASSUME DialogInv, Rearms
  PROVE  DialogInv'
<1>1. /\ job.item \in GoodItems /\ job.media = FALSE /\ job.item.tm \in BOOLEAN
      /\ job' = Idle /\ job.item.tag \in Tags
      /\ (dlg[job.item.tag] = "none" => cut[job.item.tag] \in {"reneg", "rearm"})
  BY DEF DialogInv, JobInv, StageInv, Rearms, GoodItems, ItemSet, Finished
<1>2. JobInv' /\ StageInv'
  BY <1>1, IdleJob, NoDialogYet DEF JobInv, Making, Rearms, endVars
<1>3. WaitInv'
  BY <1>1 DEF DialogInv, WaitInv, InHand, Rearms, txnVars
<1>4. TimerInv' /\ \A u \in Tags : u # job.item.tag => timer'[u] = timer[u]
  BY <1>1, RearmKeeps DEF DialogInv, TimerInv, Rearms, Item
<1>5. ArmedInv'
  BY <1>1, <1>4 DEF DialogInv, ArmedInv, Rearms, recVars, endVars, loopVars
<1>6. MediaInv'
  <2>1. Owners' = Owners
    BY DEF Owners, Rearms, recVars
  <2> QED
    BY <2>1, <1>1, IdleJob DEF DialogInv, MediaInv, Rearms
<1>7. ArrivalsInv' /\ ItemsInv' /\ RecInv' /\ LoopInv' /\ LifeInv' /\ AckInv'
  BY Undisturbed DEF Rearms, txnVars, recVars, loopVars, endVars
<1> QED
  BY <1>2, <1>3, <1>4, <1>5, <1>6, <1>7 DEF DialogInv

(* handle_ack. *)
LEMMA HandleAckKeeps ==
  ASSUME DialogInv, HandleAck
  PROVE  DialogInv'
<1>1. /\ ItemsInv' /\ job = Idle
      /\ Head(queue) \in GoodItems /\ Head(queue).k = "ACK"
      /\ \A b \in Branches : txn[b] = "Proceeding" =>
             (IsInvite(Head(queue)) /\ Head(queue).br = b) \/ WaitsIn(queue', b)
  BY TakeKeeps DEF HandleAck
<1> DEFINE t == Head(queue).tag
<1>2. /\ ~IsInvite(Head(queue)) /\ t \in 0 .. MaxInvites
      /\ t = 0 => Head(queue).br \in Branches
      /\ t # 0 => t \in Tags
  BY <1>1, BoundsAssumption DEF GoodItems, ItemSet, IsInvite, Tags
<1>3. JobInv' /\ StageInv' /\ RecInv' /\ MediaInv' /\ ArmedInv' /\ LoopInv' /\ LifeInv' /\ AckInv'
  <2>1. CASE t = 0
    BY <2>1, Undisturbed DEF HandleAck, loopVars, timerVars, endVars
  <2>2. CASE t # 0
    <3>1. /\ t \in Tags
          /\ dlg' = [dlg EXCEPT ![t] = IF @ = "Early" THEN "Confirmed" ELSE @]
          /\ acked' = IF dlg[t] # "none" THEN acked \cup {t} ELSE acked
          /\ CancelInvite2xxRetransmit(t)
      BY <2>2, <1>2 DEF HandleAck
    <3> HIDE DEF t
    <3>2. /\ dlg' \in [Tags -> {"none", "Early", "Confirmed"}]
          /\ dlg'[t] # "Early"
          /\ \A u \in Tags : dlg'[u] = "none" <=> dlg[u] = "none"
          /\ \A u \in Tags : dlg'[u] = "Early" => dlg[u] = "Early"
      BY <3>1 DEF DialogInv, RecInv
    <3>3. JobInv' /\ StageInv'
      BY <1>1, NoDialogYet, Undisturbed DEF Idle, HandleAck, endVars
    <3>4. RecInv'
      BY <3>2 DEF DialogInv, RecInv, HandleAck
    <3>5. LoopInv' /\ handle' = [handle EXCEPT ![t] = 0]
      BY <3>1, LoopCancelKeeps DEF HandleAck
    <3>6. MediaInv'
      <4>1. Owners' = Owners
        BY <3>2 DEF Owners, HandleAck
      <4> QED
        BY <4>1 DEF DialogInv, MediaInv, HandleAck
    <3>7. ArmedInv'
      BY <3>1, <3>2, <3>5 DEF DialogInv, ArmedInv, LoopInv, HandleAck, timerVars, endVars
    <3>8. LifeInv'
      BY <3>2 DEF DialogInv, LifeInv, HandleAck, endVars
    <3>9. AckInv'
      <4>1. dlg[t] # "none" => t <= made /\ ends[t] = <<>> /\ Len(<<>>) = 0
        BY <3>1, BoundsAssumption DEF DialogInv, LifeInv, RecInv, Tags
      <4>2. \A u \in acked' : u \in Tags /\ u <= made /\ dlg'[u] # "Early"
        BY <3>1, <3>2, <4>1 DEF DialogInv, AckInv
      <4>3. ASSUME NEW u \in acked', NEW i \in 1 .. Len(ends[u])
            PROVE  ends[u][i] # "ack_timeout"
        <5>1. CASE u \in acked
          BY <5>1 DEF DialogInv, AckInv
        <5>2. CASE u \notin acked
          BY <5>2, <3>1, <4>1
        <5> QED
          BY <5>1, <5>2
      <4> QED
        BY <4>2, <4>3 DEF AckInv, HandleAck, endVars
    <3> QED
      BY <3>3, <3>4, <3>5, <3>6, <3>7, <3>8, <3>9
  <2> QED
    BY <2>1, <2>2
<1>4. WaitInv'
  BY <1>1, <1>2 DEF DialogInv, WaitInv, HandleAck
<1>5. ArrivalsInv' /\ TimerInv'
  BY Undisturbed DEF HandleAck, txnVars, recVars, loopVars, timerVars, endVars
<1> QED
  BY <1>1, <1>2, <1>3, <1>4, <1>5 DEF DialogInv

(* handle_cancel answers and changes nothing. *)
LEMMA HandleCancelKeeps ==
  ASSUME DialogInv, HandleCancel
  PROVE  DialogInv'
<1>1. ItemsInv' /\ WaitInv'
  <2>1. ItemsInv' /\ ~IsInvite(Head(queue))
    BY TakeKeeps DEF HandleCancel, IsInvite
  <2> QED
    BY <2>1, TakeKeeps DEF DialogInv, WaitInv, HandleCancel, txnVars
<1>2. ArrivalsInv' /\ JobInv' /\ StageInv' /\ RecInv' /\ LoopInv' /\ TimerInv'
      /\ LifeInv' /\ ArmedInv'
      /\ MediaInv' /\ AckInv'
  BY Undisturbed DEF HandleCancel, txnVars, recVars, loopVars, timerVars, endVars
<1> QED
  BY <1>1, <1>2 DEF DialogInv

(* handle_bye. *)
LEMMA HandleByeKeeps ==
  ASSUME DialogInv, HandleBye
  PROVE  DialogInv'
<1>1. /\ ItemsInv' /\ job = Idle
      /\ Head(queue) \in GoodItems /\ Head(queue).k = "BYE"
      /\ \A b \in Branches : txn[b] = "Proceeding" =>
             (IsInvite(Head(queue)) /\ Head(queue).br = b) \/ WaitsIn(queue', b)
  BY TakeKeeps DEF HandleBye
<1> DEFINE t == Head(queue).tag
<1>2. ~IsInvite(Head(queue)) /\ t \in Tags
  BY <1>1 DEF GoodItems, IsInvite
<1>3. JobInv' /\ StageInv' /\ RecInv' /\ LoopInv' /\ TimerInv' /\ LifeInv' /\ ArmedInv'
      /\ MediaInv'
      /\ AckInv'
  <2>1. CASE NoTeardown
    BY <2>1, Undisturbed DEF HandleBye, NoTeardown, loopVars, timerVars, endVars
  <2>2. CASE dlg[t] # "none" /\ ("answered" = "ack_timeout" => dlg[t] = "Early")
             /\ Teardown(t, "answered", FALSE)
    BY <2>2, <1>1, <1>2, TeardownKeeps DEF Whys, HandleBye
  <2> QED
    BY <2>1, <2>2 DEF HandleBye
<1>4. WaitInv'
  BY <1>1, <1>2 DEF DialogInv, WaitInv, HandleBye, txnVars
<1>5. ArrivalsInv'
  BY Undisturbed DEF HandleBye, txnVars, recVars, loopVars, timerVars, endVars
<1> QED
  BY <1>1, <1>2, <1>3, <1>4, <1>5 DEF DialogInv

(* The ACK never came. *)
LEMMA HandleAckTimeoutKeeps ==
  ASSUME DialogInv, HandleAckTimeout
  PROVE  DialogInv'
<1>1. /\ ItemsInv' /\ job = Idle
      /\ Head(queue) \in GoodItems /\ Head(queue).k = "AckTimeout"
      /\ \A b \in Branches : txn[b] = "Proceeding" =>
             (IsInvite(Head(queue)) /\ Head(queue).br = b) \/ WaitsIn(queue', b)
  BY TakeKeeps DEF HandleAckTimeout
<1> DEFINE t == Head(queue).tag
<1>2. ~IsInvite(Head(queue)) /\ t \in Tags
  BY <1>1 DEF GoodItems, IsInvite
<1>3. JobInv' /\ StageInv' /\ RecInv' /\ LoopInv' /\ TimerInv' /\ LifeInv' /\ ArmedInv'
      /\ MediaInv'
      /\ AckInv'
  <2>1. CASE NoTeardown
    BY <2>1, Undisturbed DEF HandleAckTimeout, NoTeardown, loopVars, timerVars, endVars
  <2>2. CASE dlg[t] # "none" /\ ("ack_timeout" = "ack_timeout" => dlg[t] = "Early")
             /\ Teardown(t, "ack_timeout", TRUE)
    BY <2>2, <1>1, <1>2, TeardownKeeps DEF Whys, HandleAckTimeout
  <2> QED
    BY <2>1, <2>2 DEF HandleAckTimeout, StillEarly
<1>4. WaitInv'
  BY <1>1, <1>2 DEF DialogInv, WaitInv, HandleAckTimeout, txnVars
<1>5. ArrivalsInv'
  BY Undisturbed DEF HandleAckTimeout, txnVars, recVars, loopVars, timerVars, endVars
<1> QED
  BY <1>1, <1>2, <1>3, <1>4, <1>5 DEF DialogInv

(* The session timer expired. *)
LEMMA HandleSessionExpiredKeeps ==
  ASSUME DialogInv, HandleSessionExpired
  PROVE  DialogInv'
<1>1. /\ ItemsInv' /\ job = Idle
      /\ Head(queue) \in GoodItems /\ Head(queue).k = "SessionExpired"
      /\ \A b \in Branches : txn[b] = "Proceeding" =>
             (IsInvite(Head(queue)) /\ Head(queue).br = b) \/ WaitsIn(queue', b)
  BY TakeKeeps DEF HandleSessionExpired
<1> DEFINE t == Head(queue).tag
<1>2. ~IsInvite(Head(queue)) /\ t \in Tags
  BY <1>1 DEF GoodItems, IsInvite
<1>3. JobInv' /\ StageInv' /\ RecInv' /\ LoopInv' /\ TimerInv' /\ LifeInv' /\ ArmedInv'
      /\ MediaInv'
      /\ AckInv'
  <2> DEFINE why == IF Head(queue).id = timer[t].id THEN "session_expired" ELSE "stale_expiry"
  <2>1. CASE NoTeardown
    BY <2>1, Undisturbed DEF HandleSessionExpired, NoTeardown, loopVars, timerVars, endVars
  <2>2. CASE dlg[t] # "none" /\ (why = "ack_timeout" => dlg[t] = "Early")
             /\ Teardown(t, why, TRUE)
    BY <2>2, <1>1, <1>2, TeardownKeeps DEF Whys, HandleSessionExpired
  <2> QED
    BY <2>1, <2>2 DEF HandleSessionExpired
<1>4. WaitInv'
  BY <1>1, <1>2 DEF DialogInv, WaitInv, HandleSessionExpired, txnVars
<1>5. ArrivalsInv'
  BY Undisturbed DEF HandleSessionExpired, txnVars, recVars, loopVars, timerVars, endVars
<1> QED
  BY <1>1, <1>2, <1>3, <1>4, <1>5 DEF DialogInv

(* The call lasted too long. *)
LEMMA HandleMaxDurationKeeps ==
  ASSUME DialogInv, HandleMaxDuration
  PROVE  DialogInv'
<1>1. /\ ItemsInv' /\ job = Idle
      /\ Head(queue) \in GoodItems /\ Head(queue).k = "MaxDurationReached"
      /\ \A b \in Branches : txn[b] = "Proceeding" =>
             (IsInvite(Head(queue)) /\ Head(queue).br = b) \/ WaitsIn(queue', b)
  BY TakeKeeps DEF HandleMaxDuration
<1> DEFINE t == Head(queue).tag
<1>2. ~IsInvite(Head(queue)) /\ t \in Tags
  BY <1>1 DEF GoodItems, IsInvite
<1>3. JobInv' /\ StageInv' /\ RecInv' /\ LoopInv' /\ TimerInv' /\ LifeInv' /\ ArmedInv'
      /\ MediaInv'
      /\ AckInv'
  <2>1. CASE NoTeardown
    BY <2>1, Undisturbed DEF HandleMaxDuration, NoTeardown, loopVars, timerVars, endVars
  <2>2. CASE dlg[t] # "none" /\ ("max_duration" = "ack_timeout" => dlg[t] = "Early")
             /\ Teardown(t, "max_duration", TRUE)
    BY <2>2, <1>1, <1>2, TeardownKeeps DEF Whys, HandleMaxDuration
  <2> QED
    BY <2>1, <2>2 DEF HandleMaxDuration
<1>4. WaitInv'
  BY <1>1, <1>2 DEF DialogInv, WaitInv, HandleMaxDuration, txnVars
<1>5. ArrivalsInv'
  BY Undisturbed DEF HandleMaxDuration, txnVars, recVars, loopVars, timerVars, endVars
<1> QED
  BY <1>1, <1>2, <1>3, <1>4, <1>5 DEF DialogInv

(* The worker of the call bridged to dialog t ends it. *)
LEMMA PartnerKeeps ==
  ASSUME DialogInv, NEW t \in Tags, PartnerTearsDown(t)
  PROVE  DialogInv'
<1>1. JobInv' /\ StageInv' /\ RecInv' /\ LoopInv' /\ TimerInv' /\ LifeInv' /\ ArmedInv'
      /\ MediaInv' /\ AckInv'
  BY TeardownKeeps DEF PartnerTearsDown, Whys
<1>2. ArrivalsInv' /\ ItemsInv' /\ WaitInv'
  BY Undisturbed DEF PartnerTearsDown, txnVars
<1> QED
  BY <1>1, <1>2 DEF DialogInv

-----------------------------------------------------------------------------
(* The timer tasks. *)
(* The loop sees its token. *)
LEMMA LoopCancelledKeeps ==
  ASSUME DialogInv, NEW l \in Loops, LoopCancelled(l)
  PROVE  DialogInv'
<1>1. loop[l] \in LoopSet /\ loop[l].st \notin {"free", "over"} /\ loop[l].tag \in Tags
  BY DEF DialogInv, LoopInv, LoopCancelled
<1>2. Over \in LoopSet
  BY <1>1, OverIsLoop DEF LoopSet
<1>3. LoopInv'
  <2>1. handle' \in [Tags -> 0 .. MaxInvites]
    BY <1>1, BoundsAssumption DEF DialogInv, LoopInv, LoopCancelled
  <2> QED
    BY <1>1, <1>2, <2>1, LoopMoves, OverIsLoop DEF DialogInv, LoopInv, LoopSet, LoopCancelled,
       recVars
<1>4. ArrivalsInv' /\ ItemsInv' /\ JobInv' /\ StageInv' /\ WaitInv' /\ RecInv' /\ TimerInv'
      /\ LifeInv'
      /\ ArmedInv' /\ MediaInv' /\ AckInv'
  BY Undisturbed DEF LoopCancelled, txnVars, recVars, loopVars, timerVars, endVars
<1> QED
  BY <1>1, <1>2, <1>3, <1>4 DEF DialogInv

(* The ACK budget is exhausted. *)
LEMMA LoopTimesOutKeeps ==
  ASSUME DialogInv, NEW l \in Loops, LoopTimesOut(l)
  PROVE  DialogInv'
<1>1. loop[l] \in LoopSet /\ loop[l].st \notin {"free", "over"} /\ loop[l].tag \in Tags
  BY DEF DialogInv, LoopInv, LoopTimesOut
<1>2. [loop[l] EXCEPT !.st = "expired", !.late = TRUE] \in LoopSet
  BY <1>1, OverIsLoop DEF LoopSet
<1>3. LoopInv'
  <2>1. handle' \in [Tags -> 0 .. MaxInvites]
    BY <1>1, BoundsAssumption DEF DialogInv, LoopInv, LoopTimesOut
  <2> QED
    BY <1>1, <1>2, <2>1, LoopMoves, OverIsLoop DEF DialogInv, LoopInv, LoopSet, LoopTimesOut,
       recVars
<1>4. ArrivalsInv' /\ ItemsInv' /\ JobInv' /\ StageInv' /\ WaitInv' /\ RecInv' /\ TimerInv'
      /\ LifeInv'
      /\ ArmedInv' /\ MediaInv' /\ AckInv'
  BY Undisturbed DEF LoopTimesOut, txnVars, recVars, loopVars, timerVars, endVars
<1> QED
  BY <1>1, <1>2, <1>3, <1>4 DEF DialogInv

(* The loop looks at its token once more. *)
LEMMA LoopChecksTokenKeeps ==
  ASSUME DialogInv, NEW l \in Loops, LoopChecksToken(l)
  PROVE  DialogInv'
<1>1. loop[l] \in LoopSet /\ loop[l].st \notin {"free", "over"} /\ loop[l].tag \in Tags
  BY DEF DialogInv, LoopInv, LoopChecksToken
<1>2. Over \in LoopSet /\ [loop[l] EXCEPT !.st = "removing"] \in LoopSet
  BY <1>1, OverIsLoop DEF LoopSet
<1>3. LoopInv'
  <2>1. handle' \in [Tags -> 0 .. MaxInvites]
    BY <1>1, BoundsAssumption DEF DialogInv, LoopInv, LoopChecksToken
  <2> QED
    BY <1>1, <1>2, <2>1, LoopMoves, OverIsLoop DEF DialogInv, LoopInv, LoopSet,
       LoopChecksToken, recVars
<1>4. ArrivalsInv' /\ ItemsInv' /\ JobInv' /\ StageInv' /\ WaitInv' /\ RecInv' /\ TimerInv'
      /\ LifeInv'
      /\ ArmedInv' /\ MediaInv' /\ AckInv'
  BY Undisturbed DEF LoopChecksToken, txnVars, recVars, loopVars, timerVars, endVars
<1> QED
  BY <1>1, <1>2, <1>3, <1>4 DEF DialogInv

(* The loop takes its handle out of the map. *)
LEMMA LoopRemovesHandleKeeps ==
  ASSUME DialogInv, NEW l \in Loops, LoopRemovesHandle(l)
  PROVE  DialogInv'
<1>1. loop[l] \in LoopSet /\ loop[l].st \notin {"free", "over"} /\ loop[l].tag \in Tags
  BY DEF DialogInv, LoopInv, LoopRemovesHandle
<1>2. [loop[l] EXCEPT !.st = "sending"] \in LoopSet
  BY <1>1, OverIsLoop DEF LoopSet
<1>3. LoopInv'
  <2>1. handle' \in [Tags -> 0 .. MaxInvites]
    BY <1>1, BoundsAssumption DEF DialogInv, LoopInv, LoopRemovesHandle
  <2> QED
    BY <1>1, <1>2, <2>1, LoopMoves, OverIsLoop DEF DialogInv, LoopInv, LoopSet,
       LoopRemovesHandle, recVars
<1>4. ArmedInv'
  BY <1>1 DEF DialogInv, ArmedInv, LoopInv, LoopRemovesHandle, recVars, timerVars, endVars
<1>5. ArrivalsInv' /\ ItemsInv' /\ JobInv' /\ StageInv' /\ WaitInv' /\ RecInv' /\ TimerInv'
      /\ LifeInv'
      /\ MediaInv' /\ AckInv'
  BY Undisturbed DEF LoopRemovesHandle, txnVars, recVars, loopVars, timerVars, endVars
<1> QED
  BY <1>1, <1>2, <1>3, <1>4, <1>5 DEF DialogInv

(* The loop reports the timeout. *)
LEMMA LoopReportsKeeps ==
  ASSUME DialogInv, NEW l \in Loops, LoopReports(l)
  PROVE  DialogInv'
<1>1. loop[l] \in LoopSet /\ loop[l].st \notin {"free", "over"} /\ loop[l].tag \in Tags
  BY DEF DialogInv, LoopInv, LoopReports
<1>2. Over \in LoopSet
  BY <1>1, OverIsLoop DEF LoopSet
<1>3. LoopInv'
  <2>1. handle' \in [Tags -> 0 .. MaxInvites]
    BY <1>1, BoundsAssumption DEF DialogInv, LoopInv, LoopReports
  <2> QED
    BY <1>1, <1>2, <2>1, LoopMoves, OverIsLoop DEF DialogInv, LoopInv, LoopSet, LoopReports,
       recVars
<1>4. ItemsInv'
  BY <1>1, EventIsGood, QueueAppend DEF DialogInv, ItemsInv, LoopReports
<1>5. ArrivalsInv' /\ JobInv' /\ StageInv' /\ WaitInv' /\ RecInv' /\ TimerInv'
      /\ LifeInv' /\ ArmedInv'
      /\ MediaInv' /\ AckInv'
  BY Undisturbed DEF LoopReports, txnVars, recVars, loopVars, timerVars, endVars
<1> QED
  BY <1>1, <1>2, <1>3, <1>4, <1>5 DEF DialogInv

(* A retransmission fails. *)
LEMMA LoopSendFailsKeeps ==
  ASSUME DialogInv, NEW l \in Loops, LoopSendFails(l)
  PROVE  DialogInv'
<1>1. loop[l] \in LoopSet /\ loop[l].st \notin {"free", "over"} /\ loop[l].tag \in Tags
  BY DEF DialogInv, LoopInv, LoopSendFails
<1>2. [loop[l] EXCEPT !.st = "expired"] \in LoopSet
  BY <1>1, OverIsLoop DEF LoopSet
<1>3. LoopInv'
  <2>1. handle' \in [Tags -> 0 .. MaxInvites]
    BY <1>1, BoundsAssumption DEF DialogInv, LoopInv, LoopSendFails
  <2> QED
    BY <1>1, <1>2, <2>1, LoopMoves, OverIsLoop DEF DialogInv, LoopInv, LoopSet, LoopSendFails,
       recVars
<1>4. ArrivalsInv' /\ ItemsInv' /\ JobInv' /\ StageInv' /\ WaitInv' /\ RecInv' /\ TimerInv'
      /\ LifeInv'
      /\ ArmedInv' /\ MediaInv' /\ AckInv'
  BY Undisturbed DEF LoopSendFails, txnVars, recVars, loopVars, timerVars, endVars
<1> QED
  BY <1>1, <1>2, <1>3, <1>4 DEF DialogInv

(* The session timer fires. *)
LEMMA SessionFiresKeeps ==
  ASSUME DialogInv, NEW t \in Tags, SessionTimerFires(t)
  PROVE  DialogInv'
<1>1. timer[t] \in TimerSet
      /\ Event("SessionExpired", t, timer[t].gen, timer[t].id) \in GoodItems
  BY EventIsGood DEF DialogInv, TimerInv, TimerSet
<1>2. ItemsInv'
  BY <1>1, QueueAppend DEF DialogInv, ItemsInv, SessionTimerFires
<1>3. TimerInv' /\ ArmedInv'
  <2>1. timer' \in [Tags -> TimerSet] /\ \A u \in Tags : timer'[u].gen = timer[u].gen
    BY <1>1 DEF DialogInv, TimerInv, TimerSet, SessionTimerFires
  <2> QED
    BY <2>1 DEF DialogInv, TimerInv, ArmedInv, SessionTimerFires, recVars, loopVars, endVars
<1>4. ArrivalsInv' /\ JobInv' /\ StageInv' /\ WaitInv' /\ RecInv' /\ LoopInv'
      /\ LifeInv' /\ MediaInv'
      /\ AckInv'
  BY Undisturbed DEF SessionTimerFires, txnVars, recVars, loopVars, timerVars, endVars
<1> QED
  BY <1>1, <1>2, <1>3, <1>4 DEF DialogInv

(* The duration guard fires. *)
LEMMA GuardFiresKeeps ==
  ASSUME DialogInv, NEW t \in Tags, GuardFires(t)
  PROVE  DialogInv'
<1>1. Event("MaxDurationReached", t, 0, 0) \in GoodItems
  BY EventIsGood
<1>2. ItemsInv'
  BY <1>1, QueueAppend DEF DialogInv, ItemsInv, GuardFires
<1>3. TimerInv' /\ ArmedInv'
  BY DEF DialogInv, TimerInv, ArmedInv, GuardFires, recVars, loopVars, endVars
<1>4. ArrivalsInv' /\ JobInv' /\ StageInv' /\ WaitInv' /\ RecInv' /\ LoopInv'
      /\ LifeInv' /\ MediaInv'
      /\ AckInv'
  BY Undisturbed DEF GuardFires, txnVars, recVars, loopVars, timerVars, endVars
<1> QED
  BY <1>1, <1>2, <1>3, <1>4 DEF DialogInv

-----------------------------------------------------------------------------
(* Every step of the ingress loop, the worker and the timers keeps the     *)
(* invariant.                                                              *)
LEMMA DialogStep == DialogInv /\ [DialogNext]_dialogVars => DialogInv'
<1> SUFFICES ASSUME DialogInv, [DialogNext]_dialogVars PROVE DialogInv'
  OBVIOUS
<1>1. CASE IngressStep
  <2>1. CASE InviteArrives
    <3>1. PICK tm \in BOOLEAN : AdmitInvite("INVITE", "inv", 0, tm)
      BY <2>1 DEF InviteArrives
    <3>2. 0 \in 0 .. made
      BY BoundsAssumption DEF DialogInv, RecInv
    <3> QED
      BY <3>1, <3>2, AdmitKeeps DEF Branches
  <2>2. CASE ReinviteArrives
    <3>1. PICK t \in 1 .. made, tm \in BOOLEAN : AdmitInvite("REINVITE", "re", t, tm)
      BY <2>2 DEF ReinviteArrives
    <3>2. t \in 0 .. made
      BY BoundsAssumption DEF DialogInv, RecInv
    <3> QED
      BY <3>1, <3>2, AdmitKeeps DEF Branches
  <2> QED
    BY <1>1, <2>1, <2>2, InDialogArrivesKeeps, RejectedAckArrivesKeeps, CancelPendingKeeps,
       CancelAfterFinalKeeps DEF IngressStep
<1>2. CASE ForwardInternal
  BY <1>2, ForwardKeeps
<1>3. CASE DialogWorkerStep
  BY <1>3, InviteStartsKeeps, NegotiateKeeps, SecondKeeps, TakesTagKeeps, AttachFailsKeeps,
     EstablishKeeps, OpensCdrKeeps, AnswersKeeps, ArmsKeeps, InDialogStartsKeeps,
     RenegFailsKeeps, RenegSucceedsKeeps, RearmsKeeps, HandleAckKeeps,
     HandleCancelKeeps, HandleByeKeeps, HandleAckTimeoutKeeps, HandleSessionExpiredKeeps,
     HandleMaxDurationKeeps DEF DialogWorkerStep
<1>4. CASE \E b \in Branches : TxnEnds(b)
  BY <1>4, TxnEndsKeeps
<1>5. CASE \E l \in Loops : LoopStep(l)
  BY <1>5, LoopCancelledKeeps, LoopTimesOutKeeps, LoopChecksTokenKeeps, LoopRemovesHandleKeeps,
     LoopReportsKeeps, LoopSendFailsKeeps DEF LoopStep
<1>6. CASE \E t \in Tags : SessionTimerFires(t) \/ GuardFires(t) \/ PartnerTearsDown(t)
  BY <1>6, SessionFiresKeeps, GuardFiresKeeps, PartnerKeeps
<1>7. CASE UNCHANGED dialogVars
  BY <1>7, Undisturbed DEF dialogVars, DialogInv
<1> QED
  BY <1>1, <1>2, <1>3, <1>4, <1>5, <1>6, <1>7 DEF DialogNext

LEMMA OneIsNotNone ==
  ASSUME NEW S, NEW s \in Seq(S), Len(s) = 1
  PROVE  s # <<>>
BY SMTT(30)

(* The inductive invariant implies what the runs check. *)
LEMMA InvGivesSound == DialogInv => DialogsSound
<1> SUFFICES ASSUME DialogInv PROVE DialogsSound
  OBVIOUS
<1>1. InviteAnswered
  BY DEF InviteAnswered, DialogInv, WaitInv, InHand, WaitsIn
<1>2. EndpointsAccounted
  BY DEF EndpointsAccounted, DialogInv, MediaInv, Owners
<1>3. NothingOutlivesDialog
  <2>1. ASSUME NEW t \in Tags, dlg[t] = "none", cdr[t] = "pending"
        PROVE  cut[t] = "cdr"
    BY <2>1, BoundsAssumption DEF DialogInv, LifeInv, RecInv, Tags
  <2> QED
    BY <2>1 DEF NothingOutlivesDialog, DialogInv, ArmedInv
<1>4. EndedOnce
  <2>1. ASSUME NEW t \in Tags
        PROVE  /\ Len(ends[t]) <= 1
               /\ byes[t] <= 1
               /\ dlg[t] # "none" => ends[t] = <<>>
               /\ cdr[t] = "row" => ends[t] # <<>>
               /\ ends[t] # <<>> /\ cut[t] # "cdr" => cdr[t] = "row"
    <3>1. CASE t <= made /\ dlg[t] = "none"
      <4>1. Len(ends[t]) = 1 /\ byes[t] <= 1 /\ (cut[t] # "cdr" => cdr[t] = "row")
        BY <3>1 DEF DialogInv, LifeInv
      <4>2. ends[t] # <<>>
        BY <4>1, OneIsNotNone DEF DialogInv, LifeInv
      <4> QED
        BY <3>1, <4>1, <4>2
    <3>2. CASE t > made \/ dlg[t] # "none"
      <4>1. ends[t] = <<>> /\ byes[t] = 0 /\ cdr[t] # "row" /\ Len(<<>>) = 0
        BY <3>2 DEF DialogInv, LifeInv
      <4> QED
        BY <4>1
    <3> QED
      BY <3>1, <3>2, BoundsAssumption DEF DialogInv, RecInv, Tags
  <2> QED
    BY <2>1 DEF EndedOnce
<1>5. AckedNeverTimedOut
  BY DEF AckedNeverTimedOut, DialogInv, AckInv
<1> QED
  BY <1>1, <1>2, <1>3, <1>4, <1>5 DEF DialogsSound

LEMMA InvGivesType == DialogInv => DialogTypeOK
<1> SUFFICES ASSUME DialogInv PROVE DialogTypeOK
  OBVIOUS
<1>1. queue \in Seq(ItemSet) /\ internal \in Seq(ItemSet)
  <2>1. \A item \in GoodItems : item \in ItemSet
    BY DEF GoodItems
  <2> QED
    BY <2>1 DEF DialogInv, ItemsInv
<1>2. live \in Nat
  BY OwnersFinite DEF DialogInv, MediaInv
<1> QED
  BY <1>1, <1>2 DEF DialogTypeOK, DialogInv, ArrivalsInv, JobInv, JobSet, StageInv, WaitInv, RecInv, LoopInv,
     LoopSet, TimerInv, TimerSet, LifeInv, Whys, AckInv

LEMMA DialogInvHolds == DialogSpec => []DialogInv
BY DialogInitInv, DialogStep, PTL DEF DialogSpec

(* The state of the dialogs is well typed, for any number of requests,     *)
(* dialogs and 2xx loops: the counters stay in range although they are     *)
(* bounded only through the loops a 2xx needs (uas.rs).                    *)
THEOREM DialogsAreTyped == DialogSpec => []DialogTypeOK
BY DialogInvHolds, InvGivesType, PTL

(* On every interleaving of requests, CANCELs, ACKs, timers and teardowns  *)
(* by the bridged partner every INVITE is answered, no endpoint leaks, a   *)
(* dialog ends once, an acknowledged call is never ended for want of its   *)
(* ACK, and nothing stays armed for a dialog that is gone but what the     *)
(* handler it was cut off in set up afterwards (uas.rs: handle_invite,     *)
(* teardown_call, handle_internal).                                        *)
THEOREM DialogsAreSound == DialogSpec => []DialogsSound
BY DialogInvHolds, InvGivesSound, PTL

-----------------------------------------------------------------------------
(* Outbound calls *)

Hung == {"bye", "ok", "removed"}
Busy == {"release", "unbridge", "bridge", "record"}
Events == [kind : {"created", "terminated"}, call : Calls]
HangSet == [pc : Hung, call : Calls]
BridgeSet == [pc : Busy, call : Calls, other : Calls, old : SUBSET (1 .. MaxBridges),
              new : 0 .. MaxBridges]
InBus(k, c) == \E i \in 1 .. Len(bus) : bus[i].kind = k /\ bus[i].call = c

\* A call that rings or is acknowledged holds its endpoint, and the UAC has a
\* dialog for every call the remote end has not left.
CallInv ==
    /\ place \in [Calls -> {"new", "ringing", "acked", "inserted", "up", "failed", "tagless"}]
    /\ peer \in [Calls -> {"idle", "answered", "confirmed", "over"}]
    /\ endpoints \subseteq Calls
    /\ dialogs \subseteq endpoints
    /\ \A c \in Calls :
        /\ place[c] \in {"ringing", "acked", "tagless"} => c \in endpoints
        /\ c \in dialogs => place[c] \in {"inserted", "up"}
        /\ place[c] = "inserted" => c \in dialogs
        /\ peer[c] \in {"answered", "confirmed"} /\ place[c] = "up" => c \in dialogs
        /\ peer[c] = "confirmed" => place[c] \in {"acked", "inserted", "up"}

\* Only a call that is up is hung up; a 200 to the BYE means the remote end is
\* over, and a dialog that was removed does not come back.
ToolInv ==
    /\ tool \in [Users -> {IdleUser} \cup HangSet \cup BridgeSet]
    /\ tools \in 0 .. MaxTools
    /\ overlap \in BOOLEAN
    /\ \A u \in Users : tool[u].pc \in Hung =>
        /\ place[tool[u].call] = "up"
        /\ tool[u].pc # "bye" => peer[tool[u].call] = "over"
        /\ tool[u].pc = "removed" => tool[u].call \notin dialogs

\* A call is announced once, and before its end.
BusInv ==
    /\ bus \in Seq(Events) /\ Len(bus) <= BusDepth
    /\ lagged \in BOOLEAN
    /\ \A i \in 1 .. Len(bus) :
        /\ place[bus[i].call] = "up"
        /\ bus[i].kind = "created" => phase[bus[i].call] = "unknown"
        /\ bus[i].kind = "terminated" => bus[i].call \notin dialogs
    /\ \A i, j \in 1 .. Len(bus) :
          i < j /\ bus[i].call = bus[j].call => bus[j].kind = "terminated"

PhaseInv ==
    /\ phase \in [Calls -> {"unknown", "Live", "Terminated"}]
    /\ bridgeOf \in [Calls -> 0 .. MaxBridges]
    /\ \A c \in Calls :
        /\ phase[c] # "unknown" => place[c] = "up"
        /\ phase[c] = "unknown" => bridgeOf[c] = 0
        /\ phase[c] = "Terminated" => c \notin dialogs

\* As long as no event was lost, what the registry does not show yet is on the bus.
FollowInv ==
    ~lagged => \A c \in Calls : place[c] = "up" =>
        /\ phase[c] # "unknown" \/ InBus("created", c)
        /\ c \in dialogs \/ Removing(c) \/ phase[c] = "Terminated" \/ InBus("terminated", c)

\* A bridge request works on calls the registry knows; when it is alone, what is
\* recorded on its legs is what it has still to release.
BridgeInv ==
    /\ bridges \subseteq 1 .. bridgesMade
    /\ bridgesMade \in 0 .. MaxBridges
    /\ tool[Drainer].pc \notin Busy
    /\ \A u \in Clients : tool[u].pc \in Busy =>
          phase[tool[u].call] # "unknown" /\ phase[tool[u].other] # "unknown"
    /\ ~overlap =>
        /\ \A u, v \in Clients : tool[u].pc \in Busy /\ tool[v].pc \in Busy => u = v
        /\ \A u \in Clients : tool[u].pc = "release" =>
              /\ bridgeOf[tool[u].call] \in tool[u].old \cup {0}
              /\ bridgeOf[tool[u].other] \in tool[u].old \cup {0}
        /\ \A u \in Clients : tool[u].pc = "record" =>
              bridgeOf[tool[u].call] = 0 /\ bridgeOf[tool[u].other] = 0
    /\ BridgesReachable

\* A listed call that still has its dialog is to be hung up, is being hung up, or
\* could not be.
DrainInv ==
    /\ drain \in [pc : {"off", "on", "down"}, todo : SUBSET Calls, listed : SUBSET Calls,
                  unended : SUBSET Calls]
    /\ drain.pc = "off" => drain.listed = {} /\ tool[Drainer] = IdleUser
    /\ drain.pc = "down" => drain.todo = {} /\ tool[Drainer] = IdleUser
    /\ drain.todo \subseteq drain.listed
    /\ \A c \in drain.listed : place[c] = "up"
    /\ \A c \in drain.listed \cap dialogs :
          \/ c \in drain.todo \cup drain.unended
          \/ tool[Drainer].pc \in {"bye", "ok"} /\ tool[Drainer].call = c

CallsInv ==
    /\ CallInv
    /\ UacEndpointsAccounted
    /\ ToolInv
    /\ BusInv
    /\ PhaseInv
    /\ FollowInv
    /\ BridgeInv
    /\ DrainInv

-----------------------------------------------------------------------------
(* A part of the invariant holds on as long as the variables it is about   *)
(* do not change.                                                          *)
LEMMA CallsUndisturbed ==
  ASSUME CallsInv
  PROVE  /\ UNCHANGED <<place, peer, endpoints, dialogs>> => CallInv'
         /\ UNCHANGED <<place, endpoints, dialogs, tool>> => UacEndpointsAccounted'
         /\ UNCHANGED <<tool, tools, overlap, place, peer, dialogs>> => ToolInv'
         /\ UNCHANGED <<bus, lagged, place, phase, dialogs>> => BusInv'
         /\ UNCHANGED <<phase, bridgeOf, place, dialogs>> => PhaseInv'
         /\ UNCHANGED <<lagged, place, phase, bus, dialogs, tool>> => FollowInv'
         /\ UNCHANGED <<bridges, bridgesMade, tool, phase, overlap, bridgeOf>> => BridgeInv'
         /\ UNCHANGED <<drain, tool, place, dialogs>> => DrainInv'
<1>1. UNCHANGED <<place, peer, endpoints, dialogs>> => CallInv'
  BY DEF CallsInv, CallInv
<1>2. UNCHANGED <<place, endpoints, dialogs, tool>> => UacEndpointsAccounted'
  BY DEF CallsInv, UacEndpointsAccounted, Removing
<1>3. UNCHANGED <<tool, tools, overlap, place, peer, dialogs>> => ToolInv'
  BY DEF CallsInv, ToolInv
<1>4. UNCHANGED <<bus, lagged, place, phase, dialogs>> => BusInv'
  BY DEF CallsInv, BusInv
<1>5. UNCHANGED <<phase, bridgeOf, place, dialogs>> => PhaseInv'
  BY DEF CallsInv, PhaseInv
<1>6. UNCHANGED <<lagged, place, phase, bus, dialogs, tool>> => FollowInv'
  BY DEF CallsInv, FollowInv, Removing, InBus
<1>7. UNCHANGED <<bridges, bridgesMade, tool, phase, overlap, bridgeOf>> => BridgeInv'
  BY DEF CallsInv, BridgeInv, BridgesReachable
<1>8. UNCHANGED <<drain, tool, place, dialogs>> => DrainInv'
  BY DEF CallsInv, DrainInv
<1> QED
  BY <1>1, <1>2, <1>3, <1>4, <1>5, <1>6, <1>7, <1>8

LEMMA CallsInitInv == CallsInit => CallsInv
<1> SUFFICES ASSUME CallsInit PROVE CallsInv
  OBVIOUS
<1> USE DEF CallsInit
<1>1. CallInv /\ UacEndpointsAccounted /\ PhaseInv
  BY CallBoundsAssumption DEF CallInv, UacEndpointsAccounted, PhaseInv
<1>2. \A u \in Users : tool[u] = IdleUser /\ tool[u].pc = "idle"
  BY DEF IdleUser
<1>3. ToolInv
  <2>1. tool \in [Users -> {IdleUser} \cup HangSet \cup BridgeSet]
    OBVIOUS
  <2>2. \A u \in Users : tool[u].pc \notin Hung
    BY <1>2 DEF Hung
  <2>3. tools \in 0 .. MaxTools
    BY CallBoundsAssumption
  <2>4. overlap \in BOOLEAN
    OBVIOUS
  <2> QED
    BY <2>1, <2>2, <2>3, <2>4 DEF ToolInv
<1>4. BusInv
  <2>1. bus \in Seq(Events) /\ Len(bus) = 0
    OBVIOUS
  <2>2. 1 .. Len(bus) = {} /\ Len(bus) <= BusDepth
    BY <2>1, CallBoundsAssumption
  <2>3. lagged \in BOOLEAN
    OBVIOUS
  <2> QED
    BY <2>1, <2>2, <2>3 DEF BusInv
<1>5. FollowInv
  BY DEF FollowInv
<1>6. BridgeInv
  <2>1. Drainer \in Users /\ \A u \in Clients : u \in Users
    BY DEF Users
  <2> QED
    BY <1>2, <2>1, CallBoundsAssumption DEF BridgeInv, BridgesReachable, Busy
<1>7. DrainInv
  BY <1>2 DEF DrainInv, Users
<1> QED
  BY <1>1, <1>3, <1>4, <1>5, <1>6, <1>7 DEF CallsInv

(* What a user is doing tells which fields its request has. *)
LEMMA ToolShape ==
  ASSUME CallsInv, NEW u \in Users
  PROVE  /\ tool[u].pc \in Hung => tool[u] \in HangSet /\ tool[u].call \in Calls
         /\ tool[u].pc \in Busy => /\ tool[u] \in BridgeSet /\ u \in Clients
                                   /\ tool[u].call \in Calls /\ tool[u].other \in Calls
         /\ tool[u].pc \notin Hung /\ tool[u].pc \notin Busy => tool[u] = IdleUser
<1>1. tool[u] \in {IdleUser} \cup HangSet \cup BridgeSet
  BY DEF CallsInv, ToolInv
<1>2. IdleUser.pc = "idle"
  BY DEF IdleUser
<1>3. tool[u].pc \in Busy => u \in Clients
  BY DEF CallsInv, BridgeInv, Users
<1> QED
  BY <1>1, <1>2, <1>3 DEF HangSet, BridgeSet, Hung, Busy

(* The calls about to be released stay the same while nobody enters or     *)
(* leaves that point of hangup.                                            *)
LEMMA RemovingSame ==
  ASSUME CallsInv, NEW u \in Users, NEW t, tool' = [tool EXCEPT ![u] = t],
         tool[u].pc # "removed", t.pc # "removed"
  PROVE  \A c : Removing(c)' <=> Removing(c)
<1>1. \A v \in Users : tool'[v] = IF v = u THEN t ELSE tool[v]
  BY DEF CallsInv, ToolInv
<1> QED
  BY <1>1 DEF Removing

(* EventBus::publish: the event is the last one on the bus, the others     *)
(* keep their order, and an unlagged bus lost none of them.                *)
LEMMA PublishKeeps ==
  ASSUME CallsInv, NEW e \in Events, Publish(e)
  PROVE  \E k \in {0, 1} :
           /\ bus' \in Seq(Events) /\ Len(bus') <= BusDepth /\ lagged' \in BOOLEAN
           /\ Len(bus') = Len(bus) + 1 - k
           /\ bus'[Len(bus')] = e
           /\ Len(bus') \in 1 .. Len(bus')
           /\ \A i \in 1 .. Len(bus') :
                 i # Len(bus') => i + k \in 1 .. Len(bus) /\ bus'[i] = bus[i + k]
           /\ ~lagged' => ~lagged /\ k = 0
<1>1. bus \in Seq(Events) /\ Len(bus) <= BusDepth /\ Len(bus) \in Nat /\ lagged \in BOOLEAN
  BY DEF CallsInv, BusInv
<1>2. CASE Len(bus) < BusDepth
  <2>1. bus' = Append(bus, e) /\ Len(bus') = Len(bus) + 1
    BY <1>1, <1>2 DEF Publish
  <2>2. lagged' = lagged
    BY <1>1, <1>2, CallBoundsAssumption DEF Publish
  <2>3. Len(bus') <= BusDepth /\ Len(bus') \in 1 .. Len(bus') /\ bus' \in Seq(Events)
    BY <1>1, <1>2, <2>1, CallBoundsAssumption
  <2>4. bus'[Len(bus')] = e
    BY <1>1, <2>1
  <2>5. \A i \in 1 .. Len(bus') :
          i # Len(bus') => i + 0 \in 1 .. Len(bus) /\ bus'[i] = bus[i + 0]
    BY <1>1, <2>1, SMTT(30)
  <2> QED
    BY <1>1, <2>1, <2>2, <2>3, <2>4, <2>5
<1>3. CASE ~(Len(bus) < BusDepth)
  <2>1. Len(bus) = BusDepth /\ bus # <<>>
    BY <1>1, <1>3, CallBoundsAssumption
  <2>2. bus' = Append(Tail(bus), e) /\ lagged' = TRUE
    BY <1>3, <2>1 DEF Publish
  <2>3. Tail(bus) \in Seq(Events) /\ Len(Tail(bus)) = Len(bus) - 1
    BY <1>1, <2>1
  <2>4. Len(bus') = Len(bus) /\ bus' \in Seq(Events) /\ bus'[Len(bus')] = e
    BY <1>1, <2>2, <2>3
  <2>5. Len(bus') <= BusDepth /\ Len(bus') \in 1 .. Len(bus')
    BY <2>1, <2>4, CallBoundsAssumption
  <2>6. \A i \in 1 .. Len(bus') :
          i # Len(bus') => i + 1 \in 1 .. Len(bus) /\ bus'[i] = bus[i + 1]
    <3> SUFFICES ASSUME NEW i \in 1 .. Len(bus'), i # Len(bus')
                 PROVE  i + 1 \in 1 .. Len(bus) /\ bus'[i] = bus[i + 1]
      BY SMTT(30)
    <3>1. i \in 1 .. Len(Tail(bus)) /\ i + 1 \in 1 .. Len(bus)
      <4>1. Len(bus') = Len(bus) /\ Len(Tail(bus)) = Len(bus) - 1 /\ Len(bus) \in Nat
        BY <1>1, <2>3, <2>4
      <4>2. i \in Nat /\ 1 <= i /\ i < Len(bus)
        BY <4>1
      <4> QED
        BY <4>1, <4>2, SMTT(30)
    <3>2. bus'[i] = Tail(bus)[i] /\ Tail(bus)[i] = bus[i + 1]
      BY <1>1, <2>1, <2>2, <2>3, <3>1
    <3> QED
      BY <3>1, <3>2
  <2>7. Len(bus') = Len(bus) + 1 - 1
    BY <1>1, <2>4
  <2> QED
    BY <2>2, <2>4, <2>5, <2>6, <2>7
<1> QED
  BY <1>2, <1>3

-----------------------------------------------------------------------------
(* The calls that are up, their dialogs, the tools, the bus and the drain  *)
(* do not notice what happens to a call before it is up.                   *)
LEMMA EarlyStep ==
  ASSUME CallsInv,
         \A d \in Calls : /\ place'[d] = "up" <=> place[d] = "up"
                          /\ place[d] = "up" => (d \in dialogs' <=> d \in dialogs)
                          /\ peer[d] = "over" => peer'[d] = "over",
         UNCHANGED <<busVars, bridgeVars, tool, tools, drain>>
  PROVE  ToolInv' /\ BusInv' /\ PhaseInv' /\ FollowInv' /\ BridgeInv' /\ DrainInv'
<1> USE DEF busVars, bridgeVars
<1>1. ToolInv'
  <2>1. \A u \in Users : tool[u].pc \in Hung => tool[u].call \in Calls
    BY ToolShape
  <2> QED
    BY <2>1 DEF CallsInv, ToolInv
<1>2. BusInv'
  <2>1. \A i \in 1 .. Len(bus) : bus[i] \in Events /\ bus[i].call \in Calls
    <3>1. bus \in Seq(Events)
      BY DEF CallsInv, BusInv
    <3>2. \A i \in 1 .. Len(bus) : bus[i] \in Events
      BY <3>1
    <3> QED
      BY <3>2 DEF Events
  <2> QED
    BY <2>1 DEF CallsInv, BusInv
<1>3. PhaseInv'
  BY DEF CallsInv, PhaseInv
<1>4. FollowInv'
  BY DEF CallsInv, FollowInv, Removing, InBus
<1>5. BridgeInv'
  BY CallsUndisturbed
<1>6. DrainInv'
  <2>1. drain.listed \subseteq Calls
    BY DEF CallsInv, DrainInv
  <2> QED
    BY <2>1 DEF CallsInv, DrainInv
<1> QED
  BY <1>1, <1>2, <1>3, <1>4, <1>5, <1>6

(* place_call allocates the endpoint and sends the INVITE. *)
LEMMA PlaceCallKeeps ==
  ASSUME CallsInv, NEW c \in Calls, PlaceCall(c)
  PROVE  CallsInv'
<1>1. CallInv'
  BY DEF CallsInv, CallInv, PlaceCall, Placed
<1>2. UacEndpointsAccounted'
  BY DEF CallsInv, CallInv, UacEndpointsAccounted, Removing, PlaceCall, Placed
<1>3. ToolInv' /\ BusInv' /\ PhaseInv' /\ FollowInv' /\ BridgeInv' /\ DrainInv'
  <2>1. \A d \in Calls : /\ place'[d] = "up" <=> place[d] = "up"
                         /\ place[d] = "up" => (d \in dialogs' <=> d \in dialogs)
                         /\ peer[d] = "over" => peer'[d] = "over"
    BY DEF CallsInv, CallInv, PlaceCall, Placed
  <2> QED
    BY <2>1, EarlyStep DEF PlaceCall
<1> QED
  BY <1>1, <1>2, <1>3 DEF CallsInv

(* The remote party accepts. *)
LEMMA PeerAnswersKeeps ==
  ASSUME CallsInv, NEW c \in Calls, PeerAnswers(c)
  PROVE  CallsInv'
<1>1. CallInv'
  BY DEF CallsInv, CallInv, PeerAnswers, Placed
<1>2. UacEndpointsAccounted'
  BY DEF CallsInv, CallInv, UacEndpointsAccounted, Removing, PeerAnswers, Placed
<1>3. ToolInv' /\ BusInv' /\ PhaseInv' /\ FollowInv' /\ BridgeInv' /\ DrainInv'
  <2>1. \A d \in Calls : /\ place'[d] = "up" <=> place[d] = "up"
                         /\ place[d] = "up" => (d \in dialogs' <=> d \in dialogs)
                         /\ peer[d] = "over" => peer'[d] = "over"
    BY DEF CallsInv, CallInv, PeerAnswers, Placed
  <2> QED
    BY <2>1, EarlyStep DEF PeerAnswers
<1> QED
  BY <1>1, <1>2, <1>3 DEF CallsInv

(* It refuses. *)
LEMMA RejectedKeeps ==
  ASSUME CallsInv, NEW c \in Calls, Rejected(c)
  PROVE  CallsInv'
<1>1. CallInv'
  BY DEF CallsInv, CallInv, Rejected, Placed
<1>2. UacEndpointsAccounted'
  BY DEF CallsInv, CallInv, UacEndpointsAccounted, Removing, Rejected, Placed
<1>3. ToolInv' /\ BusInv' /\ PhaseInv' /\ FollowInv' /\ BridgeInv' /\ DrainInv'
  <2>1. \A d \in Calls : /\ place'[d] = "up" <=> place[d] = "up"
                         /\ place[d] = "up" => (d \in dialogs' <=> d \in dialogs)
                         /\ peer[d] = "over" => peer'[d] = "over"
    BY DEF CallsInv, CallInv, Rejected, Placed
  <2> QED
    BY <2>1, EarlyStep DEF Rejected
<1> QED
  BY <1>1, <1>2, <1>3 DEF CallsInv

(* The deadline passes. *)
LEMMA GivesUpKeeps ==
  ASSUME CallsInv, NEW c \in Calls, GivesUp(c)
  PROVE  CallsInv'
<1>1. CallInv'
  BY DEF CallsInv, CallInv, GivesUp, Placed
<1>2. UacEndpointsAccounted'
  BY DEF CallsInv, CallInv, UacEndpointsAccounted, Removing, GivesUp, Placed
<1>3. ToolInv' /\ BusInv' /\ PhaseInv' /\ FollowInv' /\ BridgeInv' /\ DrainInv'
  <2>1. \A d \in Calls : /\ place'[d] = "up" <=> place[d] = "up"
                         /\ place[d] = "up" => (d \in dialogs' <=> d \in dialogs)
                         /\ peer[d] = "over" => peer'[d] = "over"
    BY DEF CallsInv, CallInv, GivesUp, Placed
  <2> QED
    BY <2>1, EarlyStep DEF GivesUp
<1> QED
  BY <1>1, <1>2, <1>3 DEF CallsInv

(* A 200 without a To tag. *)
LEMMA TaglessOkKeeps ==
  ASSUME CallsInv, NEW c \in Calls, TaglessOk(c)
  PROVE  CallsInv'
<1>1. CallInv'
  BY DEF CallsInv, CallInv, TaglessOk, Placed
<1>2. UacEndpointsAccounted'
  BY DEF CallsInv, CallInv, UacEndpointsAccounted, Removing, TaglessOk, Placed
<1>3. ToolInv' /\ BusInv' /\ PhaseInv' /\ FollowInv' /\ BridgeInv' /\ DrainInv'
  <2>1. \A d \in Calls : /\ place'[d] = "up" <=> place[d] = "up"
                         /\ place[d] = "up" => (d \in dialogs' <=> d \in dialogs)
                         /\ peer[d] = "over" => peer'[d] = "over"
    BY DEF CallsInv, CallInv, TaglessOk, Placed
  <2> QED
    BY <2>1, EarlyStep DEF TaglessOk
<1> QED
  BY <1>1, <1>2, <1>3 DEF CallsInv

(* The 200 is acknowledged. *)
LEMMA AcksKeeps ==
  ASSUME CallsInv, NEW c \in Calls, Acks(c)
  PROVE  CallsInv'
<1>1. CallInv'
  BY DEF CallsInv, CallInv, Acks, Placed
<1>2. UacEndpointsAccounted'
  BY DEF CallsInv, CallInv, UacEndpointsAccounted, Removing, Acks, Placed
<1>3. ToolInv' /\ BusInv' /\ PhaseInv' /\ FollowInv' /\ BridgeInv' /\ DrainInv'
  <2>1. \A d \in Calls : /\ place'[d] = "up" <=> place[d] = "up"
                         /\ place[d] = "up" => (d \in dialogs' <=> d \in dialogs)
                         /\ peer[d] = "over" => peer'[d] = "over"
    BY DEF CallsInv, CallInv, Acks, Placed
  <2> QED
    BY <2>1, EarlyStep DEF Acks
<1> QED
  BY <1>1, <1>2, <1>3 DEF CallsInv

(* The ACK arrives. *)
LEMMA AckArrivesKeeps ==
  ASSUME CallsInv, NEW c \in Calls, AckArrives(c)
  PROVE  CallsInv'
<1>1. CallInv'
  BY DEF CallsInv, CallInv, AckArrives, Placed
<1>2. UacEndpointsAccounted'
  BY DEF CallsInv, CallInv, UacEndpointsAccounted, Removing, AckArrives, Placed
<1>3. ToolInv' /\ BusInv' /\ PhaseInv' /\ FollowInv' /\ BridgeInv' /\ DrainInv'
  <2>1. \A d \in Calls : /\ place'[d] = "up" <=> place[d] = "up"
                         /\ place[d] = "up" => (d \in dialogs' <=> d \in dialogs)
                         /\ peer[d] = "over" => peer'[d] = "over"
    BY DEF CallsInv, CallInv, AckArrives, Placed
  <2> QED
    BY <2>1, EarlyStep DEF AckArrives
<1> QED
  BY <1>1, <1>2, <1>3 DEF CallsInv

(* The remote party hangs up. *)
LEMMA PeerHangsUpKeeps ==
  ASSUME CallsInv, NEW c \in Calls, PeerHangsUp(c)
  PROVE  CallsInv'
<1>1. CallInv'
  BY DEF CallsInv, CallInv, PeerHangsUp, Placed
<1>2. UacEndpointsAccounted'
  BY DEF CallsInv, CallInv, UacEndpointsAccounted, Removing, PeerHangsUp, Placed
<1>3. ToolInv' /\ BusInv' /\ PhaseInv' /\ FollowInv' /\ BridgeInv' /\ DrainInv'
  <2>1. \A d \in Calls : /\ place'[d] = "up" <=> place[d] = "up"
                         /\ place[d] = "up" => (d \in dialogs' <=> d \in dialogs)
                         /\ peer[d] = "over" => peer'[d] = "over"
    BY DEF CallsInv, CallInv, PeerHangsUp, Placed
  <2> QED
    BY <2>1, EarlyStep DEF PeerHangsUp
<1> QED
  BY <1>1, <1>2, <1>3 DEF CallsInv

(* The dialog is recorded. *)
LEMMA InsertsDialogKeeps ==
  ASSUME CallsInv, NEW c \in Calls, InsertsDialog(c)
  PROVE  CallsInv'
<1>1. CallInv'
  BY DEF CallsInv, CallInv, InsertsDialog, Placed
<1>2. UacEndpointsAccounted'
  BY DEF CallsInv, CallInv, UacEndpointsAccounted, Removing, InsertsDialog, Placed
<1>3. ToolInv' /\ BusInv' /\ PhaseInv' /\ FollowInv' /\ BridgeInv' /\ DrainInv'
  <2>1. \A d \in Calls : /\ place'[d] = "up" <=> place[d] = "up"
                         /\ place[d] = "up" => (d \in dialogs' <=> d \in dialogs)
                         /\ peer[d] = "over" => peer'[d] = "over"
    BY DEF CallsInv, CallInv, InsertsDialog, Placed
  <2> QED
    BY <2>1, EarlyStep DEF InsertsDialog
<1> QED
  BY <1>1, <1>2, <1>3 DEF CallsInv

(* The call is up, and its dialog announced: the first event about it.     *)
LEMMA PublishesCreatedKeeps ==
  ASSUME CallsInv, NEW c \in Calls, PublishesCreated(c)
  PROVE  CallsInv'
<1> DEFINE e == CallEvent("created", c)
<1>1. e \in Events /\ e.kind = "created" /\ e.call = c
  BY DEF CallEvent, Events
<1>2. /\ place[c] = "inserted" /\ place' = [place EXCEPT ![c] = "up"]
      /\ UNCHANGED <<peer, endpoints, dialogs, phase, bridgeVars, tool, tools, drain>>
  BY DEF PublishesCreated, Placed
<1>3. \A d \in Calls : place'[d] = IF d = c THEN "up" ELSE place[d]
  BY <1>2 DEF CallsInv, CallInv
<1>4. PICK k \in {0, 1} :
           /\ bus' \in Seq(Events) /\ Len(bus') <= BusDepth /\ lagged' \in BOOLEAN
           /\ Len(bus') = Len(bus) + 1 - k
           /\ bus'[Len(bus')] = e
           /\ Len(bus') \in 1 .. Len(bus')
           /\ \A i \in 1 .. Len(bus') :
                 i # Len(bus') => i + k \in 1 .. Len(bus) /\ bus'[i] = bus[i + k]
           /\ ~lagged' => ~lagged /\ k = 0
  BY <1>1, PublishKeeps DEF PublishesCreated
<1> HIDE DEF e
<1>5. CallInv'
  BY <1>2, <1>3 DEF CallsInv, CallInv
<1>6. UacEndpointsAccounted'
  BY <1>2, <1>3 DEF CallsInv, UacEndpointsAccounted, Removing
<1>7. ToolInv'
  <2>1. \A u \in Users : tool[u].pc \in Hung => tool[u].call \in Calls
    BY ToolShape
  <2> QED
    BY <1>2, <1>3, <2>1 DEF CallsInv, ToolInv, bridgeVars
<1>8. phase[c] = "unknown" /\ \A i \in 1 .. Len(bus) : bus[i].call \in Calls /\ bus[i].call # c
  <2>1. bus \in Seq(Events)
    BY DEF CallsInv, BusInv
  <2>2. \A i \in 1 .. Len(bus) : bus[i] \in Events
    BY <2>1
  <2> QED
    BY <1>2, <2>2 DEF CallsInv, BusInv, PhaseInv, Events
<1>9. BusInv'
  <2>1. ASSUME NEW i \in 1 .. Len(bus')
        PROVE  /\ place'[bus'[i].call] = "up"
               /\ bus'[i].kind = "created" => phase'[bus'[i].call] = "unknown"
               /\ bus'[i].kind = "terminated" => bus'[i].call \notin dialogs'
    <3>1. CASE i = Len(bus')
      BY <3>1, <1>1, <1>2, <1>3, <1>4, <1>8
    <3>2. CASE i # Len(bus')
      <4>1. i + k \in 1 .. Len(bus) /\ bus'[i] = bus[i + k]
        BY <3>2, <1>4
      <4> QED
        BY <4>1, <1>2, <1>3, <1>8 DEF CallsInv, BusInv
    <3> QED
      BY <3>1, <3>2
  <2>2. ASSUME NEW i \in 1 .. Len(bus'), NEW j \in 1 .. Len(bus'), i < j,
               bus'[i].call = bus'[j].call
        PROVE  bus'[j].kind = "terminated"
    <3>1. i + k \in 1 .. Len(bus) /\ bus'[i] = bus[i + k]
      <4>1. i \in Int /\ j \in Int /\ j <= Len(bus') /\ Len(bus') \in Int
        BY <1>4
      <4>2. i # Len(bus')
        BY <2>2, <4>1
      <4> QED
        BY <4>2, <1>4
    <3>2. j # Len(bus')
      BY <2>2, <3>1, <1>1, <1>4, <1>8
    <3>3. j + k \in 1 .. Len(bus) /\ bus'[j] = bus[j + k]
      BY <3>2, <1>4
    <3>4. i + k < j + k
      <4>1. i \in Int /\ j \in Int /\ k \in Int
        BY <1>4
      <4> QED
        BY <2>2, <4>1
    <3> QED
      BY <2>2, <3>1, <3>3, <3>4 DEF CallsInv, BusInv
  <2> QED
    BY <2>1, <2>2, <1>4 DEF BusInv
<1>10. PhaseInv'
  BY <1>2, <1>3, <1>8 DEF CallsInv, PhaseInv, bridgeVars
<1>11. FollowInv'
  <2> SUFFICES ASSUME ~lagged', NEW d \in Calls, place'[d] = "up"
               PROVE  /\ phase'[d] # "unknown" \/ InBus("created", d)'
                      /\ d \in dialogs' \/ Removing(d)' \/ phase'[d] = "Terminated"
                           \/ InBus("terminated", d)'
    BY DEF FollowInv
  <2>1. \A x, y : InBus(x, y) => InBus(x, y)'
    <3> SUFFICES ASSUME NEW x, NEW y, NEW i \in 1 .. Len(bus), bus[i].kind = x, bus[i].call = y
                 PROVE  InBus(x, y)'
      BY DEF InBus
    <3>1. k = 0 /\ Len(bus) \in Nat
      BY <1>4 DEF CallsInv, BusInv
    <3>2. i \in 1 .. Len(bus') /\ bus'[i] = bus[i]
      BY <1>4, <3>1
    <3> QED
      BY <3>2 DEF InBus
  <2>2. CASE d = c
    <3>1. InBus("created", c)'
      BY <1>1, <1>4 DEF InBus
    <3>2. c \in dialogs'
      BY <1>2 DEF CallsInv, CallInv
    <3> QED
      BY <2>2, <3>1, <3>2
  <2>3. CASE d # c
    BY <2>1, <2>3, <1>2, <1>3, <1>4 DEF CallsInv, FollowInv, Removing
  <2> QED
    BY <2>2, <2>3
<1>12. BridgeInv'
  BY <1>2, CallsUndisturbed DEF bridgeVars
<1>13. DrainInv'
  <2>1. drain.listed \subseteq Calls
    BY DEF CallsInv, DrainInv
  <2> QED
    BY <1>2, <1>3, <2>1 DEF CallsInv, DrainInv
<1> QED
  BY <1>5, <1>6, <1>7, <1>9, <1>10, <1>11, <1>12, <1>13 DEF CallsInv

-----------------------------------------------------------------------------
(* What every step of one user shares: its request changes, the calls      *)
(* themselves do not.                                                      *)
LEMMA UserStep ==
  ASSUME CallsInv, NEW u \in Users, NEW t, tool' = [tool EXCEPT ![u] = t]
  PROVE  /\ DOMAIN tool' = Users
         /\ \A v \in Users : tool'[v] = IF v = u THEN t ELSE tool[v]
         /\ t \in {IdleUser} \cup HangSet \cup BridgeSet
               => tool' \in [Users -> {IdleUser} \cup HangSet \cup BridgeSet]
BY DEF CallsInv, ToolInv

(* Bridges and their requests do not notice what the other users do. *)
LEMMA BridgeSame ==
  ASSUME CallsInv, tool'[Drainer].pc \notin Busy,
         \A v \in Clients : tool'[v].pc \in Busy \/ tool[v].pc \in Busy => tool'[v] = tool[v],
         UNCHANGED <<bridges, bridgesMade, bridgeOf, overlap, phase>>
  PROVE  BridgeInv'
<1>1. "release" \in Busy /\ "record" \in Busy
  BY DEF Busy
<1>2. \A v \in Clients : tool'[v].pc \in Busy =>
        phase'[tool'[v].call] # "unknown" /\ phase'[tool'[v].other] # "unknown"
  BY DEF CallsInv, BridgeInv
<1>3. ASSUME ~overlap
      PROVE  /\ \A v, x \in Clients : tool'[v].pc \in Busy /\ tool'[x].pc \in Busy => v = x
             /\ \A v \in Clients : tool'[v].pc = "release" =>
                   /\ bridgeOf[tool'[v].call] \in tool'[v].old \cup {0}
                   /\ bridgeOf[tool'[v].other] \in tool'[v].old \cup {0}
             /\ \A v \in Clients : tool'[v].pc = "record" =>
                   bridgeOf[tool'[v].call] = 0 /\ bridgeOf[tool'[v].other] = 0
  <2>1. \A v, x \in Clients : tool'[v].pc \in Busy /\ tool'[x].pc \in Busy => v = x
    BY <1>3 DEF CallsInv, BridgeInv
  <2>2. ASSUME NEW v \in Clients, tool'[v].pc \in {"release", "record"}
        PROVE  tool'[v] = tool[v]
    BY <2>2, <1>1
  <2> QED
    BY <2>1, <2>2, <1>3 DEF CallsInv, BridgeInv
<1>4. BridgesReachable'
  <2> SUFFICES ASSUME ~overlap, NEW b \in bridges
               PROVE  \/ \E c \in Calls : bridgeOf[c] = b
                      \/ \E v \in Clients : tool'[v].pc = "record" /\ tool'[v].new = b
    BY DEF BridgesReachable
  <2> QED
    BY <1>1 DEF CallsInv, BridgeInv, BridgesReachable
<1> QED
  BY <1>2, <1>3, <1>4 DEF CallsInv, BridgeInv

(* The BYE is answered 200. *)
LEMMA ByeOkKeeps ==
  ASSUME CallsInv, NEW u \in Users, ByeOk(u)
  PROVE  CallsInv'
<1>1. tool[u] \in HangSet /\ tool[u].call \in Calls /\ tool[u].pc = "bye"
  BY ToolShape DEF Hung, ByeOk
<1>2. \A v \in Users : tool'[v] = IF v = u THEN [tool[u] EXCEPT !.pc = "ok"] ELSE tool[v]
  BY UserStep DEF ByeOk, Does
<1>3. [tool[u] EXCEPT !.pc = "ok"] \in HangSet /\ [tool[u] EXCEPT !.pc = "ok"].pc = "ok"
        /\ [tool[u] EXCEPT !.pc = "ok"].call = tool[u].call
  BY <1>1 DEF HangSet, Hung
<1>4. BridgeInv'
  <2>1. tool'[Drainer].pc \notin Busy
        /\ \A v \in Clients : tool'[v].pc \in Busy => tool'[v] = tool[v]
    BY <1>2, <1>3 DEF CallsInv, BridgeInv, Users, Busy
  <2>2. \A v \in Clients : tool[v].pc \in Busy => tool'[v] = tool[v]
    BY <1>1, <1>2, <1>3 DEF Users, Busy
  <2> QED
    BY <2>1, <2>2, BridgeSame DEF ByeOk, bridgeVars, busVars
<1>5. CallInv'
  BY <1>1 DEF CallsInv, CallInv, ByeOk
<1>6. \A c : Removing(c)' <=> Removing(c)
  BY <1>1, <1>3, RemovingSame DEF ByeOk, Does
<1>7. UacEndpointsAccounted' /\ FollowInv'
  BY <1>6 DEF CallsInv, UacEndpointsAccounted, FollowInv, InBus, ByeOk, busVars
<1>8. ToolInv'
  <2>1. tool' \in [Users -> {IdleUser} \cup HangSet \cup BridgeSet]
    BY <1>3, UserStep DEF ByeOk, Does
  <2>2. \A c \in Calls : peer[c] = "over" => peer'[c] = "over"
    BY DEF ByeOk, CallsInv, CallInv
  <2>3. peer'[tool[u].call] = "over"
    BY <1>1 DEF ByeOk, CallsInv, CallInv
  <2>4. \A v \in Users : tool[v].pc \in Hung => tool[v].call \in Calls
    BY ToolShape
  <2>5. ASSUME NEW v \in Users, tool'[v].pc \in Hung
        PROVE  /\ place'[tool'[v].call] = "up"
               /\ tool'[v].pc # "bye" => peer'[tool'[v].call] = "over"
               /\ tool'[v].pc = "removed" => tool'[v].call \notin dialogs'
    <3>1. CASE v = u
      BY <3>1, <1>1, <1>2, <1>3, <2>3, ZenonT(60) DEF CallsInv, ToolInv, ByeOk, Hung
    <3>2. CASE v # u
      BY <3>2, <2>5, <1>2, <2>2, <2>4 DEF CallsInv, ToolInv, ByeOk
    <3> QED
      BY <3>1, <3>2
  <2> QED
    BY <2>1, <2>5 DEF CallsInv, ToolInv, ByeOk, bridgeVars
<1>9. DrainInv'
  <2>1. Drainer = u => drain.pc = "on"
    BY <1>1 DEF CallsInv, DrainInv, IdleUser
  <2>2. tool'[Drainer] = IF Drainer = u THEN [tool[u] EXCEPT !.pc = "ok"] ELSE tool[Drainer]
    BY <1>2 DEF Users
  <2> QED
    BY <2>1, <2>2, <1>1, <1>3 DEF CallsInv, DrainInv, ByeOk
<1>10. BusInv' /\ PhaseInv'
  BY CallsUndisturbed DEF ByeOk, callVars, busVars, bridgeVars
<1> QED
  BY <1>1, <1>2, <1>3, <1>4, <1>5, <1>6, <1>7, <1>8, <1>9, <1>10 DEF CallsInv

(* The remote end does not know the dialog. *)
LEMMA ByeRejectedKeeps ==
  ASSUME CallsInv, NEW u \in Users, ByeRejected(u)
  PROVE  CallsInv'
<1>1. tool[u] \in HangSet /\ tool[u].call \in Calls /\ tool[u].pc = "bye"
  BY ToolShape DEF Hung, ByeRejected
<1>2. \A v \in Users : tool'[v] = IF v = u THEN IdleUser ELSE tool[v]
  BY UserStep DEF ByeRejected, Does
<1>3. IdleUser.pc = "idle"
  BY DEF IdleUser
<1>4. BridgeInv'
  <2>1. tool'[Drainer].pc \notin Busy
        /\ \A v \in Clients : tool'[v].pc \in Busy => tool'[v] = tool[v]
    BY <1>2, <1>3 DEF CallsInv, BridgeInv, Users, Busy
  <2>2. \A v \in Clients : tool[v].pc \in Busy => tool'[v] = tool[v]
    BY <1>1, <1>2, <1>3 DEF Users, Busy
  <2> QED
    BY <2>1, <2>2, BridgeSame DEF ByeRejected, bridgeVars, busVars
<1>5. \A c \in Calls : (peer'[c] = peer[c] \/ peer'[c] = "over")
      /\ peer' \in [Calls -> {"idle", "answered", "confirmed", "over"}]
  BY <1>1 DEF CallsInv, CallInv, ByeRejected, callVars
<1>6. UNCHANGED <<place, endpoints, dialogs, bus, lagged, phase>>
  BY DEF ByeRejected, callVars, busVars
<1>7. CallInv'
  <2>1. peer' \in [Calls -> {"idle", "answered", "confirmed", "over"}]
    BY <1>1 DEF CallsInv, CallInv, ByeRejected, callVars
  <2> QED
    BY <1>5, <1>6, <2>1 DEF CallsInv, CallInv
<1>8. \A c : Removing(c)' <=> Removing(c)
  BY <1>1, <1>3, RemovingSame DEF ByeRejected, Does
<1>9. UacEndpointsAccounted' /\ FollowInv'
  BY <1>6, <1>8 DEF CallsInv, UacEndpointsAccounted, FollowInv, InBus
<1>10. ToolInv'
  <2>1. tool' \in [Users -> {IdleUser} \cup HangSet \cup BridgeSet]
    BY UserStep DEF ByeRejected, Does
  <2>2. \A v \in Users : tool[v].pc \in Hung => tool[v].call \in Calls
    BY ToolShape
  <2>3. ASSUME NEW v \in Users, tool'[v].pc \in Hung
        PROVE  /\ place'[tool'[v].call] = "up"
               /\ tool'[v].pc # "bye" => peer'[tool'[v].call] = "over"
               /\ tool'[v].pc = "removed" => tool'[v].call \notin dialogs'
    <3>1. v # u
      BY <2>3, <1>2, <1>3 DEF Hung
    <3> QED
      BY <3>1, <2>3, <2>2, <1>2, <1>5, <1>6 DEF CallsInv, ToolInv
  <2> QED
    BY <2>1, <2>3 DEF CallsInv, ToolInv, ByeRejected, bridgeVars
<1>11. DrainInv'
  <2>1. tool'[Drainer] = IF Drainer = u THEN IdleUser ELSE tool[Drainer]
    BY <1>2 DEF Users
  <2>2. CASE u = Drainer
    <3>1. drain.pc = "on"
      BY <2>2, <1>1, <1>3 DEF CallsInv, DrainInv
    <3>2. drain' = [drain EXCEPT !.unended = @ \cup {tool[u].call}]
      BY <2>2 DEF ByeRejected, Unended
    <3> QED
      BY <2>1, <2>2, <3>1, <3>2, <1>1, <1>6 DEF CallsInv, DrainInv
  <2>3. CASE u # Drainer
    <3>1. drain' = drain
      BY <2>3 DEF ByeRejected, Unended
    <3> QED
      BY <2>1, <2>3, <3>1, <1>6 DEF CallsInv, DrainInv
  <2> QED
    BY <2>2, <2>3
<1>12. BusInv' /\ PhaseInv'
  BY CallsUndisturbed DEF ByeRejected, callVars, busVars, bridgeVars
<1> QED
  BY <1>1, <1>2, <1>3, <1>4, <1>5, <1>6, <1>7, <1>8, <1>9, <1>10, <1>11, <1>12 DEF CallsInv

(* No answer before the deadline. *)
LEMMA ByeTimesOutKeeps ==
  ASSUME CallsInv, NEW u \in Users, ByeTimesOut(u)
  PROVE  CallsInv'
<1>1. tool[u] \in HangSet /\ tool[u].call \in Calls /\ tool[u].pc = "bye"
  BY ToolShape DEF Hung, ByeTimesOut
<1>2. \A v \in Users : tool'[v] = IF v = u THEN IdleUser ELSE tool[v]
  BY UserStep DEF ByeTimesOut, Does
<1>3. IdleUser.pc = "idle"
  BY DEF IdleUser
<1>4. BridgeInv'
  <2>1. tool'[Drainer].pc \notin Busy
        /\ \A v \in Clients : tool'[v].pc \in Busy => tool'[v] = tool[v]
    BY <1>2, <1>3 DEF CallsInv, BridgeInv, Users, Busy
  <2>2. \A v \in Clients : tool[v].pc \in Busy => tool'[v] = tool[v]
    BY <1>1, <1>2, <1>3 DEF Users, Busy
  <2> QED
    BY <2>1, <2>2, BridgeSame DEF ByeTimesOut, bridgeVars, busVars
<1>5. \A c \in Calls : (peer'[c] = peer[c] \/ peer'[c] = "over")
      /\ peer' \in [Calls -> {"idle", "answered", "confirmed", "over"}]
  BY <1>1 DEF CallsInv, CallInv, ByeTimesOut, callVars
<1>6. UNCHANGED <<place, endpoints, dialogs, bus, lagged, phase>>
  BY DEF ByeTimesOut, callVars, busVars
<1>7. CallInv'
  <2>1. peer' \in [Calls -> {"idle", "answered", "confirmed", "over"}]
    BY <1>1 DEF CallsInv, CallInv, ByeTimesOut, callVars
  <2> QED
    BY <1>5, <1>6, <2>1 DEF CallsInv, CallInv
<1>8. \A c : Removing(c)' <=> Removing(c)
  BY <1>1, <1>3, RemovingSame DEF ByeTimesOut, Does
<1>9. UacEndpointsAccounted' /\ FollowInv'
  BY <1>6, <1>8 DEF CallsInv, UacEndpointsAccounted, FollowInv, InBus
<1>10. ToolInv'
  <2>1. tool' \in [Users -> {IdleUser} \cup HangSet \cup BridgeSet]
    BY UserStep DEF ByeTimesOut, Does
  <2>2. \A v \in Users : tool[v].pc \in Hung => tool[v].call \in Calls
    BY ToolShape
  <2>3. ASSUME NEW v \in Users, tool'[v].pc \in Hung
        PROVE  /\ place'[tool'[v].call] = "up"
               /\ tool'[v].pc # "bye" => peer'[tool'[v].call] = "over"
               /\ tool'[v].pc = "removed" => tool'[v].call \notin dialogs'
    <3>1. v # u
      BY <2>3, <1>2, <1>3 DEF Hung
    <3> QED
      BY <3>1, <2>3, <2>2, <1>2, <1>5, <1>6 DEF CallsInv, ToolInv
  <2> QED
    BY <2>1, <2>3 DEF CallsInv, ToolInv, ByeTimesOut, bridgeVars
<1>11. DrainInv'
  <2>1. tool'[Drainer] = IF Drainer = u THEN IdleUser ELSE tool[Drainer]
    BY <1>2 DEF Users
  <2>2. CASE u = Drainer
    <3>1. drain.pc = "on"
      BY <2>2, <1>1, <1>3 DEF CallsInv, DrainInv
    <3>2. drain' = [drain EXCEPT !.unended = @ \cup {tool[u].call}]
      BY <2>2 DEF ByeTimesOut, Unended
    <3> QED
      BY <2>1, <2>2, <3>1, <3>2, <1>1, <1>6 DEF CallsInv, DrainInv
  <2>3. CASE u # Drainer
    <3>1. drain' = drain
      BY <2>3 DEF ByeTimesOut, Unended
    <3> QED
      BY <2>1, <2>3, <3>1, <1>6 DEF CallsInv, DrainInv
  <2> QED
    BY <2>2, <2>3
<1>12. BusInv' /\ PhaseInv'
  BY CallsUndisturbed DEF ByeTimesOut, callVars, busVars, bridgeVars
<1> QED
  BY <1>1, <1>2, <1>3, <1>4, <1>5, <1>6, <1>7, <1>8, <1>9, <1>10, <1>11, <1>12 DEF CallsInv

(* The dialog is removed. *)
LEMMA HangupRemovesKeeps ==
  ASSUME CallsInv, NEW u \in Users, HangupRemoves(u)
  PROVE  CallsInv'
<1>1. tool[u] \in HangSet /\ tool[u].call \in Calls /\ tool[u].pc = "ok"
  BY ToolShape DEF Hung, HangupRemoves
<1>2. \A v \in Users : tool'[v] = IF v = u THEN [tool[u] EXCEPT !.pc = "removed"] ELSE tool[v]
  BY UserStep DEF HangupRemoves, Does
<1>3. [tool[u] EXCEPT !.pc = "removed"] \in HangSet
      /\ [tool[u] EXCEPT !.pc = "removed"].pc = "removed"
        /\ [tool[u] EXCEPT !.pc = "removed"].call = tool[u].call
  BY <1>1 DEF HangSet, Hung
<1>4. BridgeInv'
  <2>1. tool'[Drainer].pc \notin Busy
        /\ \A v \in Clients : tool'[v].pc \in Busy => tool'[v] = tool[v]
    BY <1>2, <1>3 DEF CallsInv, BridgeInv, Users, Busy
  <2>2. \A v \in Clients : tool[v].pc \in Busy => tool'[v] = tool[v]
    BY <1>1, <1>2, <1>3 DEF Users, Busy
  <2> QED
    BY <2>1, <2>2, BridgeSame DEF HangupRemoves, bridgeVars, busVars
<1>5. PICK c \in Calls :
        /\ c = tool[u].call
        /\ place[c] = "up" /\ peer[c] = "over" /\ dialogs' = dialogs \ {c}
  BY <1>1 DEF CallsInv, ToolInv, Hung, HangupRemoves
<1>6. Removing(c)' /\ \A d : Removing(d) => Removing(d)'
  BY <1>1, <1>2, <1>3, <1>5 DEF Removing
<1>7. UNCHANGED <<place, peer, endpoints, bus, lagged, phase, bridgeOf, tools, overlap, drain>>
  BY DEF HangupRemoves, busVars, bridgeVars
<1>8. CallInv'
  BY <1>5, <1>7 DEF CallsInv, CallInv
<1>9. UacEndpointsAccounted' /\ FollowInv'
  <2>1. UacEndpointsAccounted'
    BY <1>5, <1>6, <1>7 DEF CallsInv, UacEndpointsAccounted
  <2>2. \A k, d : InBus(k, d)' <=> InBus(k, d)
    BY <1>7 DEF InBus
  <2>3. FollowInv'
    BY <1>5, <1>6, <1>7, <2>2 DEF CallsInv, FollowInv
  <2> QED
    BY <2>1, <2>3
<1>10. ToolInv'
  <2>1. tool' \in [Users -> {IdleUser} \cup HangSet \cup BridgeSet]
    BY <1>3, UserStep DEF HangupRemoves, Does
  <2>2. ASSUME NEW v \in Users, tool'[v].pc \in Hung
        PROVE  /\ place'[tool'[v].call] = "up"
               /\ tool'[v].pc # "bye" => peer'[tool'[v].call] = "over"
               /\ tool'[v].pc = "removed" => tool'[v].call \notin dialogs'
    <3>1. CASE v = u
      BY <3>1, <1>2, <1>3, <1>5, <1>7
    <3>2. CASE v # u
      BY <3>2, <2>2, <1>2, <1>5, <1>7 DEF CallsInv, ToolInv
    <3> QED
      BY <3>1, <3>2
  <2> QED
    BY <2>1, <2>2, <1>7 DEF CallsInv, ToolInv
<1>11. BusInv' /\ PhaseInv'
  BY <1>5, <1>7 DEF CallsInv, BusInv, PhaseInv
<1>12. DrainInv'
  <2>1. tool'[Drainer] = IF Drainer = u THEN [tool[u] EXCEPT !.pc = "removed"] ELSE tool[Drainer]
    BY <1>2 DEF Users
  <2>2. Drainer = u => drain.pc = "on"
    BY <1>1 DEF CallsInv, DrainInv, IdleUser
  <2>3. CASE Drainer = u
    BY <2>1, <2>2, <2>3, <1>1, <1>5, <1>7 DEF CallsInv, DrainInv
  <2>4. CASE Drainer # u
    BY <2>1, <2>4, <1>5, <1>7 DEF CallsInv, DrainInv
  <2> QED
    BY <2>3, <2>4
<1> QED
  BY <1>1, <1>2, <1>3, <1>4, <1>5, <1>6, <1>7, <1>8, <1>9, <1>10, <1>11, <1>12 DEF CallsInv

(* The endpoint is released and the end announced: the last event about    *)
(* the call.                                                               *)
LEMMA HangupEndsKeeps ==
  ASSUME CallsInv, NEW u \in Users, HangupEnds(u)
  PROVE  CallsInv'
<1>0. PICK c \in Calls : c = tool[u].call
  BY ToolShape DEF Hung, HangupEnds
<1> DEFINE e == CallEvent("terminated", c)
<1>1. tool[u] \in HangSet /\ tool[u].pc = "removed"
  BY ToolShape DEF Hung, HangupEnds
<1>2. \A v \in Users : tool'[v] = IF v = u THEN IdleUser ELSE tool[v]
  BY UserStep DEF HangupEnds, Does
<1>3. IdleUser.pc = "idle"
  BY DEF IdleUser
<1>4. BridgeInv'
  <2>1. tool'[Drainer].pc \notin Busy
        /\ \A v \in Clients : tool'[v].pc \in Busy => tool'[v] = tool[v]
    BY <1>2, <1>3 DEF CallsInv, BridgeInv, Users, Busy
  <2>2. \A v \in Clients : tool[v].pc \in Busy => tool'[v] = tool[v]
    BY <1>1, <1>2, <1>3 DEF Users, Busy
  <2> QED
    BY <2>1, <2>2, BridgeSame DEF HangupEnds, bridgeVars
<1>5. place[c] = "up" /\ c \notin dialogs
  BY <1>0, <1>1 DEF CallsInv, ToolInv, Hung
<1>6. /\ UNCHANGED <<place, peer, dialogs, phase, bridgeOf, tools, overlap, drain>>
      /\ endpoints' = endpoints \ {c}
  BY <1>0 DEF HangupEnds, bridgeVars
<1>7. e \in Events /\ e.kind = "terminated" /\ e.call = c
  BY DEF CallEvent, Events
<1>8. PICK k \in {0, 1} :
           /\ bus' \in Seq(Events) /\ Len(bus') <= BusDepth /\ lagged' \in BOOLEAN
           /\ Len(bus') = Len(bus) + 1 - k
           /\ bus'[Len(bus')] = e
           /\ Len(bus') \in 1 .. Len(bus')
           /\ \A i \in 1 .. Len(bus') :
                 i # Len(bus') => i + k \in 1 .. Len(bus) /\ bus'[i] = bus[i + k]
           /\ ~lagged' => ~lagged /\ k = 0
  BY <1>0, <1>7, PublishKeeps DEF HangupEnds
<1>9. \A d : d # c => (Removing(d) <=> Removing(d)')
  BY <1>0, <1>1, <1>2, <1>3 DEF Removing
<1> HIDE DEF e
<1>10. CallInv'
  BY <1>5, <1>6 DEF CallsInv, CallInv
<1>11. UacEndpointsAccounted'
  BY <1>6, <1>9 DEF CallsInv, UacEndpointsAccounted
<1>12. ToolInv'
  <2>1. tool' \in [Users -> {IdleUser} \cup HangSet \cup BridgeSet]
    BY UserStep DEF HangupEnds, Does
  <2>2. ASSUME NEW v \in Users, tool'[v].pc \in Hung
        PROVE  /\ place'[tool'[v].call] = "up"
               /\ tool'[v].pc # "bye" => peer'[tool'[v].call] = "over"
               /\ tool'[v].pc = "removed" => tool'[v].call \notin dialogs'
    <3>1. v # u
      BY <2>2, <1>2, <1>3 DEF Hung
    <3> QED
      BY <3>1, <2>2, <1>2, <1>6 DEF CallsInv, ToolInv
  <2> QED
    BY <2>1, <2>2, <1>6 DEF CallsInv, ToolInv
<1>13. BusInv'
  <2>1. ASSUME NEW i \in 1 .. Len(bus')
        PROVE  /\ place'[bus'[i].call] = "up"
               /\ bus'[i].kind = "created" => phase'[bus'[i].call] = "unknown"
               /\ bus'[i].kind = "terminated" => bus'[i].call \notin dialogs'
    <3>1. CASE i = Len(bus')
      BY <3>1, <1>5, <1>6, <1>7, <1>8
    <3>2. CASE i # Len(bus')
      <4>1. i + k \in 1 .. Len(bus) /\ bus'[i] = bus[i + k]
        BY <3>2, <1>8
      <4> QED
        BY <4>1, <1>6 DEF CallsInv, BusInv
    <3> QED
      BY <3>1, <3>2
  <2>2. ASSUME NEW i \in 1 .. Len(bus'), NEW j \in 1 .. Len(bus'), i < j,
               bus'[i].call = bus'[j].call
        PROVE  bus'[j].kind = "terminated"
    <3>1. CASE j = Len(bus')
      BY <3>1, <1>7, <1>8
    <3>2. CASE j # Len(bus')
      <4>1. i \in Int /\ j \in Int /\ k \in Int /\ j <= Len(bus') /\ Len(bus') \in Int
        BY <1>8
      <4>2. i # Len(bus') /\ i + k < j + k
        BY <2>2, <4>1
      <4>3. i + k \in 1 .. Len(bus) /\ bus'[i] = bus[i + k]
        BY <4>2, <1>8
      <4>4. j + k \in 1 .. Len(bus) /\ bus'[j] = bus[j + k]
        BY <3>2, <1>8
      <4> QED
        BY <2>2, <4>2, <4>3, <4>4 DEF CallsInv, BusInv
    <3> QED
      BY <3>1, <3>2
  <2> QED
    BY <2>1, <2>2, <1>8 DEF BusInv
<1>14. PhaseInv'
  BY <1>6, CallsUndisturbed
<1>15. FollowInv'
  <2> SUFFICES ASSUME ~lagged', NEW d \in Calls, place'[d] = "up"
               PROVE  /\ phase'[d] # "unknown" \/ InBus("created", d)'
                      /\ d \in dialogs' \/ Removing(d)' \/ phase'[d] = "Terminated"
                           \/ InBus("terminated", d)'
    BY DEF FollowInv
  <2>1. \A x, y : InBus(x, y) => InBus(x, y)'
    <3> SUFFICES ASSUME NEW x, NEW y, NEW i \in 1 .. Len(bus), bus[i].kind = x, bus[i].call = y
                 PROVE  InBus(x, y)'
      BY DEF InBus
    <3>1. k = 0 /\ Len(bus) \in Nat
      BY <1>8 DEF CallsInv, BusInv
    <3>2. i \in 1 .. Len(bus') /\ bus'[i] = bus[i]
      BY <1>8, <3>1
    <3> QED
      BY <3>2 DEF InBus
  <2>2. InBus("terminated", c)'
    BY <1>7, <1>8 DEF InBus
  <2>3. /\ phase[d] # "unknown" \/ InBus("created", d)
        /\ d \in dialogs \/ Removing(d) \/ phase[d] = "Terminated" \/ InBus("terminated", d)
    BY <1>6, <1>8 DEF CallsInv, FollowInv
  <2> QED
    BY <2>1, <2>2, <2>3, <1>6, <1>9
<1>16. DrainInv'
  <2>1. tool'[Drainer] = IF Drainer = u THEN IdleUser ELSE tool[Drainer]
    BY <1>2 DEF Users
  <2> QED
    BY <2>1, <1>1, <1>3, <1>6 DEF CallsInv, DrainInv
<1> QED
  BY <1>4, <1>10, <1>11, <1>12, <1>13, <1>14, <1>15, <1>16 DEF CallsInv

-----------------------------------------------------------------------------
(* The registry handles the oldest event: an announcement finds a call it  *)
(* did not know, and an end one it knew.                                   *)
LEMMA ControlHandlesKeeps ==
  ASSUME CallsInv, ControlHandles
  PROVE  CallsInv'
<1> DEFINE e == Head(bus)
<1> DEFINE c == e.call
<1>1. bus \in Seq(Events) /\ bus # <<>> /\ bus' = Tail(bus) /\ Len(bus) <= BusDepth
  BY DEF CallsInv, BusInv, ControlHandles
<1>2. Len(bus) \in Nat /\ 1 \in 1 .. Len(bus) /\ e = bus[1] /\ e \in Events
  BY <1>1
<1>3. bus' \in Seq(Events) /\ Len(bus') = Len(bus) - 1
  BY <1>1
<1>4. ASSUME NEW i \in 1 .. Len(bus')
      PROVE  i + 1 \in 1 .. Len(bus) /\ bus'[i] = bus[i + 1] /\ bus[i + 1] \in Events
  BY <1>1, <1>3
<1>5. UNCHANGED <<place, peer, endpoints, dialogs, lagged, bridges, bridgesMade, overlap, tool,
tools, drain>>
  BY DEF ControlHandles, callVars
<1>6. /\ e.kind = "created" => /\ phase' = [phase EXCEPT ![c] = "Live"]
                               /\ bridgeOf' = [bridgeOf EXCEPT ![c] = 0]
      /\ e.kind # "created" =>
           /\ phase' = [phase EXCEPT ![c] = IF @ = "Live" THEN "Terminated" ELSE @]
           /\ UNCHANGED bridgeOf
  BY DEF ControlHandles
<1>7. /\ c \in Calls /\ place[c] = "up" /\ e.kind \in {"created", "terminated"}
      /\ e.kind = "created" => phase[c] = "unknown" /\ bridgeOf[c] = 0
      /\ e.kind = "terminated" => c \notin dialogs
      /\ \A i \in 1 .. Len(bus') : bus'[i].call = c => bus'[i].kind = "terminated"
  <2>1. c \in Calls /\ e.kind \in {"created", "terminated"}
    BY <1>2 DEF Events
  <2>2. /\ place[c] = "up"
        /\ e.kind = "created" => phase[c] = "unknown"
        /\ e.kind = "terminated" => c \notin dialogs
    BY <1>2 DEF CallsInv, BusInv
  <2>3. phase[c] = "unknown" => bridgeOf[c] = 0
    BY <2>1 DEF CallsInv, PhaseInv
  <2>4. ASSUME NEW i \in 1 .. Len(bus'), bus'[i].call = c
        PROVE  bus'[i].kind = "terminated"
    <3>1. i + 1 \in 1 .. Len(bus) /\ bus'[i] = bus[i + 1] /\ 1 < i + 1
      BY <1>4
    <3> QED
      BY <2>4, <3>1, <1>2 DEF CallsInv, BusInv
  <2> QED
    BY <2>1, <2>2, <2>3, <2>4
<1> HIDE DEF e, c
<1>8. /\ phase \in [Calls -> {"unknown", "Live", "Terminated"}]
      /\ bridgeOf \in [Calls -> 0 .. MaxBridges]
  BY DEF CallsInv, PhaseInv
<1>9. /\ bridgeOf' = bridgeOf
      /\ phase' \in [Calls -> {"unknown", "Live", "Terminated"}]
      /\ \A d \in Calls : d # c => phase'[d] = phase[d]
      /\ e.kind = "created" => phase'[c] = "Live"
      /\ e.kind = "terminated" => phase'[c] = IF phase[c] = "Live" THEN "Terminated" ELSE phase[c]
  <2>1. CASE e.kind = "created"
    BY <2>1, <1>6, <1>7, <1>8
  <2>2. CASE e.kind = "terminated"
    BY <2>2, <1>6, <1>7, <1>8
  <2> QED
    BY <2>1, <2>2, <1>7
<1>10. BusInv'
  <2>1. ASSUME NEW i \in 1 .. Len(bus')
        PROVE  /\ place'[bus'[i].call] = "up"
               /\ bus'[i].kind = "created" => phase'[bus'[i].call] = "unknown"
               /\ bus'[i].kind = "terminated" => bus'[i].call \notin dialogs'
    <3>1. /\ place[bus'[i].call] = "up"
          /\ bus'[i].kind = "created" => phase[bus'[i].call] = "unknown"
          /\ bus'[i].kind = "terminated" => bus'[i].call \notin dialogs
      BY <1>4 DEF CallsInv, BusInv
    <3>2. bus'[i].call \in Calls
      BY <1>4 DEF Events
    <3>3. bus'[i].kind = "created" => bus'[i].call # c
      BY <1>7
    <3> QED
      BY <3>1, <3>2, <3>3, <1>5, <1>9
  <2>2. ASSUME NEW i \in 1 .. Len(bus'), NEW j \in 1 .. Len(bus'), i < j,
               bus'[i].call = bus'[j].call
        PROVE  bus'[j].kind = "terminated"
    <3>1. i + 1 < j + 1
      BY <2>2
    <3> QED
      BY <2>2, <3>1, <1>4 DEF CallsInv, BusInv
  <2>3. Len(bus') <= BusDepth
    BY <1>1, <1>2, <1>3, CallBoundsAssumption
  <2>4. lagged' \in BOOLEAN
    BY <1>5 DEF CallsInv, BusInv
  <2> QED
    BY <2>1, <2>2, <2>3, <2>4, <1>3 DEF BusInv
<1>11. PhaseInv'
  <2>1. ASSUME NEW d \in Calls
        PROVE  /\ phase'[d] # "unknown" => place'[d] = "up"
               /\ phase'[d] = "unknown" => bridgeOf'[d] = 0
               /\ phase'[d] = "Terminated" => d \notin dialogs'
    <3>1. CASE d = c
      BY <3>1, <1>5, <1>7, <1>9 DEF CallsInv, PhaseInv
    <3>2. CASE d # c
      BY <3>2, <1>5, <1>9 DEF CallsInv, PhaseInv
    <3> QED
      BY <3>1, <3>2
  <2> QED
    BY <2>1, <1>8, <1>9 DEF PhaseInv
<1>12. FollowInv'
  <2> SUFFICES ASSUME ~lagged', NEW d \in Calls, place'[d] = "up"
               PROVE  /\ phase'[d] # "unknown" \/ InBus("created", d)'
                      /\ d \in dialogs' \/ Removing(d)' \/ phase'[d] = "Terminated"
                           \/ InBus("terminated", d)'
    BY DEF FollowInv
  <2>1. /\ phase[d] # "unknown" \/ InBus("created", d)
        /\ d \in dialogs \/ Removing(d) \/ phase[d] = "Terminated" \/ InBus("terminated", d)
    BY <1>5 DEF CallsInv, FollowInv
  <2>2. Removing(d)' <=> Removing(d)
    BY <1>5 DEF Removing
  <2>3. ASSUME NEW x, InBus(x, d), ~(d = c /\ e.kind = x)
        PROVE  InBus(x, d)'
    <3>1. PICK i \in 1 .. Len(bus) : bus[i].kind = x /\ bus[i].call = d
      BY <2>3 DEF InBus
    <3>2. i # 1
      BY <2>3, <3>1, <1>2 DEF c
    <3>3. i - 1 \in 1 .. Len(bus')
      BY <3>2, <1>2, <1>3
    <3>4. bus'[i - 1] = bus[i]
      BY <3>3, <1>4
    <3> QED
      BY <3>1, <3>3, <3>4 DEF InBus
  <2>4. CASE d # c
    BY <2>1, <2>2, <2>3, <2>4, <1>5, <1>9
  <2>5. CASE d = c /\ e.kind = "created"
    <3>1. InBus("terminated", d) => InBus("terminated", d)'
      BY <2>3, <2>5
    <3>2. phase[d] = "unknown" /\ phase'[d] = "Live"
      BY <2>5, <1>7, <1>9
    <3> QED
      BY <2>1, <2>2, <3>1, <3>2, <1>5
  <2>6. CASE d = c /\ e.kind = "terminated"
    <3>1. ~InBus("created", d)
      <4> SUFFICES ASSUME NEW i \in 1 .. Len(bus), bus[i].kind = "created", bus[i].call = d
                   PROVE  FALSE
        BY DEF InBus
      <4>1. i # 1
        BY <2>6, <1>2
      <4>2. i - 1 \in 1 .. Len(bus')
        BY <4>1, <1>2, <1>3
      <4>3. bus'[i - 1] = bus[i]
        BY <4>2, <1>4
      <4> QED
        BY <4>2, <4>3, <2>6, <1>7
    <3>2. phase[d] # "unknown" /\ phase[d] \in {"unknown", "Live", "Terminated"}
      BY <2>1, <3>1, <1>8
    <3>3. phase'[d] = "Terminated"
      BY <2>6, <3>2, <1>9
    <3> QED
      BY <3>3
  <2> QED
    BY <2>4, <2>5, <2>6, <1>7
<1>13. BridgeInv'
  <2>1. \A d \in Calls : phase[d] # "unknown" => phase'[d] # "unknown"
    BY <1>7, <1>9
  <2>2. \A u \in Clients : tool[u].pc \in Busy => tool[u].call \in Calls
        /\ tool[u].other \in Calls
    BY ToolShape DEF Users
  <2> QED
    BY <2>1, <2>2, <1>5, <1>9 DEF CallsInv, BridgeInv, BridgesReachable
<1>14. CallInv' /\ UacEndpointsAccounted' /\ ToolInv' /\ DrainInv'
  BY <1>5, CallsUndisturbed
<1> QED
  BY <1>10, <1>11, <1>12, <1>13, <1>14 DEF CallsInv

-----------------------------------------------------------------------------
(* A bridge request of a client leaves the calls, the bus and the drain    *)
(* alone.                                                                  *)
LEMMA ClientMoves ==
  ASSUME CallsInv, NEW u \in Clients, NEW t \in {IdleUser} \cup BridgeSet,
         tool' = [tool EXCEPT ![u] = t], tool[u].pc \notin Hung,
         tools' \in 0 .. MaxTools, overlap' \in BOOLEAN, UNCHANGED <<callVars, busVars, drain>>
  PROVE  /\ CallInv' /\ UacEndpointsAccounted' /\ ToolInv' /\ BusInv' /\ FollowInv' /\ DrainInv'
         /\ tool'[Drainer] = tool[Drainer]
         /\ \A v \in Users : tool'[v] = IF v = u THEN t ELSE tool[v]
<1> USE DEF callVars, busVars
<1>1. u \in Users /\ Drainer \in Users /\ u # Drainer
      /\ \A v \in Users : tool'[v] = IF v = u THEN t ELSE tool[v]
  BY UserStep, DrainerAssumption DEF Users
<1>2. t.pc \notin Hung
  BY DEF IdleUser, BridgeSet, Busy, Hung
<1>3. \A c : Removing(c)' <=> Removing(c)
  BY <1>1, <1>2, RemovingSame DEF Hung
<1>4. CallInv' /\ BusInv'
  BY CallsUndisturbed
<1>5. UacEndpointsAccounted'
  BY <1>3 DEF CallsInv, UacEndpointsAccounted
<1>6. FollowInv'
  BY <1>3 DEF CallsInv, FollowInv, InBus
<1>7. ToolInv'
  <2>1. tool' \in [Users -> {IdleUser} \cup HangSet \cup BridgeSet]
    BY <1>1, UserStep
  <2> QED
    BY <2>1, <1>1, <1>2 DEF CallsInv, ToolInv
<1>8. DrainInv'
  BY <1>1 DEF CallsInv, DrainInv
<1> QED
  BY <1>1, <1>4, <1>5, <1>6, <1>7, <1>8

(* end_call starts a hangup of a call that is up.                          *)
LEMMA EndCallKeeps ==
  ASSUME CallsInv, NEW u \in Clients, NEW c \in Calls, EndCall(u, c)
  PROVE  CallsInv'
<1> DEFINE t == Hanging("bye", c)
<1>1. t \in HangSet /\ t.pc = "bye" /\ t.call = c /\ tool[u] = IdleUser /\ IdleUser.pc = "idle"
  BY DEF Hanging, HangSet, Hung, EndCall, ToolRequest, IdleUser
<1>2. u \in Users /\ Drainer \in Users /\ u # Drainer
      /\ \A v \in Users : tool'[v] = IF v = u THEN t ELSE tool[v]
  BY UserStep, DrainerAssumption DEF Users, EndCall, Does
<1> HIDE DEF t
<1>3. \A d : Removing(d)' <=> Removing(d)
  BY <1>1, <1>2 DEF Removing
<1>4. UNCHANGED <<place, peer, endpoints, dialogs, bus, lagged, phase, bridges, bridgesMade,
bridgeOf, overlap, drain>>
  BY DEF EndCall, callVars, busVars, bridgeVars
<1>5. CallInv' /\ BusInv' /\ PhaseInv'
  BY <1>4, CallsUndisturbed
<1>6. UacEndpointsAccounted'
  BY <1>3, <1>4 DEF CallsInv, UacEndpointsAccounted
<1>7. FollowInv'
  BY <1>3, <1>4 DEF CallsInv, FollowInv, InBus
<1>8. ToolInv'
  <2>1. tool' \in [Users -> {IdleUser} \cup HangSet \cup BridgeSet]
    BY <1>1, <1>2, UserStep DEF EndCall, Does, t
  <2>2. tools' \in 0 .. MaxTools
    BY CallBoundsAssumption DEF EndCall, ToolRequest, CallsInv, ToolInv
  <2>3. place[c] = "up"
    BY DEF EndCall
  <2> QED
    BY <2>1, <2>2, <2>3, <1>1, <1>2, <1>4 DEF CallsInv, ToolInv
<1>9. BridgeInv'
  <2>1. tool'[Drainer].pc \notin Busy
    BY <1>2 DEF CallsInv, BridgeInv
  <2>2. \A v \in Clients : tool'[v].pc \in Busy \/ tool[v].pc \in Busy => tool'[v] = tool[v]
    BY <1>1, <1>2 DEF Users, Busy
  <2> QED
    BY <2>1, <2>2, <1>4, BridgeSame
<1>10. DrainInv'
  BY <1>2, <1>4 DEF CallsInv, DrainInv
<1> QED
  BY <1>5, <1>6, <1>7, <1>8, <1>9, <1>10 DEF CallsInv

(* bridge_calls notes the bridges of its legs. *)
LEMMA BridgeCallsKeeps ==
  ASSUME CallsInv, NEW u \in Clients, NEW a \in Calls, NEW b \in Calls, BridgeCalls(u, a, b)
  PROVE  CallsInv'
<1>0. PICK t : t = Bridging("release", a, b, {bridgeOf[a], bridgeOf[b]} \ {0}, 0)
  OBVIOUS
<1>1. tool[u] = IdleUser /\ IdleUser.pc = "idle" /\ tool[u].pc \notin Hung
      /\ tool[u].pc \notin Busy
  BY DEF BridgeCalls, ToolRequest, IdleUser, Hung, Busy
<1>2. t \in BridgeSet /\ t.pc = "release" /\ t.call = a /\ t.other = b
  <2>1. bridgeOf \in [Calls -> 0 .. MaxBridges] /\ 0 \in 0 .. MaxBridges
    BY CallBoundsAssumption DEF CallsInv, PhaseInv
  <2>2. t.old \in SUBSET (1 .. MaxBridges)
    BY <1>0, <2>1, CallBoundsAssumption DEF Bridging, BridgeCalls
  <2> QED
    BY <1>0, <2>1, <2>2 DEF Bridging, BridgeSet, Busy
<1>3. tool' = [tool EXCEPT ![u] = t]
  BY <1>0 DEF BridgeCalls, Does
<1>4. tools' \in 0 .. MaxTools
  BY CallBoundsAssumption DEF BridgeCalls, ToolRequest, CallsInv, ToolInv
<1>5. overlap' \in BOOLEAN
  BY DEF BridgeCalls, CallsInv, ToolInv
<1>6. UNCHANGED <<callVars, busVars, bridgeOf, bridges, bridgesMade, drain>>
  BY DEF BridgeCalls
<1>7. /\ CallInv' /\ UacEndpointsAccounted' /\ ToolInv' /\ BusInv' /\ FollowInv' /\ DrainInv'
      /\ tool'[Drainer] = tool[Drainer]
      /\ \A v \in Users : tool'[v] = IF v = u THEN t ELSE tool[v]
  BY <1>1, <1>2, <1>3, <1>4, <1>5, <1>6, ClientMoves, ZenonT(60)
<1>8. PhaseInv'
  BY <1>6, CallsUndisturbed DEF callVars, busVars
<1>9. BridgeInv'
  <2>1. \A v \in Clients : v \in Users
    BY DEF Users
  <2>2. \A v \in Clients : tool'[v].pc \in Busy =>
          phase'[tool'[v].call] # "unknown" /\ phase'[tool'[v].other] # "unknown"
    <3>1. phase[a] # "unknown" /\ phase[b] # "unknown"
      BY DEF BridgeCalls, CallsInv, PhaseInv
    <3> QED
      BY <3>1, <2>1, <1>2, <1>6, <1>7 DEF CallsInv, BridgeInv, busVars
  <2>3. ASSUME ~overlap'
        PROVE  ~overlap /\ \A v \in Clients : v # u => tool'[v] = tool[v]
               /\ tool[v].pc \notin Busy
    BY <2>1, <2>3, <1>7 DEF BridgeCalls, BridgeBusy, Busy
  <2>4. ASSUME ~overlap'
        PROVE  /\ \A v, x \in Clients : tool'[v].pc \in Busy /\ tool'[x].pc \in Busy => v = x
               /\ \A v \in Clients : tool'[v].pc = "release" =>
                     /\ bridgeOf'[tool'[v].call] \in tool'[v].old \cup {0}
                     /\ bridgeOf'[tool'[v].other] \in tool'[v].old \cup {0}
               /\ \A v \in Clients : tool'[v].pc = "record" =>
                     bridgeOf'[tool'[v].call] = 0 /\ bridgeOf'[tool'[v].other] = 0
    <3>1. \A v \in Clients : v # u => tool'[v].pc \notin Busy
      BY <2>3, <2>4
    <3>2. tool'[u] = t
      BY <2>1, <1>7
    <3>3. t.old = {bridgeOf[a], bridgeOf[b]} \ {0}
      BY <1>0 DEF Bridging
    <3> QED
      BY <3>1, <3>2, <3>3, <1>2, <1>6 DEF Busy
  <2>5. BridgesReachable'
    <3> SUFFICES ASSUME ~overlap', NEW n \in bridges
                 PROVE  \E c \in Calls : bridgeOf[c] = n
      BY <1>6 DEF BridgesReachable
    <3>1. ~\E v \in Clients : tool[v].pc = "record"
      BY <2>3, <1>1 DEF Busy
    <3> QED
      BY <3>1, <2>3 DEF CallsInv, BridgeInv, BridgesReachable
  <2> QED
    BY <2>2, <2>4, <2>5, <1>6, <1>7 DEF CallsInv, BridgeInv
<1> QED
  BY <1>7, <1>8, <1>9 DEF CallsInv

(* unbridge_call notes the bridge of its call. *)
LEMMA UnbridgeCallKeeps ==
  ASSUME CallsInv, NEW u \in Clients, NEW a \in Calls, UnbridgeCall(u, a)
  PROVE  CallsInv'
<1>0. PICK t : t = Bridging("unbridge", a, a, {bridgeOf[a]}, 0)
  OBVIOUS
<1>1. tool[u] = IdleUser /\ IdleUser.pc = "idle" /\ tool[u].pc \notin Hung
      /\ tool[u].pc \notin Busy
  BY DEF UnbridgeCall, ToolRequest, IdleUser, Hung, Busy
<1>2. t \in BridgeSet /\ t.pc = "unbridge" /\ t.call = a /\ t.other = a
  <2>1. bridgeOf \in [Calls -> 0 .. MaxBridges] /\ 0 \in 0 .. MaxBridges
    BY CallBoundsAssumption DEF CallsInv, PhaseInv
  <2>2. t.old \in SUBSET (1 .. MaxBridges)
    BY <1>0, <2>1, CallBoundsAssumption DEF Bridging, UnbridgeCall
  <2> QED
    BY <1>0, <2>1, <2>2 DEF Bridging, BridgeSet, Busy
<1>3. tool' = [tool EXCEPT ![u] = t]
  BY <1>0 DEF UnbridgeCall, Does
<1>4. tools' \in 0 .. MaxTools
  BY CallBoundsAssumption DEF UnbridgeCall, ToolRequest, CallsInv, ToolInv
<1>5. overlap' \in BOOLEAN
  BY DEF UnbridgeCall, CallsInv, ToolInv
<1>6. UNCHANGED <<callVars, busVars, bridgeOf, bridges, bridgesMade, drain>>
  BY DEF UnbridgeCall
<1>7. /\ CallInv' /\ UacEndpointsAccounted' /\ ToolInv' /\ BusInv' /\ FollowInv' /\ DrainInv'
      /\ tool'[Drainer] = tool[Drainer]
      /\ \A v \in Users : tool'[v] = IF v = u THEN t ELSE tool[v]
  BY <1>1, <1>2, <1>3, <1>4, <1>5, <1>6, ClientMoves, ZenonT(60)
<1>8. PhaseInv'
  BY <1>6, CallsUndisturbed DEF callVars, busVars
<1>9. BridgeInv'
  <2>1. \A v \in Clients : v \in Users
    BY DEF Users
  <2>2. \A v \in Clients : tool'[v].pc \in Busy =>
          phase'[tool'[v].call] # "unknown" /\ phase'[tool'[v].other] # "unknown"
    <3>1. phase[a] # "unknown"
      BY DEF UnbridgeCall, CallsInv, PhaseInv
    <3> QED
      BY <3>1, <2>1, <1>2, <1>6, <1>7 DEF CallsInv, BridgeInv, busVars
  <2>3. ASSUME ~overlap'
        PROVE  ~overlap /\ \A v \in Clients : v # u => tool'[v] = tool[v]
               /\ tool[v].pc \notin Busy
    BY <2>1, <2>3, <1>7 DEF UnbridgeCall, BridgeBusy, Busy
  <2>4. ASSUME ~overlap'
        PROVE  /\ \A v, x \in Clients : tool'[v].pc \in Busy /\ tool'[x].pc \in Busy => v = x
               /\ \A v \in Clients : tool'[v].pc = "release" =>
                     /\ bridgeOf'[tool'[v].call] \in tool'[v].old \cup {0}
                     /\ bridgeOf'[tool'[v].other] \in tool'[v].old \cup {0}
               /\ \A v \in Clients : tool'[v].pc = "record" =>
                     bridgeOf'[tool'[v].call] = 0 /\ bridgeOf'[tool'[v].other] = 0
    <3>1. \A v \in Clients : v # u => tool'[v].pc \notin Busy
      BY <2>3, <2>4
    <3>2. tool'[u] = t
      BY <2>1, <1>7
    <3>3. t.old = {bridgeOf[a]}
      BY <1>0 DEF Bridging
    <3> QED
      BY <3>1, <3>2, <3>3, <1>2, <1>6 DEF Busy
  <2>5. BridgesReachable'
    <3> SUFFICES ASSUME ~overlap', NEW b \in bridges
                 PROVE  \E c \in Calls : bridgeOf[c] = b
      BY <1>6 DEF BridgesReachable
    <3>1. ~\E v \in Clients : tool[v].pc = "record"
      BY <2>3, <1>1 DEF Busy
    <3> QED
      BY <3>1, <2>3 DEF CallsInv, BridgeInv, BridgesReachable
  <2> QED
    BY <2>2, <2>4, <2>5, <1>6, <1>7 DEF CallsInv, BridgeInv
<1> QED
  BY <1>7, <1>8, <1>9 DEF CallsInv

(* release_bridge: the bridge leaves the fabric and every leg.             *)
LEMMA ReleasesOldKeeps ==
  ASSUME CallsInv, NEW u \in Users, ReleasesOld(u)
  PROVE  CallsInv'
<1>1. tool[u] \in BridgeSet /\ u \in Clients /\ tool[u].pc \in {"release", "unbridge"}
  BY ToolShape DEF ReleasesOld, Busy
<1>2. PICK was \in tool[u].old :
        /\ Releases(was)
        /\ Does(u, IF tool[u].pc = "unbridge" THEN IdleUser
                   ELSE [tool[u] EXCEPT !.old = @ \ {was}])
  BY DEF ReleasesOld
<1>3. PICK t : t = IF tool[u].pc = "unbridge" THEN IdleUser ELSE [tool[u] EXCEPT !.old = @ \ {was}]
  OBVIOUS
<1>4. /\ t \in {IdleUser} \cup BridgeSet
      /\ t.pc \in Busy => /\ t.pc = "release" /\ tool[u].pc = "release"
                          /\ t.call = tool[u].call /\ t.other = tool[u].other
                          /\ t.old = tool[u].old \ {was}
  <2>1. CASE tool[u].pc = "unbridge"
    BY <2>1, <1>3 DEF IdleUser, Busy
  <2>2. CASE tool[u].pc = "release"
    BY <2>2, <1>1, <1>3 DEF BridgeSet, Busy
  <2> QED
    BY <2>1, <2>2, <1>1
<1>5. UNCHANGED <<callVars, busVars, bridgesMade, overlap, tools, drain>>
  BY DEF ReleasesOld
<1>6. /\ CallInv' /\ UacEndpointsAccounted' /\ ToolInv' /\ BusInv' /\ FollowInv' /\ DrainInv'
      /\ tool'[Drainer] = tool[Drainer]
      /\ \A v \in Users : tool'[v] = IF v = u THEN t ELSE tool[v]
  <2>1. tool' = [tool EXCEPT ![u] = t]
    BY <1>2, <1>3 DEF Does
  <2>2. tools' \in 0 .. MaxTools /\ overlap' \in BOOLEAN
    BY <1>5 DEF CallsInv, ToolInv
  <2>3. tool[u].pc \notin Hung
    BY <1>1 DEF Hung
  <2> QED
    BY <2>1, <2>2, <2>3, <1>1, <1>4, <1>5, ClientMoves
<1>7. /\ bridgeOf' \in [Calls -> 0 .. MaxBridges] /\ bridges' = bridges \ {was} /\ was # 0
      /\ \A c \in Calls : bridgeOf'[c] = IF bridgeOf[c] = was THEN 0 ELSE bridgeOf[c]
  <2>1. was \in 1 .. MaxBridges
    BY <1>1 DEF BridgeSet
  <2> QED
    BY <1>2, <2>1, CallBoundsAssumption DEF Releases, CallsInv, PhaseInv
<1>8. PhaseInv'
  BY <1>5, <1>7 DEF CallsInv, PhaseInv, callVars, busVars
<1>9. BridgeInv'
  <2>1. \A v \in Clients : v \in Users
    BY DEF Users
  <2>2. \A v \in Clients : tool'[v].pc \in Busy =>
          /\ tool[v].pc \in Busy /\ tool'[v].pc = tool[v].pc
          /\ tool'[v].call = tool[v].call /\ tool'[v].other = tool[v].other
          /\ tool'[v].call \in Calls /\ tool'[v].other \in Calls
    <3> SUFFICES ASSUME NEW v \in Clients, tool'[v].pc \in Busy
                 PROVE  /\ tool[v].pc \in Busy /\ tool'[v].pc = tool[v].pc
                        /\ tool'[v].call = tool[v].call /\ tool'[v].other = tool[v].other
                        /\ tool'[v].call \in Calls /\ tool'[v].other \in Calls
      OBVIOUS
    <3>1. tool[v].pc \in Busy => tool[v].call \in Calls /\ tool[v].other \in Calls
      BY <2>1, ToolShape
    <3>2. CASE v = u
      BY <3>1, <3>2, <2>1, <1>4, <1>6 DEF Busy
    <3>3. CASE v # u
      BY <3>1, <3>3, <2>1, <1>6
    <3> QED
      BY <3>2, <3>3
  <2>3. \A v \in Clients : tool'[v].pc \in Busy =>
          phase'[tool'[v].call] # "unknown" /\ phase'[tool'[v].other] # "unknown"
    BY <2>2, <1>5 DEF CallsInv, BridgeInv, busVars
  <2>4. ASSUME ~overlap'
        PROVE  /\ ~overlap
               /\ \A v, x \in Clients : tool'[v].pc \in Busy /\ tool'[x].pc \in Busy => v = x
               /\ \A v \in Clients : tool'[v].pc \in Busy => v = u /\ tool'[v].pc = "release"
    <3>1. ~overlap /\ tool[u].pc \in Busy
      BY <2>4, <1>1, <1>5 DEF Busy
    <3>2. \A v, x \in Clients : tool[v].pc \in Busy /\ tool[x].pc \in Busy => v = x
      BY <3>1 DEF CallsInv, BridgeInv
    <3> QED
      BY <3>1, <3>2, <2>1, <2>2, <1>1, <1>4, <1>6
  <2>5. ASSUME ~overlap', NEW v \in Clients, tool'[v].pc \in {"release", "record"}
        PROVE  /\ tool'[v].pc = "release"
               /\ bridgeOf'[tool'[v].call] \in tool'[v].old \cup {0}
               /\ bridgeOf'[tool'[v].other] \in tool'[v].old \cup {0}
    <3>1. v = u /\ tool'[v].pc = "release" /\ tool'[v].pc \in Busy
      BY <2>4, <2>5 DEF Busy
    <3>2. tool'[v].old = tool[u].old \ {was} /\ tool[u].pc = "release"
      BY <3>1, <2>1, <1>4, <1>6
    <3>3. bridgeOf[tool[u].call] \in tool[u].old \cup {0}
          /\ bridgeOf[tool[u].other] \in tool[u].old \cup {0}
      BY <3>2, <2>4, <2>5, <1>1 DEF CallsInv, BridgeInv
    <3> QED
      BY <3>1, <3>2, <3>3, <2>2, <1>7
  <2>6. BridgesReachable'
    <3> SUFFICES ASSUME ~overlap', NEW b \in bridges'
                 PROVE  \E c \in Calls : bridgeOf'[c] = b
      BY DEF BridgesReachable
    <3>1. b \in bridges /\ b # was
      BY <1>7
    <3>2. ~\E v \in Clients : tool[v].pc = "record"
      <4>1. ~overlap /\ tool[u].pc \in Busy /\ tool[u].pc # "record"
        BY <2>4, <1>1 DEF Busy
      <4> QED
        BY <4>1, <1>1 DEF CallsInv, BridgeInv, Busy
    <3>3. PICK c \in Calls : bridgeOf[c] = b
      BY <3>1, <3>2, <2>4 DEF CallsInv, BridgeInv, BridgesReachable
    <3> QED
      BY <3>1, <3>3, <1>7
  <2>7. bridges' \subseteq 1 .. bridgesMade' /\ bridgesMade' \in 0 .. MaxBridges
    BY <1>5, <1>7 DEF CallsInv, BridgeInv
  <2>8. tool'[Drainer].pc \notin Busy
    BY <1>6 DEF CallsInv, BridgeInv
  <2> QED
    BY <2>3, <2>4, <2>5, <2>6, <2>7, <2>8 DEF BridgeInv
<1> QED
  BY <1>6, <1>8, <1>9 DEF CallsInv

(* MediaFabric::bridge, with both endpoints there.                         *)
LEMMA CreatesBridgeKeeps ==
  ASSUME CallsInv, NEW u \in Users, CreatesBridge(u)
  PROVE  CallsInv'
<1>1. tool[u] \in BridgeSet /\ u \in Clients /\ tool[u].pc = "release" /\ tool[u].old = {}
  BY ToolShape DEF CreatesBridge, Busy
<1>2. UNCHANGED <<callVars, busVars, bridgeOf, overlap, tools, drain>>
  BY DEF CreatesBridge
<1>3. tools' \in 0 .. MaxTools /\ overlap' \in BOOLEAN /\ tool[u].pc \notin Hung
  BY <1>1, <1>2 DEF CallsInv, ToolInv, Hung
<1>4. \A v \in Clients : v \in Users
  BY DEF Users
<1>5. PhaseInv'
  BY <1>2, CallsUndisturbed DEF callVars, busVars
<1>6. CASE Does(u, IdleUser) /\ UNCHANGED <<bridgesMade, bridges>>
  <2>1. /\ CallInv' /\ UacEndpointsAccounted' /\ ToolInv' /\ BusInv' /\ FollowInv' /\ DrainInv'
        /\ tool'[Drainer] = tool[Drainer]
        /\ \A v \in Users : tool'[v] = IF v = u THEN IdleUser ELSE tool[v]
    BY <1>1, <1>2, <1>3, <1>6, ClientMoves DEF Does
  <2>2. IdleUser.pc = "idle"
    BY DEF IdleUser
  <2>3. BridgeInv'
    <3>1. \A v \in Clients : tool'[v].pc \in Busy => tool'[v] = tool[v]
      BY <2>1, <2>2, <1>4 DEF Busy
    <3>2. \A v \in Clients : tool'[v].pc \in {"release", "record"} => tool'[v] = tool[v]
          /\ tool[v].pc \in Busy
      BY <3>1 DEF Busy
    <3>3. BridgesReachable'
      <4>1. \A v \in Clients : tool[v].pc = "record" => tool'[v] = tool[v]
        BY <2>1, <1>1, <1>4
      <4> QED
        BY <4>1, <1>2, <1>6 DEF CallsInv, BridgeInv, BridgesReachable
    <3>4. tool'[Drainer].pc \notin Busy
      BY <2>1 DEF CallsInv, BridgeInv
    <3> QED
      BY <3>1, <3>2, <3>3, <3>4, <1>2, <1>6 DEF CallsInv, BridgeInv, busVars
  <2> QED
    BY <2>1, <2>3, <1>5 DEF CallsInv
<1>7. CASE /\ bridgesMade < MaxBridges /\ bridgesMade' = bridgesMade + 1
           /\ bridges' = bridges \cup {bridgesMade'}
           /\ Does(u, [tool[u] EXCEPT !.pc = "record", !.new = bridgesMade'])
  <2>1. /\ bridgesMade' \in 0 .. MaxBridges /\ bridgesMade' \in 1 .. bridgesMade'
        /\ bridges' \subseteq 1 .. bridgesMade'
    BY <1>7, CallBoundsAssumption DEF CallsInv, BridgeInv
  <2>2. PICK t : t = [tool[u] EXCEPT !.pc = "record", !.new = bridgesMade']
    OBVIOUS
  <2>3. t \in BridgeSet /\ t.pc = "record" /\ t.new = bridgesMade' /\ t.call = tool[u].call
        /\ t.other = tool[u].other
    BY <2>1, <2>2, <1>1 DEF BridgeSet, Busy
  <2>4. /\ CallInv' /\ UacEndpointsAccounted' /\ ToolInv' /\ BusInv' /\ FollowInv' /\ DrainInv'
        /\ tool'[Drainer] = tool[Drainer]
        /\ \A v \in Users : tool'[v] = IF v = u THEN t ELSE tool[v]
    <3>1. tool' = [tool EXCEPT ![u] = t]
      BY <2>2, <1>7 DEF Does
    <3>2. t \in {IdleUser} \cup BridgeSet
      BY <2>3
    <3> QED
      BY <3>1, <3>2, <1>1, <1>2, <1>3, ClientMoves
  <2>5. BridgeInv'
    <3>1. \A v \in Clients : v # u => tool'[v] = tool[v]
      BY <2>4, <1>4
    <3>2. tool'[u] = t /\ tool[u].pc \in Busy
      BY <2>4, <1>1 DEF Busy
    <3>3. \A v \in Clients : tool'[v].pc \in Busy =>
            phase'[tool'[v].call] # "unknown" /\ phase'[tool'[v].other] # "unknown"
      BY <3>1, <3>2, <2>3, <1>1, <1>2 DEF CallsInv, BridgeInv, busVars
    <3>4. ASSUME ~overlap'
          PROVE  /\ ~overlap
                 /\ \A v \in Clients : tool'[v].pc \in Busy => v = u
                 /\ bridgeOf[t.call] = 0 /\ bridgeOf[t.other] = 0
      <4>1. ~overlap
        BY <3>4, <1>2
      <4>2. \A v \in Clients : tool[v].pc \in Busy => v = u
        BY <4>1, <3>2, <1>1 DEF CallsInv, BridgeInv
      <4>3. /\ bridgeOf[tool[u].call] \in {} \cup {0}
            /\ bridgeOf[tool[u].other] \in {} \cup {0}
        BY <4>1, <1>1 DEF CallsInv, BridgeInv
      <4> QED
        BY <4>1, <4>2, <4>3, <3>1, <2>3
    <3>5. ASSUME ~overlap'
          PROVE  /\ \A v, x \in Clients : tool'[v].pc \in Busy /\ tool'[x].pc \in Busy => v = x
                 /\ \A v \in Clients : tool'[v].pc # "release"
                 /\ \A v \in Clients : tool'[v].pc = "record" =>
                       bridgeOf'[tool'[v].call] = 0 /\ bridgeOf'[tool'[v].other] = 0
      BY <3>2, <3>4, <3>5, <2>3, <1>2 DEF Busy
    <3>6. BridgesReachable'
      <4> SUFFICES ASSUME ~overlap', NEW b \in bridges'
                   PROVE  \/ \E c \in Calls : bridgeOf'[c] = b
                          \/ \E v \in Clients : tool'[v].pc = "record" /\ tool'[v].new = b
        BY DEF BridgesReachable
      <4>1. CASE b = bridgesMade'
        BY <4>1, <3>2, <2>3, <1>1
      <4>2. CASE b \in bridges
        <5>1. ~\E v \in Clients : tool[v].pc = "record"
          BY <3>1, <3>4, <1>1 DEF Busy
        <5> QED
          BY <4>2, <5>1, <3>4, <1>2 DEF CallsInv, BridgeInv, BridgesReachable
      <4> QED
        BY <4>1, <4>2, <1>7
    <3>7. tool'[Drainer].pc \notin Busy
      BY <2>4 DEF CallsInv, BridgeInv
    <3> QED
      BY <3>3, <3>5, <3>6, <3>7, <2>1 DEF BridgeInv
  <2> QED
    BY <2>4, <2>5, <1>5 DEF CallsInv
<1> QED
  BY <1>6, <1>7 DEF CreatesBridge

(* The bridge is recorded on both legs.                                    *)
LEMMA RecordsBridgeKeeps ==
  ASSUME CallsInv, NEW u \in Users, RecordsBridge(u)
  PROVE  CallsInv'
<1>1. /\ tool[u] \in BridgeSet /\ u \in Clients /\ tool[u].pc = "record"
      /\ tool[u].call \in Calls /\ tool[u].other \in Calls
  BY ToolShape DEF RecordsBridge, Busy
<1>2. UNCHANGED <<callVars, busVars, bridges, bridgesMade, overlap, tools, drain>>
  BY DEF RecordsBridge
<1>3. tools' \in 0 .. MaxTools /\ overlap' \in BOOLEAN /\ tool[u].pc \notin Hung
  BY <1>1, <1>2 DEF CallsInv, ToolInv, Hung
<1>4. /\ CallInv' /\ UacEndpointsAccounted' /\ ToolInv' /\ BusInv' /\ FollowInv' /\ DrainInv'
      /\ tool'[Drainer] = tool[Drainer]
      /\ \A v \in Users : tool'[v] = IF v = u THEN IdleUser ELSE tool[v]
  BY <1>1, <1>2, <1>3, ClientMoves DEF RecordsBridge, Does
<1>5. IdleUser.pc = "idle" /\ \A v \in Clients : v \in Users
  BY DEF IdleUser, Users
<1>6. PICK n \in 0 .. MaxBridges : n = tool[u].new
  BY <1>1 DEF BridgeSet
<1>7. /\ bridgeOf' \in [Calls -> 0 .. MaxBridges]
      /\ \A c \in Calls : bridgeOf'[c] = IF c \in {tool[u].call, tool[u].other} THEN n ELSE bridgeOf[c]
  BY <1>6 DEF RecordsBridge, CallsInv, PhaseInv
<1>8. phase[tool[u].call] # "unknown" /\ phase[tool[u].other] # "unknown" /\ tool[u].pc \in Busy
  BY <1>1 DEF CallsInv, BridgeInv, Busy
<1>9. PhaseInv'
  BY <1>2, <1>7, <1>8 DEF CallsInv, PhaseInv, callVars, busVars
<1>10. BridgeInv'
  <2>1. \A v \in Clients : tool'[v].pc \in Busy => tool'[v] = tool[v] /\ v # u
    BY <1>4, <1>5 DEF Busy
  <2>2. ~overlap' => \A v \in Clients : tool'[v].pc \notin Busy
    <3> SUFFICES ASSUME ~overlap, NEW v \in Clients, tool'[v].pc \in Busy PROVE FALSE
      BY <1>2
    <3> QED
      BY <2>1, <1>1, <1>8 DEF CallsInv, BridgeInv
  <2>3. BridgesReachable'
    <3> SUFFICES ASSUME ~overlap', NEW b \in bridges'
                 PROVE  \E c \in Calls : bridgeOf'[c] = b
      BY DEF BridgesReachable
    <3>1. ~overlap /\ b \in bridges /\ b # 0
      BY <1>2 DEF CallsInv, BridgeInv
    <3>2. \A v \in Clients : tool[v].pc = "record" => v = u
      BY <3>1, <1>1, <1>8 DEF CallsInv, BridgeInv, Busy
    <3>3. CASE b = n
      BY <3>3, <1>1, <1>7
    <3>4. CASE b # n
      <4>1. PICK c \in Calls : bridgeOf[c] = b
        BY <3>1, <3>2, <3>4, <1>6 DEF CallsInv, BridgeInv, BridgesReachable
      <4>2. bridgeOf[tool[u].call] = 0 /\ bridgeOf[tool[u].other] = 0
        BY <3>1, <1>1 DEF CallsInv, BridgeInv
      <4> QED
        BY <3>1, <4>1, <4>2, <1>7
    <3> QED
      BY <3>3, <3>4
  <2>4. tool'[Drainer].pc \notin Busy
    BY <1>4 DEF CallsInv, BridgeInv
  <2>5. "release" \in Busy /\ "record" \in Busy
    BY DEF Busy
  <2> QED
    BY <2>1, <2>2, <2>3, <2>4, <2>5, <1>2 DEF CallsInv, BridgeInv, busVars
<1> QED
  BY <1>4, <1>9, <1>10 DEF CallsInv

-----------------------------------------------------------------------------
(* The drain lists the live calls; each of them is up.                     *)
LEMMA DrainStartsKeeps ==
  ASSUME CallsInv, DrainStarts
  PROVE  CallsInv'
<1>1. UNCHANGED <<place, peer, endpoints, dialogs, bus, lagged, phase, bridgeOf, bridges,
                  bridgesMade, overlap, tool, tools>>
  BY DEF DrainStarts, callVars, busVars, bridgeVars
<1>2. PICK lasting \in SUBSET Calls :
        /\ drain' = [drain EXCEPT !.pc = "on", !.todo = lasting, !.listed = lasting]
        /\ \A c \in lasting : phase[c] = "Live"
  <2> DEFINE lasting == {c \in Calls : phase[c] = "Live"}
  <2>1. /\ drain' = [drain EXCEPT !.pc = "on", !.todo = lasting, !.listed = lasting]
        /\ lasting \in SUBSET Calls
        /\ \A c \in lasting : phase[c] = "Live"
    BY DEF DrainStarts
  <2> HIDE DEF lasting
  <2> QED
    BY <2>1
<1>3. \A c \in lasting : place[c] = "up"
  BY <1>2 DEF CallsInv, PhaseInv
<1>4. DrainInv'
  BY <1>1, <1>2, <1>3 DEF CallsInv, DrainInv
<1> QED
  BY <1>1, <1>4, CallsUndisturbed DEF CallsInv

(* The drain hangs up the next call of its list, or skips it. *)
LEMMA DrainNextKeeps ==
  ASSUME CallsInv, NEW c \in Calls, DrainNext(c)
  PROVE  CallsInv'
<1>1. UNCHANGED <<place, peer, endpoints, dialogs, bus, lagged, phase, bridgeOf, bridges,
                  bridgesMade, overlap, tools>>
  BY DEF DrainNext, callVars, busVars, bridgeVars
<1>2. PICK t : t = IF c \in dialogs THEN Hanging("bye", c) ELSE IdleUser
  OBVIOUS
<1>3. /\ t \in {IdleUser} \cup HangSet
      /\ t.pc \in {"idle", "bye"}
      /\ t.pc = "bye" => t.call = c
      /\ c \in dialogs => t.pc = "bye"
  BY <1>2 DEF Hanging, HangSet, Hung, IdleUser
<1>4. /\ tool' = [tool EXCEPT ![Drainer] = t]
      /\ tool[Drainer] = IdleUser
      /\ tool[Drainer].pc = "idle"
  BY <1>2 DEF DrainNext, Does, IdleUser
<1>5. Drainer \in Users /\ \A v \in Clients : v \in Users /\ v # Drainer
  BY DrainerAssumption DEF Users
<1>6. \A v \in Users : tool'[v] = IF v = Drainer THEN t ELSE tool[v]
  BY <1>4, <1>5, UserStep
<1>7. \A d : Removing(d)' <=> Removing(d)
  BY <1>3, <1>4, <1>5, RemovingSame
<1>8. CallInv' /\ BusInv' /\ PhaseInv'
  BY <1>1, CallsUndisturbed
<1>9. UacEndpointsAccounted' /\ FollowInv'
  BY <1>1, <1>7 DEF CallsInv, UacEndpointsAccounted, FollowInv, InBus
<1>10. place[c] = "up"
  BY DEF DrainNext, CallsInv, DrainInv
<1>11. ToolInv'
  <2>1. tool' \in [Users -> {IdleUser} \cup HangSet \cup BridgeSet]
    BY <1>3, <1>4, <1>5 DEF CallsInv, ToolInv
  <2>2. ASSUME NEW v \in Users, tool'[v].pc \in Hung
        PROVE  /\ place'[tool'[v].call] = "up"
               /\ tool'[v].pc # "bye" => peer'[tool'[v].call] = "over"
               /\ tool'[v].pc = "removed" => tool'[v].call \notin dialogs'
    <3>1. CASE v = Drainer
      BY <3>1, <2>2, <1>1, <1>3, <1>6, <1>10 DEF Hung
    <3>2. CASE v # Drainer
      BY <3>2, <2>2, <1>1, <1>6 DEF CallsInv, ToolInv
    <3> QED
      BY <3>1, <3>2
  <2> QED
    BY <2>1, <2>2, <1>1 DEF CallsInv, ToolInv
<1>12. BridgeInv'
  <2>1. tool'[Drainer].pc \notin Busy
    BY <1>3, <1>5, <1>6 DEF Busy
  <2>2. \A v \in Clients : tool'[v] = tool[v]
    BY <1>5, <1>6
  <2> QED
    BY <2>1, <2>2, <1>1, BridgeSame DEF bridgeVars
<1>13. DrainInv'
  <2>1. drain' = [drain EXCEPT !.todo = @ \ {c}] /\ drain.pc = "on" /\ tool'[Drainer] = t
    BY <1>5, <1>6 DEF DrainNext
  <2> QED
    BY <2>1, <1>1, <1>3, <1>4 DEF CallsInv, DrainInv
<1> QED
  BY <1>8, <1>9, <1>11, <1>12, <1>13 DEF CallsInv

(* The drain is over once its list is empty. *)
LEMMA DrainEndsKeeps ==
  ASSUME CallsInv, DrainEnds
  PROVE  CallsInv'
<1>1. UNCHANGED <<place, peer, endpoints, dialogs, bus, lagged, phase, bridgeOf, bridges,
                  bridgesMade, overlap, tool, tools>>
  BY DEF DrainEnds, callVars, busVars, bridgeVars
<1>2. DrainInv'
  BY <1>1 DEF DrainEnds, CallsInv, DrainInv
<1> QED
  BY <1>1, <1>2, CallsUndisturbed DEF CallsInv

(* The induction step: one case for each action. *)
LEMMA CallsStep == CallsInv /\ [CallsNext]_controlVars => CallsInv'
<1> SUFFICES ASSUME CallsInv, [CallsNext]_controlVars PROVE CallsInv'
  OBVIOUS
<1>1. CASE \E c \in Calls : PlaceCall(c) \/ PlaceStep(c)
  BY <1>1, PlaceCallKeeps, GivesUpKeeps, InsertsDialogKeeps, PublishesCreatedKeeps DEF PlaceStep
<1>2. CASE PeerStep
  <2>1. CASE \E c \in Calls : PeerAnswers(c) \/ AckArrives(c) \/ PeerHangsUp(c)
    BY <2>1, PeerAnswersKeeps, AckArrivesKeeps, PeerHangsUpKeeps
  <2>2. CASE \E c \in Calls : Rejected(c) \/ TaglessOk(c) \/ Acks(c)
    BY <2>2, RejectedKeeps, TaglessOkKeeps, AcksKeeps
  <2>3. CASE \E u \in Users : ByeOk(u) \/ ByeRejected(u)
    BY <2>3, ByeOkKeeps, ByeRejectedKeeps
  <2> QED
    BY <1>2, <2>1, <2>2, <2>3 DEF PeerStep
<1>3. ASSUME NEW u \in Users, ToolStep(u)
      PROVE  CallsInv'
  BY <1>3, ByeTimesOutKeeps, HangupRemovesKeeps, HangupEndsKeeps, ReleasesOldKeeps,
     CreatesBridgeKeeps, RecordsBridgeKeeps DEF ToolStep
<1>4. CASE \E u \in Clients, c \in Calls : EndCall(u, c) \/ UnbridgeCall(u, c)
  BY <1>4, EndCallKeeps, UnbridgeCallKeeps
<1>5. CASE \E u \in Clients, a, b \in Calls : BridgeCalls(u, a, b)
  BY <1>5, BridgeCallsKeeps
<1>6. CASE ControlHandles
  BY <1>6, ControlHandlesKeeps
<1>7. CASE DrainStarts \/ DrainStep
  BY <1>7, DrainStartsKeeps, DrainNextKeeps, DrainEndsKeeps DEF DrainStep
<1>8. CASE UNCHANGED controlVars
  BY <1>8, CallsUndisturbed DEF CallsInv, controlVars, callVars, busVars, bridgeVars
<1> QED
  BY <1>1, <1>2, <1>3, <1>4, <1>5, <1>6, <1>7, <1>8 DEF CallsNext

LEMMA CallsInvHolds == CallsSpec => []CallsInv
BY CallsInitInv, CallsStep, PTL DEF CallsSpec

LEMMA CallsInvGivesSound == CallsInv => CallsSound
<1> SUFFICES ASSUME CallsInv PROVE CallsSound
  OBVIOUS
<1>1. NoCallForgotten
  BY DEF NoCallForgotten, CallsInv, CallInv
<1>2. RegistryTruthful
  <2> SUFFICES ASSUME bus = <<>>, ~lagged, NEW c \in Calls, place[c] # "inserted", ~Removing(c)
               PROVE  phase[c] = "Live" <=> c \in dialogs
    BY DEF RegistryTruthful
  <2>1. Len(bus) = 0
    OBVIOUS
  <2>2. \A k : ~InBus(k, c)
    BY <2>1 DEF InBus
  <2>3. phase[c] \in {"unknown", "Live", "Terminated"}
    BY DEF CallsInv, PhaseInv
  <2>4. place[c] = "up" => /\ phase[c] # "unknown"
                           /\ c \in dialogs \/ phase[c] = "Terminated"
    BY <2>2 DEF CallsInv, FollowInv
  <2>5. phase[c] # "unknown" => place[c] = "up"
    BY DEF CallsInv, PhaseInv
  <2>6. phase[c] = "Terminated" => c \notin dialogs
    BY DEF CallsInv, PhaseInv
  <2>7. c \in dialogs => place[c] = "up"
    BY DEF CallsInv, CallInv
  <2> QED
    BY <2>3, <2>4, <2>5, <2>6, <2>7
<1>3. DrainComplete
  <2> SUFFICES ASSUME drain.pc = "down", NEW c \in drain.listed \cap dialogs
               PROVE  c \in drain.unended
    BY DEF DrainComplete
  <2>1. tool[Drainer].pc = "idle" /\ drain.todo = {}
    BY DEF CallsInv, DrainInv, IdleUser
  <2> QED
    BY <2>1 DEF CallsInv, DrainInv
<1> QED
  BY <1>1, <1>2, <1>3 DEF CallsSound, CallsInv, BridgeInv

LEMMA CallsInvGivesType == CallsInv => CallsTypeOK
<1> SUFFICES ASSUME CallsInv PROVE CallsTypeOK
  OBVIOUS
<1>1. \A u \in Users : tool[u] \in {IdleUser} \cup HangSet \cup BridgeSet
  BY DEF CallsInv, ToolInv
<1>2. /\ lagged \in BOOLEAN
      /\ overlap \in BOOLEAN
  BY DEF CallsInv, BusInv, ToolInv
<1> QED
  BY <1>1, <1>2 DEF CallsTypeOK, CallsInv, CallInv, ToolInv, BusInv, PhaseInv, BridgeInv,
     DrainInv, HangSet, BridgeSet, Hung, Busy, Events

(* The state of the outbound calls, the bus, the registry and the drain is *)
(* well typed for every number of calls and clients and every bus depth.   *)
THEOREM CallsAreTyped == CallsSpec => []CallsTypeOK
BY CallsInvHolds, CallsInvGivesType, PTL

(* Whatever calls, hangups, bridge requests and the drain do at once: no   *)
(* endpoint leaks, no answered call is forgotten, the registry tells the   *)
(* truth once it caught up, a bridge can be found from a leg unless two    *)
(* requests overlapped, and the drain ends what it listed unless a BYE got *)
(* no 200 (uac.rs, control.rs, tools/call.rs, shutdown.rs).                *)
THEOREM CallsAreSound == CallsSpec => []CallsSound
BY CallsInvHolds, CallsInvGivesSound, PTL

=============================================================================
