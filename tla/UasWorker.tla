----------------------------- MODULE UasWorker -----------------------------
(***************************************************************************)
(* UasServer::dispatch and run_worker (crates/smiths-sip/src/uas.rs) for   *)
(* one Call-ID.                                                            *)
(*                                                                         *)
(* The run loop hands every request and timer event of a call to an        *)
(* unbounded channel whose receiver is a worker task.  A worker that saw   *)
(* no traffic for WORKER_IDLE retires: it takes the workers-map entry (a   *)
(* write lock on the shard), polls its channel once more, and either goes  *)
(* on with what it found or removes the entry and exits.  The dispatcher   *)
(* sends while it holds the entry for reading.                             *)
(*                                                                         *)
(* Items are numbered in the order the run loop dispatches them, workers   *)
(* in the order they are spawned.                                          *)
(***************************************************************************)
EXTENDS Naturals, Sequences

CONSTANTS
    MaxItems,    \* requests and timer events of the call (bound)
    MaxWorkers   \* workers spawned for the call (bound)

ASSUME MaxItemsAssumption == MaxItems \in Nat
ASSUME MaxWorkersAssumption == MaxWorkers \in Nat

Workers == 1 .. MaxWorkers
Items == 1 .. MaxItems

VARIABLES
    disp,     \* dispatch: idle, absent (no usable entry), spawned (entry inserted)
    sent,     \* items sent to a channel
    entry,    \* workers[call_id]: the worker whose sender it holds, 0 when vacant
    spawned,  \* workers spawned
    wk,       \* [Workers -> state of the task]
    q,        \* [Workers -> Seq(Items)]: the channel of each worker
    cur,      \* [Workers -> item being handled, 0 when there is none]
    lock,     \* the worker holding the entry for writing, 0 when free
    handled,  \* items whose handler returned, in order
    cancel    \* the engine's cancellation token is tripped

vars == <<disp, sent, entry, spawned, wk, q, cur, lock, handled, cancel>>

(* A task is not yet spawned, awaits its channel, timed out, holds the map *)
(* entry, found the channel empty, handles an item, has left its loop but  *)
(* not dropped the receiver, or is gone.                                   *)
WorkerStates == {"none", "recv", "idle", "holding", "empty", "busy", "leaving", "gone"}
Left == {"leaving", "gone"}

TypeOK ==
    /\ disp \in {"idle", "absent", "spawned"}
    /\ sent \in 0 .. MaxItems
    /\ entry \in 0 .. MaxWorkers
    /\ spawned \in 0 .. MaxWorkers
    /\ wk \in [Workers -> WorkerStates]
    /\ q \in [Workers -> Seq(Items)]
    /\ cur \in [Workers -> 0 .. MaxItems]
    /\ lock \in 0 .. MaxWorkers
    /\ handled \in Seq(Items)
    /\ cancel \in BOOLEAN

Init ==
    /\ disp = "idle"
    /\ sent = 0
    /\ entry = 0
    /\ spawned = 0
    /\ wk = [w \in Workers |-> "none"]
    /\ q = [w \in Workers |-> <<>>]
    /\ cur = [w \in Workers |-> 0]
    /\ lock = 0
    /\ handled = <<>>
    /\ cancel = FALSE

-----------------------------------------------------------------------------
(* The dispatcher.  The run loop starts no dispatch once it saw the token. *)
Dispatching ==
    /\ lock = 0
    /\ sent < MaxItems
    /\ disp = "idle" => ~cancel
    /\ disp \in {"idle", "spawned"}

(* The entry is there and its receiver is alive: the send succeeds while   *)
(* the entry is held.                                                      *)
DispatchSends ==
    /\ Dispatching
    /\ entry # 0
    /\ wk[entry] # "gone"
    /\ q' = [q EXCEPT ![entry] = Append(@, sent + 1)]
    /\ sent' = sent + 1
    /\ disp' = "idle"
    /\ UNCHANGED <<entry, spawned, wk, cur, lock, handled, cancel>>

(* No entry, or its receiver was dropped: the item comes back. *)
DispatchMisses ==
    /\ Dispatching
    /\ entry # 0 => wk[entry] = "gone"
    /\ disp' = "absent"
    /\ UNCHANGED <<sent, entry, spawned, wk, q, cur, lock, handled, cancel>>

(* Insert a fresh sender, spawn its worker and look the entry up again. *)
DispatchSpawns ==
    /\ disp = "absent"
    /\ lock = 0
    /\ spawned < MaxWorkers
    /\ spawned' = spawned + 1
    /\ entry' = spawned + 1
    /\ wk' = [wk EXCEPT ![spawned + 1] = "recv"]
    /\ disp' = "spawned"
    /\ UNCHANGED <<sent, q, cur, lock, handled, cancel>>

-----------------------------------------------------------------------------
(* The worker.  Its select is biased: the token wins over the channel. *)
Receives(w) ==
    /\ wk[w] = "recv"
    /\ ~cancel
    /\ q[w] # <<>>
    /\ wk' = [wk EXCEPT ![w] = "busy"]
    /\ cur' = [cur EXCEPT ![w] = Head(q[w])]
    /\ q' = [q EXCEPT ![w] = Tail(@)]
    /\ UNCHANGED <<disp, sent, entry, spawned, lock, handled, cancel>>

SeesCancel(w) ==
    /\ wk[w] = "recv"
    /\ cancel
    /\ wk' = [wk EXCEPT ![w] = "leaving"]
    /\ UNCHANGED <<disp, sent, entry, spawned, q, cur, lock, handled, cancel>>

(* WORKER_IDLE elapsed with the channel empty.  Dispatch does not await    *)
(* between spawning a worker and sending to it, so that worker has been    *)
(* idle for far less.                                                      *)
TimesOut(w) ==
    /\ wk[w] = "recv"
    /\ ~cancel
    /\ q[w] = <<>>
    /\ ~(disp = "spawned" /\ entry = w)
    /\ wk' = [wk EXCEPT ![w] = "idle"]
    /\ UNCHANGED <<disp, sent, entry, spawned, q, cur, lock, handled, cancel>>

(* Mutant: the retirement check looks at the queue without the entry. *)
TakesEntryMut(w) ==
    /\ wk[w] = "idle"
    /\ lock = 0
    /\ wk' = [wk EXCEPT ![w] = "holding"]
    /\ UNCHANGED <<disp, sent, entry, spawned, q, cur, lock, handled, cancel>>

TakesEntry(w) ==
    /\ wk[w] = "idle"
    /\ lock = 0
    /\ lock' = w
    /\ wk' = [wk EXCEPT ![w] = "holding"]
    /\ UNCHANGED <<disp, sent, entry, spawned, q, cur, handled, cancel>>

(* try_recv found what an ingress send slipped in: handle it. *)
FindsItem(w) ==
    /\ wk[w] = "holding"
    /\ q[w] # <<>>
    /\ lock' = 0
    /\ wk' = [wk EXCEPT ![w] = "busy"]
    /\ cur' = [cur EXCEPT ![w] = Head(q[w])]
    /\ q' = [q EXCEPT ![w] = Tail(@)]
    /\ UNCHANGED <<disp, sent, entry, spawned, handled, cancel>>

(* Mutant: an idle worker retires without a last look at its channel. *)
FindsNothingMut(w) ==
    /\ wk[w] = "holding"
    /\ wk' = [wk EXCEPT ![w] = "empty"]
    /\ UNCHANGED <<disp, sent, entry, spawned, q, cur, lock, handled, cancel>>

FindsNothing(w) ==
    /\ wk[w] = "holding"
    /\ q[w] = <<>>
    /\ wk' = [wk EXCEPT ![w] = "empty"]
    /\ UNCHANGED <<disp, sent, entry, spawned, q, cur, lock, handled, cancel>>

Retires(w) ==
    /\ wk[w] = "empty"
    /\ entry' = 0
    /\ lock' = 0
    /\ wk' = [wk EXCEPT ![w] = "leaving"]
    /\ UNCHANGED <<disp, sent, spawned, q, cur, handled, cancel>>

(* The future is dropped, and the receiver with what is still queued. *)
Drops(w) ==
    /\ wk[w] = "leaving"
    /\ wk' = [wk EXCEPT ![w] = "gone"]
    /\ UNCHANGED <<disp, sent, entry, spawned, q, cur, lock, handled, cancel>>

(* handle_request or handle_internal returned. *)
Handles(w) ==
    /\ wk[w] = "busy"
    /\ handled' = Append(handled, cur[w])
    /\ cur' = [cur EXCEPT ![w] = 0]
    /\ wk' = [wk EXCEPT ![w] = "recv"]
    /\ UNCHANGED <<disp, sent, entry, spawned, q, lock, cancel>>

Shutdown ==
    /\ ~cancel
    /\ cancel' = TRUE
    /\ UNCHANGED <<disp, sent, entry, spawned, wk, q, cur, lock, handled>>

WorkerStep(w) ==
    \/ Receives(w)
    \/ SeesCancel(w)
    \/ TimesOut(w)
    \/ TakesEntry(w)
    \/ FindsItem(w)
    \/ FindsNothing(w)
    \/ Retires(w)
    \/ Drops(w)
    \/ Handles(w)

DispatchStep == DispatchSends \/ DispatchMisses \/ DispatchSpawns

Next ==
    \/ DispatchStep
    \/ \E w \in Workers : WorkerStep(w)
    \/ Shutdown

Spec == Init /\ [][Next]_vars

(* The runtime polls every ready task, and a dispatch once begun runs to   *)
(* its end without awaiting.                                               *)
Fairness ==
    /\ WF_vars((DispatchSends \/ DispatchMisses) /\ disp # "idle")
    /\ WF_vars(DispatchSpawns)
    /\ \A w \in Workers : WF_vars(WorkerStep(w))

FairSpec == Spec /\ Fairness

-----------------------------------------------------------------------------
(* A successor is spawned only when its predecessor no longer takes items, *)
(* so two tasks never run the handlers of one Call-ID at once.             *)
OneHandlerAtATime ==
    \A v, w \in Workers : wk[v] = "busy" /\ wk[w] = "busy" => v = w

(* Until shutdown every item sent is handled, being handled, or in the     *)
(* channel of a worker that has not left its loop ("never a message in a   *)
(* queue nobody drains").                                                  *)
NoItemStranded ==
    ~cancel => \A w \in Workers : wk[w] \in Left => q[w] = <<>>

(* A worker holds the entry exactly while it decides whether to retire. *)
LockInv ==
    \A w \in Workers : lock = w <=> wk[w] \in {"holding", "empty"}

(* Workers succeed one another: all but the latest have left, the entry    *)
(* names the latest, and it is vacant only when the latest left too.       *)
SuccessionInv ==
    /\ entry \in {0, spawned}
    /\ \A w \in Workers : w > spawned <=> wk[w] = "none"
    /\ \A w \in Workers : w < spawned => wk[w] \in Left
    /\ entry = 0 /\ spawned # 0 => wk[spawned] \in Left
    /\ \A w \in Workers : wk[w] \in Left /\ ~cancel => w # entry
    /\ disp = "absent" => (entry = 0 \/ wk[entry] = "gone")

(* The items of a call are handled in the order the run loop dispatched    *)
(* them, none skipped and none twice, across worker retirements.           *)
HandledInOrder == \A i \in 1 .. Len(handled) : handled[i] = i

(* The last item taken off the channel of w, when w is the latest worker. *)
Taken(w) == IF wk[w] = "busy" THEN Len(handled) + 1 ELSE Len(handled)

(* Items are consecutive: those handled, the one in hand, those queued. *)
InHandInv ==
    \A w \in Workers :
        /\ wk[w] = "busy" => cur[w] = Len(handled) + 1
        /\ wk[w] # "busy" => cur[w] = 0

ChannelInv ==
    \A w \in Workers :
        /\ wk[w] \in {"none", "empty"} => q[w] = <<>>
        /\ wk[w] \notin Left => \A i \in 1 .. Len(q[w]) : q[w][i] = Taken(w) + i

(* Nothing sent is missing before shutdown, and a dispatch that had to     *)
(* look twice found all earlier items handled.                             *)
CountInv ==
    /\ disp # "idle" =>
           /\ sent = Len(handled)
           /\ \A w \in Workers : q[w] = <<>> /\ wk[w] # "busy"
    /\ ~cancel /\ spawned = 0 => sent = Len(handled)
    /\ ~cancel /\ spawned # 0 => sent = Taken(spawned) + Len(q[spawned])

(* What every step preserves; the proofs rest on it. *)
IInv ==
    /\ TypeOK
    /\ LockInv
    /\ SuccessionInv
    /\ HandledInOrder
    /\ InHandInv
    /\ ChannelInv
    /\ CountInv
    /\ NoItemStranded

(* While the engine runs: a dispatch is under way, or an item sent has not *)
(* been handled.                                                           *)
Unserved == ~cancel /\ (disp # "idle" \/ sent > Len(handled))

-----------------------------------------------------------------------------
(* The mapping to CallQueue: the queue is the channel of the latest worker *)
(* for as long as it may still take from it.                               *)
QueueBar ==
    IF spawned # 0 /\ wk[spawned] \notin Left THEN q[spawned] ELSE <<>>
ServingBar == IF spawned # 0 THEN cur[spawned] ELSE 0

Abstract == INSTANCE CallQueue
    WITH queue <- QueueBar, serving <- ServingBar, done <- handled, open <- ~cancel

(* The worker machinery implements the abstract FIFO. *)
ImplementsCallQueue == Abstract!Spec
=============================================================================
