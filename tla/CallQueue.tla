----------------------------- MODULE CallQueue -----------------------------
(***************************************************************************)
(* What UasServer::dispatch promises the SIP traffic of one Call-ID: a     *)
(* FIFO served by one server at a time.  Until the engine shuts down no    *)
(* item is lost, duplicated or overtaken; after shutdown items may be      *)
(* discarded, never reordered.  UasWorker implements this module.          *)
(***************************************************************************)
EXTENDS Naturals, Sequences

CONSTANT Items   \* the requests and timer events of the call

VARIABLES
    queue,    \* items waiting, oldest first
    serving,  \* the item being handled, 0 when there is none
    done,     \* items handled, in order
    open      \* FALSE once the engine's cancellation token is tripped

vars == <<queue, serving, done, open>>

Init ==
    /\ queue = <<>>
    /\ serving = 0
    /\ done = <<>>
    /\ open = TRUE

Enqueue(item) ==
    /\ queue' = Append(queue, item)
    /\ UNCHANGED <<serving, done, open>>

Serve ==
    /\ serving = 0
    /\ queue # <<>>
    /\ serving' = Head(queue)
    /\ queue' = Tail(queue)
    /\ UNCHANGED <<done, open>>

Finish ==
    /\ serving # 0
    /\ done' = Append(done, serving)
    /\ serving' = 0
    /\ UNCHANGED <<queue, open>>

Close ==
    /\ open' = FALSE
    /\ UNCHANGED <<queue, serving, done>>

Discard ==
    /\ ~open
    /\ queue' = <<>>
    /\ UNCHANGED <<serving, done, open>>

Next ==
    \/ \E item \in Items : Enqueue(item)
    \/ Serve
    \/ Finish
    \/ Close
    \/ Discard

Spec == Init /\ [][Next]_vars
=============================================================================
