----------------------------- MODULE UasDialog -----------------------------
(***************************************************************************)
(* The life of the dialogs of one Call-ID in UasServer                     *)
(* (crates/smiths-sip/src/uas.rs): the INVITE handler with its CANCEL      *)
(* checkpoints, re-INVITE, UPDATE, ACK and BYE, the 2xx retransmit loop,   *)
(* the RFC 4028 session timer, the call-duration guard, and teardown.      *)
(*                                                                         *)
(* Three kinds of task run concurrently: the ingress loop, which admits    *)
(* requests and answers a CANCEL on the spot; the worker of the Call-ID,   *)
(* which handles one item at a time (its queue is the FIFO of CallQueue);  *)
(* and the timer tasks, whose events come back through the internal        *)
(* channel.  A handler is split where it awaits or where a decision taken  *)
(* from shared state is acted upon later.                                  *)
(*                                                                         *)
(* Another call appears here as the outcome of the media attachment (see   *)
(* UasBridge) and as the one bridged to this dialog, whose worker ends     *)
(* this dialog with its own at any moment, between two steps of a handler  *)
(* too.  Digest authentication, offer/answer and media allocation are      *)
(* nondeterministic outcomes.                                              *)
(***************************************************************************)
EXTENDS Integers, Sequences, FiniteSets

CONSTANTS
    Methods,     \* the requests the peer may send
    SendFails,   \* whether a 2xx retransmission can fail (transport error)
    Guarded,     \* whether max_call_duration is configured
    MaxArrivals, \* requests that reach the ingress loop (bound)
    MaxInvites   \* INVITE transactions admitted, and so dialogs and 2xx loops (bound)

AllMethods == {"INVITE", "REINVITE", "UPDATE", "ACK", "BYE", "CANCEL"}

ASSUME MethodsAssumption == Methods \subseteq AllMethods
ASSUME FlagsAssumption == SendFails \in BOOLEAN /\ Guarded \in BOOLEAN
ASSUME BoundsAssumption == MaxArrivals \in Nat /\ MaxInvites \in Nat

Branches == {"inv", "re"}   \* the initial INVITE and one re-INVITE transaction
Tags == 1 .. MaxInvites     \* dialogs, numbered by their local tag
Loops == 1 .. MaxInvites    \* 2xx retransmit tasks

VARIABLES
    txn,        \* [Branches -> state of the INVITE server transaction]
    cancelled,  \* cancelled_invites: branches flagged by a CANCEL
    queue,      \* the worker's FIFO
    job,        \* what the worker is doing
    dlg,        \* dialogs: [Tags -> "none", "Early", "Confirmed"]
    branch,     \* [Tags -> DialogRecord.last_invite_branch]
    media,      \* [Tags -> the record owns a media endpoint]
    made,       \* dialogs created so far
    loop,       \* [Loops -> 2xx retransmit task]
    handle,     \* invite_2xx_retransmits: [Tags -> task or 0]
    timer,      \* session_timers: [Tags -> [gen, id]], gen 0 when absent
    armings,    \* [Tags -> armings of the session timer so far]
    guard,      \* duration_guards: the dialogs with an armed guard
    internal,   \* internal_rx: timer events on their way to the run loop
    cdr,        \* [Tags -> cdr_pending: "none", "pending", "row" once written]
    byes,       \* [Tags -> BYEs the engine sent]
    ends,       \* [Tags -> why the dialog was torn down, once for each teardown]
    cut,        \* [Tags -> where its worker's handler was when the dialog was torn down]
    live,       \* media endpoints allocated and not released
    admitted,   \* INVITE transactions admitted so far, against MaxInvites
    acked,      \* dialogs whose ACK was handled
    arrivals    \* requests admitted, against MaxArrivals

txnVars == <<txn, cancelled, admitted>>
recVars == <<dlg, branch, media, made>>
loopVars == <<loop, handle>>
timerVars == <<timer, armings, guard>>
endVars == <<cdr, byes, ends, cut>>
dialogVars == <<txn, cancelled, queue, job, dlg, branch, media, made, loop, handle, timer, armings,
          guard, internal, cdr, byes, ends, cut, live, admitted, acked, arrivals>>

Request(k, br, t, tm) == [k |-> k, br |-> br, tag |-> t, tm |-> tm, gen |-> 0, id |-> 0]
Event(k, t, g, i) == [k |-> k, br |-> "none", tag |-> t, tm |-> FALSE, gen |-> g, id |-> i]
Idle == [pc |-> "idle", item |-> Request("none", "none", 0, FALSE), media |-> FALSE]
NoTimer == [gen |-> 0, id |-> 0, asleep |-> FALSE]
NoLoop == [st |-> "free", tag |-> 0, dead |-> FALSE, late |-> FALSE]
Over == [NoLoop EXCEPT !.st = "over"]

ItemSet ==
    [k : AllMethods \cup {"none", "AckTimeout", "SessionExpired", "MaxDurationReached"},
     br : Branches \cup {"none"}, tag : 0 .. MaxInvites, tm : BOOLEAN, gen : Nat, id : Nat]

\* Where the worker is in a handler.  From "cdr" to "arm" it establishes dialog
\* `made`, whose record is in the table already.
Making == {"cdr", "answer", "arm"}
Points == {"idle", "admit", "second", "tag", "attach", "reneg", "rearm"} \cup Making

DialogTypeOK ==
    /\ txn \in [Branches -> {"none", "Proceeding", "Completed"}]
    /\ cancelled \subseteq Branches
    /\ queue \in Seq(ItemSet)
    /\ job \in [pc : Points, item : ItemSet, media : BOOLEAN]
    /\ dlg \in [Tags -> {"none", "Early", "Confirmed"}]
    /\ branch \in [Tags -> Branches \cup {"none"}]
    /\ media \in [Tags -> BOOLEAN]
    /\ made \in 0 .. MaxInvites
    /\ loop \in [Loops -> [st : {"free", "run", "expired", "removing", "sending", "over"},
                           tag : 0 .. MaxInvites, dead : BOOLEAN, late : BOOLEAN]]
    /\ handle \in [Tags -> 0 .. MaxInvites]
    /\ timer \in [Tags -> [gen : Nat, id : Nat, asleep : BOOLEAN]]
    /\ armings \in [Tags -> Nat]
    /\ guard \subseteq Tags
    /\ internal \in Seq(ItemSet)
    /\ cdr \in [Tags -> {"none", "pending", "row"}]
    /\ byes \in [Tags -> Nat]
    /\ ends \in [Tags -> Seq({"answered", "ack_timeout", "session_expired", "stale_expiry",
                              "max_duration"})]
    /\ cut \in [Tags -> Points]
    /\ live \in Nat
    /\ admitted \in 0 .. MaxInvites
    /\ acked \subseteq Tags
    /\ arrivals \in 0 .. MaxArrivals

DialogInit ==
    /\ txn = [b \in Branches |-> "none"]
    /\ cancelled = {}
    /\ queue = <<>>
    /\ job = Idle
    /\ dlg = [t \in Tags |-> "none"]
    /\ branch = [t \in Tags |-> "none"]
    /\ media = [t \in Tags |-> FALSE]
    /\ made = 0
    /\ loop = [l \in Loops |-> NoLoop]
    /\ handle = [t \in Tags |-> 0]
    /\ timer = [t \in Tags |-> NoTimer]
    /\ armings = [t \in Tags |-> 0]
    /\ guard = {}
    /\ internal = <<>>
    /\ cdr = [t \in Tags |-> "none"]
    /\ byes = [t \in Tags |-> 0]
    /\ ends = [t \in Tags |-> <<>>]
    /\ cut = [t \in Tags |-> "idle"]
    /\ live = 0
    /\ admitted = 0
    /\ acked = {}
    /\ arrivals = 0

-----------------------------------------------------------------------------
(* The ingress loop. *)
Arrives(k) == k \in Methods /\ arrivals < MaxArrivals /\ arrivals' = arrivals + 1

Enqueue(item) == queue' = Append(queue, item)

(* A retransmission whose transaction lives is absorbed by it (TxnFsm).    *)
(* One of an INVITE already answered 2xx is told from a new INVITE by the  *)
(* branch the dialogs remember.                                            *)
IsInviteRetransmit(br, t) ==
    IF t = 0
    THEN \E d \in Tags : dlg[d] # "none" /\ branch[d] = br
    ELSE dlg[t] # "none" /\ branch[t] = br

(* admit_request for an INVITE (t = 0) or a re-INVITE of dialog t: a       *)
(* server transaction is registered before the worker sees the request.    *)
AdmitInvite(k, br, t, tm) ==
    /\ Arrives(k)
    /\ txn[br] = "none"
    /\ ~IsInviteRetransmit(br, t)
    /\ txn' = [txn EXCEPT ![br] = "Proceeding"]
    /\ admitted < MaxInvites /\ admitted' = admitted + 1
    /\ Enqueue(Request(k, br, t, tm))
    /\ UNCHANGED <<cancelled, job, recVars, loopVars, timerVars, internal, endVars, live, acked>>

InviteArrives == \E tm \in BOOLEAN : AdmitInvite("INVITE", "inv", 0, tm)
ReinviteArrives == \E t \in 1 .. made, tm \in BOOLEAN : AdmitInvite("REINVITE", "re", t, tm)

(* UPDATE, BYE and ACK go straight to the worker.  An ACK names the dialog *)
(* of a 2xx, or carries the branch of a rejected INVITE, and its dialog    *)
(* too if that was a re-INVITE.                                            *)
InDialogArrives ==
    /\ \E k \in {"UPDATE", "BYE", "ACK"}, t \in 1 .. made, tm \in BOOLEAN :
           /\ Arrives(k)
           /\ tm => k = "UPDATE"
           /\ Enqueue(Request(k, "none", t, tm))
    /\ UNCHANGED <<txnVars, job, recVars, loopVars, timerVars, internal, endVars, live, acked>>

RejectedAckArrives ==
    /\ Arrives("ACK")
    /\ \E b \in Branches, t \in 0 .. made :
           /\ txn[b] = "Completed"
           /\ t # 0 => b = "re"
           /\ Enqueue(Request("ACK", b, t, FALSE))
    /\ UNCHANGED <<txnVars, job, recVars, loopVars, timerVars, internal, endVars, live, acked>>

(* cancel_pending_invite: flagged and answered 200 while the INVITE is     *)
(* Proceeding; answered 200 without effect when it has a non-2xx final;    *)
(* otherwise handed to the worker.                                         *)
CancelPendingInvite ==
    /\ Arrives("CANCEL")
    /\ \E b \in Branches :
           /\ txn[b] = "Proceeding"
           /\ cancelled' = cancelled \cup {b}
    /\ UNCHANGED <<txn, admitted, queue, job, recVars, loopVars, timerVars, internal, endVars,
                   live, acked>>

CancelAfterFinal ==
    /\ Arrives("CANCEL")
    /\ \E b \in Branches :
           \/ txn[b] = "Completed" /\ UNCHANGED queue
           \/ txn[b] = "none" /\ Enqueue(Request("CANCEL", b, 0, FALSE))
    /\ UNCHANGED <<txnVars, job, recVars, loopVars, timerVars, internal, endVars, live, acked>>

(* The run loop forwards a timer event to the worker. *)
ForwardInternal ==
    /\ internal # <<>>
    /\ Enqueue(Head(internal))
    /\ internal' = Tail(internal)
    /\ UNCHANGED <<txnVars, job, recVars, loopVars, timerVars, endVars, live, acked, arrivals>>

(* Timer H or I ends a rejected INVITE's transaction (TxnDriver). *)
TxnEnds(b) ==
    /\ txn[b] = "Completed"
    /\ txn' = [txn EXCEPT ![b] = "none"]
    /\ UNCHANGED <<cancelled, admitted, queue, job, recVars, loopVars, timerVars,
                   internal, endVars, live, acked, arrivals>>

-----------------------------------------------------------------------------
(* The worker.  It takes the next item when it has finished the last. *)
Take(k) ==
    /\ job.pc = "idle"
    /\ queue # <<>>
    /\ Head(queue).k = k
    /\ queue' = Tail(queue)

(* respond with a non-2xx final to the INVITE in hand. *)
RejectInvite(b) == txn' = [txn EXCEPT ![b] = "Completed"]

(* take_invite_tag consumes the flag. *)
TakeInviteTag(b) == cancelled' = cancelled \ {b}

Goto(pc) == job' = [job EXCEPT !.pc = pc]
Item == job.item
Finished == job' = Idle

(* handle_invite, first checkpoint. *)
InviteStarts ==
    /\ Take("INVITE")
    /\ LET item == Head(queue)
       IN  IF item.br \in cancelled
           THEN RejectInvite(item.br) /\ TakeInviteTag(item.br) /\ UNCHANGED job
           ELSE /\ job' = [pc |-> "admit", item |-> item, media |-> FALSE]
                /\ UNCHANGED <<txn, cancelled>>
    /\ UNCHANGED <<admitted, recVars, loopVars, timerVars, internal, endVars, live, acked,
                   arrivals>>

(* admit_invite, negotiate_session_timer and negotiate_initial_offer: the  *)
(* INVITE is refused (503, 401, 500, 400, 422, 488; an endpoint already    *)
(* allocated is released), or goes on without media or with an endpoint.   *)
NegotiateInitialOffer ==
    /\ job.pc = "admit"
    /\ \/ Goto("second") /\ UNCHANGED <<txn, cancelled, live>>
       \/ /\ job' = [job EXCEPT !.pc = "second", !.media = TRUE]
          /\ live' = live + 1
          /\ UNCHANGED <<txn, cancelled>>
       \/ /\ RejectInvite(Item.br) /\ TakeInviteTag(Item.br) /\ Finished
          /\ UNCHANGED live
    /\ UNCHANGED <<admitted, queue, recVars, loopVars, timerVars, internal, endVars,
                   acked, arrivals>>

ReleaseNegotiated == live' = IF job.media THEN live - 1 ELSE live

(* Mutant: the endpoint is not released. *)
SecondCheckpointMut ==
    /\ job.pc = "second"
    /\ IF Item.br \in cancelled
       THEN RejectInvite(Item.br) /\ TakeInviteTag(Item.br) /\ Finished
       ELSE Goto("tag") /\ UNCHANGED <<txn, cancelled>>
    /\ UNCHANGED <<admitted, queue, recVars, loopVars, timerVars, internal, endVars, live,
                   acked, arrivals>>

SecondCheckpoint ==
    /\ job.pc = "second"
    /\ IF Item.br \in cancelled
       THEN RejectInvite(Item.br) /\ TakeInviteTag(Item.br) /\ Finished /\ ReleaseNegotiated
       ELSE Goto("tag") /\ UNCHANGED <<txn, cancelled, live>>
    /\ UNCHANGED <<admitted, queue, recVars, loopVars, timerVars, internal, endVars,
                   acked, arrivals>>

TakesTag ==
    /\ job.pc = "tag"
    /\ TakeInviteTag(Item.br)
    /\ Goto("attach")
    /\ UNCHANGED <<txn, admitted, queue, recVars, loopVars, timerVars, internal, endVars,
                   live, acked, arrivals>>

(* attach_media refused the leg (UasBridge): 488, 503 or 500, and the      *)
(* endpoint is released.                                                   *)
AttachMediaFails ==
    /\ job.pc = "attach" /\ job.media
    /\ RejectInvite(Item.br) /\ Finished /\ ReleaseNegotiated
    /\ UNCHANGED <<cancelled, admitted, queue, recVars, loopVars, timerVars, internal,
                   endVars, acked, arrivals>>

(* spawn_invite_2xx_retransmit for dialog t: a registered loop is replaced *)
(* and its token tripped.                                                  *)
SpawnInvite2xxRetransmit(t) ==
    \E l \in Loops :
        /\ loop[l].st = "free"
        /\ loop' = [m \in Loops |->
                      IF m = l THEN [NoLoop EXCEPT !.st = "run", !.tag = t]
                      ELSE IF m = handle[t] THEN [loop[m] EXCEPT !.dead = TRUE]
                      ELSE loop[m]]
        /\ handle' = [handle EXCEPT ![t] = l]

(* arm_session_timer: one more than the generation found in the map; the   *)
(* task of a replaced entry is cancelled.                                  *)
ArmSessionTimer(t) ==
    /\ timer' = [timer EXCEPT ![t] = [gen |-> @.gen + 1, id |-> armings[t] + 1, asleep |-> TRUE]]
    /\ armings' = [armings EXCEPT ![t] = @ + 1]

CancelSessionTimer(t) ==
    /\ timer' = [timer EXCEPT ![t] = NoTimer]
    /\ UNCHANGED armings

RearmSessionTimer(t, tm) == IF tm THEN ArmSessionTimer(t) ELSE CancelSessionTimer(t)

(* attach_media done; establish_dialog inserts the record, which owns the  *)
(* endpoint from then on.                                                  *)
EstablishDialog ==
    /\ job.pc = "attach"
    /\ made < MaxInvites
    /\ LET t == made + 1
       IN  /\ made' = t
           /\ dlg' = [dlg EXCEPT ![t] = "Early"]
           /\ branch' = [branch EXCEPT ![t] = Item.br]
           /\ media' = [media EXCEPT ![t] = job.media]
    /\ job' = [job EXCEPT !.pc = "cdr", !.media = FALSE]
    /\ UNCHANGED <<txnVars, queue, loopVars, timerVars, internal, endVars, live, acked, arrivals>>

OpensCdr ==
    /\ job.pc = "cdr"
    /\ cdr' = [cdr EXCEPT ![made] = "pending"]
    /\ Goto("answer")
    /\ UNCHANGED <<txnVars, queue, recVars, loopVars, timerVars, internal, byes, ends, cut, live,
                   acked, arrivals>>

(* respond with the 200: its retransmit loop starts whether or not the     *)
(* record is still there, and the 2xx ends the transaction.                *)
Answers2xx ==
    /\ job.pc = "answer"
    /\ SpawnInvite2xxRetransmit(made)
    /\ txn' = [txn EXCEPT ![Item.br] = "none"]
    /\ Goto("arm")
    /\ UNCHANGED <<cancelled, admitted, queue, recVars, timerVars, internal, endVars, live, acked,
                   arrivals>>

ArmsTimers ==
    /\ job.pc = "arm"
    /\ IF Item.tm THEN ArmSessionTimer(made) ELSE UNCHANGED <<timer, armings>>
    /\ guard' = IF Guarded THEN guard \cup {made} ELSE guard
    /\ Finished
    /\ UNCHANGED <<txnVars, queue, recVars, loopVars, internal, endVars, live, acked, arrivals>>

-----------------------------------------------------------------------------
(* handle_reinvite and handle_update. *)
InDialogStarts(k) ==
    /\ Take(k)
    /\ LET item == Head(queue)
       IN  \/ /\ dlg[item.tag] # "none"
              /\ job' = [pc |-> "reneg", item |-> item, media |-> FALSE]
              /\ UNCHANGED <<txn, cancelled>>
           \* 481 for an unknown dialog, 400 or 500 for its CSeq, 422: only
           \* the 422 takes the tag, and with it the flag
           \/ /\ IF k = "REINVITE" THEN RejectInvite(item.br) ELSE UNCHANGED txn
              /\ \/ UNCHANGED cancelled
                 \/ dlg[item.tag] # "none" /\ TakeInviteTag(item.br)
              /\ UNCHANGED job
    /\ UNCHANGED <<admitted, recVars, loopVars, timerVars, internal, endVars, live, acked,
                   arrivals>>

(* renegotiate failed: a fresh endpoint is released, the request refused. *)
RenegotiateFails ==
    /\ job.pc = "reneg"
    /\ IF Item.k = "REINVITE" THEN RejectInvite(Item.br) ELSE UNCHANGED txn
    /\ Finished
    /\ UNCHANGED <<cancelled, admitted, queue, recVars, loopVars, timerVars, internal,
                   endVars, live, acked, arrivals>>

(* renegotiate, commit_in_dialog_update, which leaves a record that is     *)
(* gone alone, and the 200.  A dialog without media gets an endpoint when  *)
(* the request has an offer.                                               *)
RenegotiateSucceeds ==
    /\ job.pc = "reneg"
    /\ LET t == Item.tag
       IN  /\ \/ UNCHANGED <<live, media>>
              \/ /\ dlg[t] # "none" /\ ~media[t]
                 /\ live' = live + 1
                 /\ media' = [media EXCEPT ![t] = TRUE]
           /\ IF Item.k = "REINVITE"
              THEN /\ branch' = IF dlg[t] # "none" THEN [branch EXCEPT ![t] = Item.br] ELSE branch
                   /\ SpawnInvite2xxRetransmit(t)
                   /\ txn' = [txn EXCEPT ![Item.br] = "none"]
              ELSE UNCHANGED <<branch, loopVars, txn>>
    /\ Goto("rearm")
    /\ UNCHANGED <<cancelled, admitted, queue, dlg, made, timerVars, internal, endVars, acked,
                   arrivals>>

Rearms ==
    /\ job.pc = "rearm"
    /\ RearmSessionTimer(Item.tag, Item.tm)
    /\ Finished
    /\ UNCHANGED <<txnVars, queue, recVars, loopVars, guard, internal, endVars, live, acked,
                   arrivals>>

(* handle_ack *)
CancelInvite2xxRetransmit(t) ==
    /\ loop' = [l \in Loops |-> IF l = handle[t] THEN [loop[l] EXCEPT !.dead = TRUE] ELSE loop[l]]
    /\ handle' = [handle EXCEPT ![t] = 0]

HandleAck ==
    /\ Take("ACK")
    /\ LET item == Head(queue)
           t == item.tag
       IN  /\ txn' = [b \in Branches |-> IF b = item.br /\ txn[b] = "Completed" THEN "none" ELSE txn[b]]
           /\ IF t = 0 THEN UNCHANGED <<dlg, acked, loopVars>>
              ELSE /\ dlg' = [dlg EXCEPT ![t] = IF @ = "Early" THEN "Confirmed" ELSE @]
                   /\ acked' = IF dlg[t] # "none" THEN acked \cup {t} ELSE acked
                   /\ CancelInvite2xxRetransmit(t)
    /\ UNCHANGED <<cancelled, admitted, job, branch, media, made, timerVars,
                   internal, endVars, live, arrivals>>

(* handle_cancel changes no state: 200 for an INVITE answered 2xx, or 481. *)
HandleCancel ==
    /\ Take("CANCEL")
    /\ UNCHANGED <<txnVars, job, recVars, loopVars, timerVars, internal, endVars, live, acked,
                   arrivals>>

(* The point at which the worker is with dialog t. *)
At(t) ==
    IF (job.pc \in Making /\ t = made) \/ (job.pc \in {"reneg", "rearm"} /\ t = Item.tag)
    THEN job.pc ELSE "idle"

(* teardown_dialog and finish_teardown for a live dialog: whoever takes    *)
(* the record out of the table does the rest.                              *)
Teardown(t, why, sendBye) ==
    /\ dlg' = [dlg EXCEPT ![t] = "none"]
    /\ CancelInvite2xxRetransmit(t)
    /\ CancelSessionTimer(t)
    /\ guard' = guard \ {t}
    /\ live' = IF media[t] THEN live - 1 ELSE live
    /\ byes' = IF sendBye THEN [byes EXCEPT ![t] = @ + 1] ELSE byes
    /\ cdr' = [cdr EXCEPT ![t] = IF @ = "pending" THEN "row" ELSE @]
    /\ ends' = [ends EXCEPT ![t] = Append(@, why)]
    /\ cut' = [cut EXCEPT ![t] = At(t)]

NoTeardown == UNCHANGED <<dlg, loopVars, timerVars, live, endVars>>

HandleBye ==
    /\ Take("BYE")
    /\ LET t == Head(queue).tag
       IN  IF dlg[t] # "none" THEN Teardown(t, "answered", FALSE) ELSE NoTeardown
    /\ UNCHANGED <<txnVars, job, branch, media, made, internal, acked, arrivals>>

(* handle_internal *)
(* Mutant: any live dialog is ended, confirmed or not. *)
StillEarlyMut(t) == dlg[t] # "none"

StillEarly(t) == dlg[t] = "Early"

HandleAckTimeout ==
    /\ Take("AckTimeout")
    /\ LET t == Head(queue).tag
       IN  IF StillEarly(t) THEN Teardown(t, "ack_timeout", TRUE) ELSE NoTeardown
    /\ UNCHANGED <<txnVars, job, branch, media, made, internal, acked, arrivals>>

(* The event is current when its generation is the one in the map. *)
HandleSessionExpired ==
    /\ Take("SessionExpired")
    /\ LET e == Head(queue)
           why == IF e.id = timer[e.tag].id THEN "session_expired" ELSE "stale_expiry"
       IN  IF timer[e.tag].gen = e.gen /\ dlg[e.tag] # "none"
           THEN Teardown(e.tag, why, TRUE)
           ELSE NoTeardown
    /\ UNCHANGED <<txnVars, job, branch, media, made, internal, acked, arrivals>>

HandleMaxDuration ==
    /\ Take("MaxDurationReached")
    /\ LET t == Head(queue).tag
       IN  IF dlg[t] # "none" THEN Teardown(t, "max_duration", TRUE) ELSE NoTeardown
    /\ UNCHANGED <<txnVars, job, branch, media, made, internal, acked, arrivals>>

(* teardown_call of the call bridged to dialog t, by that call's worker:   *)
(* the partner gets a BYE and its row.  Only a dialog with media is ever   *)
(* bridged.                                                                *)
PartnerTearsDown(t) ==
    /\ dlg[t] # "none" /\ media[t]
    /\ Teardown(t, "answered", TRUE)
    /\ UNCHANGED <<txnVars, queue, job, branch, media, made, internal, acked, arrivals>>

-----------------------------------------------------------------------------
(* Timer tasks.  A 2xx loop sees its token at the top of each iteration;   *)
(* when the budget is exhausted, or a retransmission fails, it leaves the  *)
(* loop, looks at the token once more, takes its map slot out and, after a *)
(* timeout, reports it.                                                    *)
LoopCancelled(l) ==
    /\ loop[l].st = "run"
    /\ loop[l].dead
    /\ loop' = [loop EXCEPT ![l] = Over]
    /\ UNCHANGED <<txnVars, queue, job, recVars, handle, timerVars, internal, endVars, live, acked,
                   arrivals>>

LoopTimesOut(l) ==
    /\ loop[l].st = "run"
    /\ ~loop[l].dead
    /\ loop' = [loop EXCEPT ![l].st = "expired", ![l].late = TRUE]
    /\ UNCHANGED <<txnVars, queue, job, recVars, handle, timerVars, internal, endVars, live, acked,
                   arrivals>>

LoopChecksToken(l) ==
    /\ loop[l].st = "expired"
    /\ loop' = [loop EXCEPT ![l] = IF @.dead THEN Over ELSE [@ EXCEPT !.st = "removing"]]
    /\ UNCHANGED <<txnVars, queue, job, recVars, handle, timerVars, internal, endVars, live, acked,
                   arrivals>>

LoopRemovesHandle(l) ==
    /\ loop[l].st = "removing"
    /\ handle' = [handle EXCEPT ![loop[l].tag] = 0]
    /\ loop' = [loop EXCEPT ![l].st = "sending"]
    /\ UNCHANGED <<txnVars, queue, job, recVars, timerVars, internal, endVars, live, acked, arrivals>>

(* Mutant: the loop gives up without reporting it. *)
LoopReportsMut(l) ==
    /\ loop[l].st = "sending"
    /\ loop' = [loop EXCEPT ![l] = Over]
    /\ UNCHANGED <<txnVars, queue, job, recVars, handle, timerVars, internal, endVars, live, acked,
                   arrivals>>

LoopReports(l) ==
    /\ loop[l].st = "sending"
    /\ loop' = [loop EXCEPT ![l] = Over]
    /\ internal' = IF loop[l].late THEN Append(internal, Event("AckTimeout", loop[l].tag, 0, 0))
                   ELSE internal
    /\ UNCHANGED <<txnVars, queue, job, recVars, handle, timerVars, endVars, live, acked, arrivals>>

(* A transport error leaves the loop without ack_timed_out. *)
LoopSendFails(l) ==
    /\ SendFails
    /\ loop[l].st = "run"
    /\ loop' = [loop EXCEPT ![l].st = "expired"]
    /\ UNCHANGED <<txnVars, queue, job, recVars, handle, timerVars, internal, endVars, live, acked,
                   arrivals>>

SessionTimerFires(t) ==
    /\ timer[t].asleep
    /\ timer' = [timer EXCEPT ![t].asleep = FALSE]
    /\ internal' = Append(internal, Event("SessionExpired", t, timer[t].gen, timer[t].id))
    /\ UNCHANGED <<txnVars, queue, job, recVars, loopVars, armings, guard, endVars, live, acked,
                   arrivals>>

(* The guard's task ends; its token stays in the map until teardown. *)
GuardFires(t) ==
    /\ t \in guard
    /\ guard' = guard \ {t}
    /\ internal' = Append(internal, Event("MaxDurationReached", t, 0, 0))
    /\ UNCHANGED <<txnVars, queue, job, recVars, loopVars, timer, armings, endVars, live, acked,
                   arrivals>>

-----------------------------------------------------------------------------
IngressStep ==
    \/ InviteArrives
    \/ ReinviteArrives
    \/ InDialogArrives
    \/ RejectedAckArrives
    \/ CancelPendingInvite
    \/ CancelAfterFinal

DialogWorkerStep ==
    \/ InviteStarts
    \/ NegotiateInitialOffer
    \/ SecondCheckpoint
    \/ TakesTag
    \/ AttachMediaFails
    \/ EstablishDialog
    \/ OpensCdr
    \/ Answers2xx
    \/ ArmsTimers
    \/ InDialogStarts("REINVITE")
    \/ InDialogStarts("UPDATE")
    \/ RenegotiateFails
    \/ RenegotiateSucceeds
    \/ Rearms
    \/ HandleAck
    \/ HandleCancel
    \/ HandleBye
    \/ HandleAckTimeout
    \/ HandleSessionExpired
    \/ HandleMaxDuration

LoopStep(l) ==
    \/ LoopCancelled(l)
    \/ LoopTimesOut(l)
    \/ LoopChecksToken(l)
    \/ LoopRemovesHandle(l)
    \/ LoopReports(l)
    \/ LoopSendFails(l)

DialogNext ==
    \/ IngressStep
    \/ ForwardInternal
    \/ DialogWorkerStep
    \/ \E b \in Branches : TxnEnds(b)
    \/ \E l \in Loops : LoopStep(l)
    \/ \E t \in Tags : SessionTimerFires(t) \/ GuardFires(t) \/ PartnerTearsDown(t)

DialogSpec == DialogInit /\ [][DialogNext]_dialogVars

(* The runtime polls every ready task: the run loop forwards timer events, *)
(* the worker goes on, and the timers of tokio fire.  Nothing makes the    *)
(* peer send anything.                                                     *)
DialogFairness ==
    /\ WF_dialogVars(ForwardInternal)
    /\ WF_dialogVars(DialogWorkerStep)
    /\ \A l \in Loops : WF_dialogVars(LoopStep(l))
    /\ \A t \in Tags : WF_dialogVars(SessionTimerFires(t)) /\ WF_dialogVars(GuardFires(t))

FairDialogSpec == DialogSpec /\ DialogFairness

-----------------------------------------------------------------------------
(* Every INVITE and re-INVITE is answered: when the worker has nothing     *)
(* left to do no INVITE transaction waits for its final response, whatever *)
(* step refused it (uas.rs: "Every failure has been answered before `Err`  *)
(* comes back").                                                           *)
InviteAnswered ==
    job.pc = "idle" /\ queue = <<>> => \A b \in Branches : txn[b] # "Proceeding"

(* No media endpoint leaks on any path through the INVITE handler, its     *)
(* CANCEL checkpoints, renegotiation and teardown: each one allocated      *)
(* belongs to a live dialog or to the INVITE in hand.                      *)
EndpointsAccounted ==
    live = Cardinality({t \in Tags : dlg[t] # "none" /\ media[t]})
           + (IF job.media THEN 1 ELSE 0)

(* Teardown leaves nothing armed for a dialog that is gone, and no open    *)
(* CDR, except what a handler cut off by the bridged partner's teardown    *)
(* had yet to set up: of a dialog cut off while it was established or      *)
(* refreshed the later steps still run, and nothing undoes them (uas.rs:   *)
(* establish_dialog and rearm_session_timer do not look at the record).    *)
NothingOutlivesDialog ==
    \A t \in Tags : dlg[t] = "none" =>
        /\ handle[t] # 0 => cut[t] \in {"cdr", "answer", "reneg"}
        /\ timer[t].gen # 0 => cut[t] \in Making \cup {"reneg", "rearm"}
        /\ t \in guard => cut[t] \in Making
        /\ cdr[t] = "pending" => cut[t] = "cdr"

(* A dialog is ended once, however many timer events, BYEs and teardowns   *)
(* of its partner pile up: at most one BYE from the engine, and one CDR    *)
(* row per ended dialog, unless the partner's teardown came before the CDR *)
(* was opened.                                                             *)
EndedOnce ==
    \A t \in Tags :
        /\ Len(ends[t]) <= 1
        /\ byes[t] <= 1
        /\ dlg[t] # "none" => ends[t] = <<>>
        /\ cdr[t] = "row" => ends[t] # <<>>
        /\ ends[t] # <<>> /\ cut[t] # "cdr" => cdr[t] = "row"

(* A call whose ACK was handled is never ended for want of an ACK, even    *)
(* when the timeout was already on its way.                                *)
AckedNeverTimedOut ==
    \A t \in acked : "ack_timeout" \notin {ends[t][i] : i \in 1 .. Len(ends[t])}

(* What a dialog holds and owes, on every path through INVITE, CANCEL,     *)
(* refresh, BYE, the timers and the teardown of the call bridged to it:    *)
(* answers, endpoints, timers and the end of the call (uas.rs:             *)
(* handle_invite, teardown_call, handle_internal).                         *)
DialogsSound ==
    /\ InviteAnswered
    /\ EndpointsAccounted
    /\ NothingOutlivesDialog
    /\ EndedOnce
    /\ AckedNeverTimedOut
=============================================================================
