----------------------------- MODULE TxnDriver -----------------------------
(***************************************************************************)
(* The asynchronous transaction driver of                                  *)
(* crates/smiths-sip/src/txn/driver.rs, hosting the machines of TxnFsm for *)
(* one transaction key.                                                    *)
(*                                                                         *)
(* A machine is protected by a mutex, but the actions it returns are       *)
(* carried out one by one after the mutex is released, by whichever task   *)
(* fed the event.  The tasks that can hold such a batch are the Call-ID    *)
(* worker or UAC ("tu"), the ingress loop ("ingress"), the response        *)
(* listener of a client transaction ("listener") and every timer task (a   *)
(* slot).  Each batch step is an action of this module, so the batches of  *)
(* two tasks interleave as they do on the multi-threaded runtime.          *)
(*                                                                         *)
(* The table is keyed by (branch, method, role), so once a transaction is  *)
(* released the same key can be registered again (a request retransmitted  *)
(* after the window closed): entries are numbered by incarnation.          *)
(***************************************************************************)
EXTENDS TxnFsm, Integers, FiniteSets

CONSTANTS
    Slots,      \* timer tasks that may exist at once (bound)
    MaxInc,     \* incarnations of the key (bound)
    MaxIn       \* peer messages, TU responses and retransmission firings (bound)

Roles == {"tu", "ingress", "listener"}
Threads == Slots \cup Roles
Incs == 1 .. MaxInc

ASSUME SlotsAssumption == Slots \cap (Roles \cup {None}) = {}
ASSUME MaxIncAssumption == MaxInc \in Nat \ {0}
ASSUME MaxInAssumption == MaxIn \in Nat

VARIABLES
    fsm,      \* [Incs -> Machine]: the machine of each entry
    table,    \* txns: the incarnation the key maps to, 0 when absent
    started,  \* how many incarnations were registered
    token,    \* [Incs -> BOOLEAN]: TxnEntry.cancel was flipped
    handles,  \* [Incs -> [TimerIds -> slot or None]]: TxnEntry.timers
    tmr,      \* [Slots -> timer task]
    acts,     \* [Threads -> Seq(ActionSet)]: the batch a task is executing
    ent,      \* [Threads -> Incs]: the entry that batch is about
    sent,     \* [Incs -> messages]: what entered TxnEntry.send_tx
    tuFinals, \* [Incs -> Nat]: final responses delivered to the TU
    tuEnds,   \* [Incs -> Nat]: TuEvent::Terminated delivered to the TU
    gauge,    \* sip_server_txns_active
    rx,       \* the listener's channel from the ResponseRouter
    sub,      \* the branch is subscribed at the ResponseRouter
    lphase,   \* the listener: off, live, absorb (2xx window), exit
    got2xx,   \* TxnEntry.got_2xx
    acked,    \* acks_2xx holds the branch
    inputs    \* events used up, against MaxIn

fsmVars == <<fsm, table, started, token>>
timerVars == <<handles, tmr>>
batchVars == <<acts, ent>>
outVars == <<sent, tuFinals, tuEnds, gauge>>
lisVars == <<rx, sub, lphase, got2xx, acked>>
vars == <<fsm, table, started, token, handles, tmr, acts, ent, sent, tuFinals,
          tuEnds, gauge, rx, sub, lphase, got2xx, acked, inputs>>

Free == [st |-> "free", id |-> "A", inc |-> 1]
TimerTask == [st : {"free", "sleep", "fired", "found", "exec"}, id : TimerIds, inc : Incs]
Messages == {"req", "ack", "ack2xx"} \cup Classes
(* "cseq" is a response whose CSeq method is not the transaction's. *)
Responses == Classes \cup {"cseq"}

Kind == fsm[1].kind
IsClient == Kind \in ClientKinds
Idle(th) == acts[th] = <<>>

Init ==
    /\ \E kind \in Kinds, reliable \in BOOLEAN :
           fsm = [i \in Incs |-> NewMachine(kind, reliable)]
    /\ table = 0
    /\ started = 0
    /\ token = [i \in Incs |-> FALSE]
    /\ handles = [i \in Incs |-> [id \in TimerIds |-> None]]
    /\ tmr = [s \in Slots |-> Free]
    /\ acts = [th \in Threads |-> <<>>]
    /\ ent = [th \in Threads |-> 1]
    /\ sent = [i \in Incs |-> {}]
    /\ tuFinals = [i \in Incs |-> 0]
    /\ tuEnds = [i \in Incs |-> 0]
    /\ gauge = 0
    /\ rx = <<>>
    /\ sub = FALSE
    /\ lphase = "off"
    /\ got2xx = FALSE
    /\ acked = FALSE
    /\ inputs = 0

-----------------------------------------------------------------------------
(* Feed event e to the machine of entry i on task th: the lock is taken,   *)
(* on_event runs, the lock is dropped, th goes on with the batch.          *)
Feed(th, i, e) ==
    /\ Idle(th)
    /\ \E ackOk \in BOOLEAN :
         LET out == OnEvent(fsm[i], e, ackOk)
         IN  /\ fsm' = [fsm EXCEPT ![i] = out.fsm]
             /\ acts' = [acts EXCEPT ![th] = out.acts]
    /\ ent' = [ent EXCEPT ![th] = i]

UseInput == inputs < MaxIn /\ inputs' = inputs + 1

(* start_client: a UAC branch is fresh, so a client key is used once. *)
StartClientTxn ==
    /\ IsClient /\ started = 0
    /\ started' = 1
    /\ table' = 1
    /\ sub' = TRUE
    /\ lphase' = "live"
    /\ Feed("tu", 1, StartClient)
    /\ UNCHANGED <<token, timerVars, outVars, rx, got2xx, acked, inputs>>

(* Mutant: the gauge is not raised. *)
StartServerTxnMut ==
    /\ ~IsClient /\ table = 0 /\ started < MaxInc
    /\ Idle("ingress")
    /\ started' = started + 1
    /\ table' = started + 1
    /\ UNCHANGED <<fsm, token, timerVars, batchVars, outVars, lisVars, inputs>>

(* start_server_inner, called by the ingress loop when is_alive is false. *)
StartServerTxn ==
    /\ ~IsClient /\ table = 0 /\ started < MaxInc
    /\ Idle("ingress")
    /\ started' = started + 1
    /\ table' = started + 1
    /\ gauge' = gauge + 1
    /\ UNCHANGED <<fsm, token, timerVars, batchVars, sent, tuFinals, tuEnds, lisVars, inputs>>

(* send_response: the worker's provisional or final response. *)
TuSends ==
    /\ ~IsClient /\ table # 0
    /\ UseInput
    /\ \E m \in Classes \ {"other"} : Feed("tu", table, TuResponse(m))
    /\ UNCHANGED <<table, started, token, timerVars, outVars, lisVars>>

(* deliver_request on the ingress loop: a retransmitted request.  One with *)
(* another sent-by is dropped and changes nothing.                         *)
PeerRetransmits ==
    /\ ~IsClient /\ table # 0
    /\ UseInput
    /\ Feed("ingress", table, RequestRecv("req"))
    /\ UNCHANGED <<table, started, token, timerVars, outVars, lisVars>>

(* deliver_request from handle_ack on the Call-ID worker: the ACK of a     *)
(* non-2xx final.                                                          *)
PeerAcks ==
    /\ Kind = "SI" /\ table # 0 /\ "err" \in sent[table]
    /\ UseInput
    /\ Feed("tu", table, RequestRecv("ack"))
    /\ UNCHANGED <<table, started, token, timerVars, outVars, lisVars>>

-----------------------------------------------------------------------------
(* ResponseRouter::deliver: the UAS reader forwards a response. *)
PeerResponds ==
    /\ IsClient /\ sub /\ "req" \in sent[1]
    /\ UseInput
    /\ \E m \in Responses : rx' = Append(rx, m)
    /\ UNCHANGED <<fsmVars, timerVars, batchVars, outVars, sub, lphase, got2xx, acked>>

(* The listener's live phase: drop on a CSeq mismatch, else                *)
(* deliver_response, which drops it when the entry is already released.    *)
ListenerRecv ==
    /\ lphase = "live" /\ Idle("listener") /\ rx # <<>>
    /\ rx' = Tail(rx)
    /\ IF Head(rx) # "cseq" /\ table # 0
       THEN Feed("listener", table, ResponseRecv(Head(rx)))
       ELSE UNCHANGED <<fsm, batchVars>>
    /\ UNCHANGED <<table, started, token, timerVars, outVars, sub, lphase, got2xx, acked, inputs>>

(* The listener leaves: the registered ACK and the subscription go. *)
ListenerExit == lphase' = "exit" /\ acked' = FALSE /\ sub' = FALSE

ListenerCancelled ==
    /\ lphase = "live" /\ Idle("listener") /\ token[1]
    /\ IF Kind = "CI" /\ got2xx
       THEN lphase' = "absorb" /\ UNCHANGED <<acked, sub>>
       ELSE ListenerExit
    /\ UNCHANGED <<fsmVars, timerVars, batchVars, outVars, rx, got2xx, inputs>>

(* absorb_2xx_retransmits: re-send the registered ACK on each 2xx. *)
AbsorbRecv ==
    /\ lphase = "absorb" /\ rx # <<>>
    /\ rx' = Tail(rx)
    /\ IF Head(rx) = "2xx" /\ acked
       THEN sent' = [sent EXCEPT ![1] = @ \cup {"ack2xx"}]
       ELSE UNCHANGED sent
    /\ UNCHANGED <<fsmVars, timerVars, batchVars, tuFinals, tuEnds, gauge, sub, lphase, got2xx,
                   acked, inputs>>

WindowCloses ==
    /\ lphase = "absorb"
    /\ ListenerExit
    /\ UNCHANGED <<fsmVars, timerVars, batchVars, outVars, rx, got2xx, inputs>>

(* register_ack_for_2xx by the TU that read the 2xx, which then sends it. *)
TuRegistersAck ==
    /\ Kind = "CI" /\ got2xx /\ tuFinals[1] > 0 /\ "ack2xx" \notin sent[1]
    /\ acked' = TRUE
    /\ sent' = [sent EXCEPT ![1] = @ \cup {"ack2xx"}]
    /\ UNCHANGED <<fsmVars, timerVars, batchVars, tuFinals, tuEnds, gauge, rx, sub, lphase,
                   got2xx, inputs>>

-----------------------------------------------------------------------------
(* Timer tasks.  A handle whose task has finished aborts nothing and is    *)
(* forgotten.                                                              *)
Forget(h, s) == [i \in Incs |-> [id \in TimerIds |-> IF h[i][id] = s THEN None ELSE h[i][id]]]
Abort(t, s) == IF s \in Slots /\ t[s].st = "sleep" THEN [t EXCEPT ![s] = Free] ELSE t

(* The sleep branch of the task's select wins.  A retransmission timer     *)
(* re-arms itself without end, so its firings are bounded by MaxIn too.    *)
TimerExpires(s) ==
    /\ tmr[s].st = "sleep"
    /\ IF tmr[s].id \in {"A", "E", "G"} THEN UseInput ELSE UNCHANGED inputs
    /\ tmr' = [tmr EXCEPT ![s].st = "fired"]
    /\ UNCHANGED <<fsmVars, handles, batchVars, outVars, lisVars>>

(* The cancel branch of the task's select wins. *)
TimerBowsOut(s) ==
    /\ tmr[s].st = "sleep" /\ token[tmr[s].inc]
    /\ tmr' = [tmr EXCEPT ![s] = Free]
    /\ handles' = Forget(handles, s)
    /\ UNCHANGED <<fsmVars, batchVars, outVars, lisVars, inputs>>

(* fire_timer looks the key up and removes the handle stored under its id. *)
FireTimer(s) ==
    /\ tmr[s].st = "fired"
    /\ IF table = 0
       THEN /\ tmr' = [tmr EXCEPT ![s] = Free]
            /\ handles' = Forget(handles, s)
            /\ UNCHANGED ent
       ELSE /\ tmr' = [tmr EXCEPT ![s].st = "found"]
            /\ ent' = [ent EXCEPT ![s] = table]
            /\ handles' = [handles EXCEPT ![table][tmr[s].id] = None]
    /\ UNCHANGED <<fsmVars, acts, outVars, lisVars, inputs>>

(* ... and feeds TimerFired to the machine it found. *)
FireFeeds(s) ==
    /\ tmr[s].st = "found"
    /\ Feed(s, ent[s], TimerFired(tmr[s].id))
    /\ tmr' = [tmr EXCEPT ![s].st = "exec"]
    /\ UNCHANGED <<table, started, token, handles, outVars, lisVars, inputs>>

TimerDone(s) ==
    /\ tmr[s].st = "exec" /\ Idle(s)
    /\ tmr' = [tmr EXCEPT ![s] = Free]
    /\ handles' = Forget(handles, s)
    /\ UNCHANGED <<fsmVars, batchVars, outVars, lisVars, inputs>>

-----------------------------------------------------------------------------
(* execute_actions, one action at a time. *)
NextIs(th, do) == acts[th] # <<>> /\ Head(acts[th]).do = do
Arg(th) == Head(acts[th]).arg
Pop(th) == acts' = [acts EXCEPT ![th] = Tail(@)]

ExecSend(th) ==
    /\ NextIs(th, "send")
    /\ sent' = [sent EXCEPT ![ent[th]] = @ \cup {Arg(th)}]
    /\ Pop(th)
    /\ UNCHANGED <<fsmVars, timerVars, ent, tuFinals, tuEnds, gauge, lisVars, inputs>>

ExecDeliver(th) ==
    /\ NextIs(th, "deliver")
    /\ got2xx' = (got2xx \/ (Kind = "CI" /\ Arg(th) = "2xx"))
    /\ tuFinals' = [tuFinals EXCEPT ![ent[th]] = IF Arg(th) \in Finals THEN @ + 1 ELSE @]
    /\ Pop(th)
    /\ UNCHANGED <<fsmVars, timerVars, ent, sent, tuEnds, gauge, rx, sub, lphase, acked, inputs>>

(* arm_timer: spawn the task, store its handle, abort the one it replaces. *)
FreeSlots == {s \in Slots : tmr[s].st = "free"}

ExecArm(th) ==
    /\ NextIs(th, "arm")
    /\ FreeSlots # {}
    /\ LET s   == CHOOSE s \in FreeSlots : TRUE
           old == handles[ent[th]][Arg(th)]
           new == [st |-> "sleep", id |-> Arg(th), inc |-> ent[th]]
       IN  /\ tmr' = [Abort(tmr, old) EXCEPT ![s] = new]
           /\ handles' = [handles EXCEPT ![ent[th]][Arg(th)] = s]
    /\ Pop(th)
    /\ UNCHANGED <<fsmVars, ent, outVars, lisVars, inputs>>

ExecCancel(th) ==
    /\ NextIs(th, "cancel")
    /\ tmr' = Abort(tmr, handles[ent[th]][Arg(th)])
    /\ handles' = [handles EXCEPT ![ent[th]][Arg(th)] = None]
    /\ Pop(th)
    /\ UNCHANGED <<fsmVars, ent, outVars, lisVars, inputs>>

(* terminate: flip the token, abort and drain the timers, remove the key,  *)
(* decrement the gauge if the removal landed, tell the TU.                 *)
Drained(i) == {handles[i][id] : id \in TimerIds} \ {None}

(* Mutant: client transactions are counted out too. *)
CountedMut == table # 0
(* The removal landed on a server entry. *)
Counted == table # 0 /\ ~IsClient

ExecTerminate(th) ==
    /\ NextIs(th, "terminated")
    /\ LET i == ent[th]
       IN  /\ token' = [token EXCEPT ![i] = TRUE]
           /\ tmr' = [s \in Slots |-> IF s \in Drained(i) THEN Abort(tmr, s)[s] ELSE tmr[s]]
           /\ handles' = [handles EXCEPT ![i] = [id \in TimerIds |-> None]]
           /\ tuEnds' = [tuEnds EXCEPT ![i] = @ + 1]
    /\ table' = 0
    /\ gauge' = IF Counted THEN gauge - 1 ELSE gauge
    /\ Pop(th)
    /\ UNCHANGED <<fsm, started, ent, sent, tuFinals, lisVars, inputs>>

Exec(th) ==
    \/ ExecSend(th)
    \/ ExecDeliver(th)
    \/ ExecArm(th)
    \/ ExecCancel(th)
    \/ ExecTerminate(th)

Timer(s) ==
    \/ TimerExpires(s)
    \/ TimerBowsOut(s)
    \/ FireTimer(s)
    \/ FireFeeds(s)
    \/ TimerDone(s)

Environment ==
    \/ StartClientTxn
    \/ StartServerTxn
    \/ TuSends
    \/ PeerRetransmits
    \/ PeerAcks
    \/ PeerResponds
    \/ TuRegistersAck

Listener ==
    \/ ListenerRecv
    \/ ListenerCancelled
    \/ AbsorbRecv
    \/ WindowCloses

Next ==
    \/ Environment
    \/ Listener
    \/ \E s \in Slots : Timer(s)
    \/ \E th \in Threads : Exec(th)

(* The runtime polls every ready task again: a sleep ends, a woken task    *)
(* runs, a batch is executed to its end.  Nothing makes the peer answer or *)
(* the TU respond.                                                         *)
Fairness ==
    /\ \A s \in Slots : WF_vars(Timer(s) \/ Exec(s))
    /\ \A th \in Roles : WF_vars(Exec(th))
    /\ WF_vars(Listener)

Spec == Init /\ [][Next]_vars
FairSpec == Spec /\ Fairness

-----------------------------------------------------------------------------
TypeOK ==
    /\ fsm \in [Incs -> Machine]
    /\ \A i \in Incs : fsm[i].kind = Kind
    /\ table \in {0} \cup Incs
    /\ started \in {0} \cup Incs
    /\ token \in [Incs -> BOOLEAN]
    /\ handles \in [Incs -> [TimerIds -> Slots \cup {None}]]
    /\ tmr \in [Slots -> TimerTask]
    /\ acts \in [Threads -> Seq(ActionSet)]
    /\ ent \in [Threads -> Incs]
    /\ sent \in [Incs -> SUBSET Messages]
    /\ tuFinals \in [Incs -> Nat]
    /\ tuEnds \in [Incs -> Nat]
    /\ gauge \in Nat
    /\ rx \in Seq(Responses)
    /\ sub \in BOOLEAN
    /\ lphase \in {"off", "live", "absorb", "exit"}
    /\ got2xx \in BOOLEAN
    /\ acked \in BOOLEAN
    /\ inputs \in Nat
-----------------------------------------------------------------------------
(* Safety *)

TaskFor(s, i, id) ==
    /\ tmr[s].id = id
    /\ \/ tmr[s].st \in {"sleep", "fired"} /\ tmr[s].inc = i
       \/ tmr[s].st = "found" /\ ent[s] = i

Pending(i, id) ==
    \/ \E s \in Slots : TaskFor(s, i, id)
    \/ \E th \in Threads : ent[th] = i /\ Contains(acts[th], Arm(id))

(* A live transaction cannot be forgotten.  Whenever a registered machine  *)
(* is in a state it must eventually leave by itself, the timer that ends   *)
(* that state (B, D, F, K, H, I or J) is sleeping, is firing, or is about  *)
(* to be armed by a task still executing its batch, whatever timer,        *)
(* response, ACK or retransmission batches were interleaved before.        *)
GuardianPending ==
    \A i \in Incs : table = i /\ Guardian(fsm[i]) # None => Pending(i, Guardian(fsm[i]))

(* terminate runs once per registered entry: an entry whose machine has    *)
(* ended is still in the table only while some task has yet to execute its *)
(* Terminated action, a live machine is always in the table, and the TU is *)
(* told once, after the entry was released (TuEvent::Terminated).          *)
ReleasedOnce ==
    \A i \in 1 .. started :
        /\ tuEnds[i] = IF table = i THEN 0 ELSE 1
        /\ table # i => fsm[i].state = "Terminated"
        /\ fsm[i].state = "Terminated" /\ table = i =>
               \E th \in Threads : ent[th] = i /\ Contains(acts[th], Terminated)

(* sip_server_txns_active counts exactly the server entries in the table:  *)
(* racing batches neither decrement it twice nor leave it raised.          *)
GaugeExact == gauge = IF ~IsClient /\ table # 0 THEN 1 ELSE 0

(* One final per transaction: the client TU gets at most one final         *)
(* response however many the peer sends, and a server never puts both a    *)
(* 2xx and a non-2xx final of one transaction on the wire.                 *)
OneFinal ==
    \A i \in Incs : tuFinals[i] <= 1 /\ ~(Finals \subseteq sent[i])

(* A router subscription does not outlive its transaction: it is gone once *)
(* the listener exited, and a live client transaction always has one.      *)
SubscriptionTracksListener ==
    /\ sub <=> lphase \in {"live", "absorb"}
    /\ IsClient /\ table # 0 => sub

(* What a client sees of its transaction: one final response at most, and  *)
(* responses for exactly as long as the transaction or its 2xx window      *)
(* lives, however many finals the peer sends and whenever they come        *)
(* (driver.rs: execute_actions, spawn_response_listener).                  *)
ClientViewSound == OneFinal /\ SubscriptionTracksListener

(* What a task must never do: deliver a final response after the TU was    *)
(* told the transaction ended; UacClient reads Terminated-without-a-final  *)
(* as a timeout and releases the call's media.                             *)
FinalBeforeEnd ==
    [][\A i \in Incs : tuFinals'[i] # tuFinals[i] => tuEnds[i] = 0]_vars

(* Liveness *)

(* Every client transaction is released, whatever the peer answers or does *)
(* not answer, and its listener gives the branch back to the router.       *)
ClientReleased == (IsClient /\ table # 0) ~> (table = 0 /\ lphase = "exit")

(* Once a server machine has its final response, it is released.           *)
ServerReleased ==
    \A i \in Incs :
        fsm[i].state \in {"Completed", "Confirmed"} ~> tuEnds[i] = 1

(* No transaction stays for ever, whatever the peer does (driver.rs:       *)
(* arm_timer, fire_timer, terminate).                                      *)
TransactionsReleased == ClientReleased /\ ServerReleased
=============================================================================
