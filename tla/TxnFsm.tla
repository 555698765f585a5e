------------------------------- MODULE TxnFsm -------------------------------
(***************************************************************************)
(* The four RFC 3261 section 17 transaction machines of                    *)
(* crates/smiths-sip/src/txn: client INVITE (CI), client non-INVITE (CN),  *)
(* server INVITE (SI) and server non-INVITE (SN).                          *)
(*                                                                         *)
(* As in the code a machine owns no I/O: OnEvent maps the machine and one  *)
(* event to the machine's next value and the list of actions the driver is *)
(* to carry out.  Message bytes are abstracted to the class the machines   *)
(* tell apart: "1xx", "2xx", "err" (3xx-6xx) and "other" (an unparseable   *)
(* status line, which parse_status turns into 0) for responses, "req" for  *)
(* the request the machine was built with, "ack" for the ACK of a non-2xx  *)
(* final.  Timers are known by name; their durations are not modelled.     *)
(***************************************************************************)
EXTENDS Sequences

ClientKinds == {"CI", "CN"}
ServerKinds == {"SI", "SN"}
Kinds == ClientKinds \cup ServerKinds

States == {"Calling", "Trying", "Proceeding", "Completed", "Confirmed", "Terminated"}
TimerIds == {"A", "B", "D", "E", "F", "G", "H", "I", "J", "K"}
Classes == {"1xx", "2xx", "err", "other"}
Finals == {"2xx", "err"}
None == "none"

(* A machine: its kind, its state, the transport's profile, and the bytes  *)
(* it caches: the last response it sent (servers) or the ACK it built      *)
(* (client INVITE).                                                        *)
Machine == [kind : Kinds, state : States, reliable : BOOLEAN,
            cached : Classes \cup {None, "ack"}]

NewMachine(kind, reliable) ==
    [kind |-> kind,
     state |-> CASE kind = "CI" -> "Calling"
                 [] kind = "SI" -> "Proceeding"
                 [] OTHER       -> "Trying",
     reliable |-> reliable,
     cached |-> None]

(* Actions handed to the driver (TransactionAction). *)
Send(m)      == [do |-> "send", arg |-> m]
Deliver(m)   == [do |-> "deliver", arg |-> m]
Arm(id)      == [do |-> "arm", arg |-> id]
Cancel(id)   == [do |-> "cancel", arg |-> id]
Terminated   == [do |-> "terminated", arg |-> None]

ActionSet ==
    [do : {"send"}, arg : {"req", "ack"} \cup Classes]
        \cup [do : {"deliver"}, arg : Classes]
        \cup [do : {"arm", "cancel"}, arg : TimerIds]
        \cup {Terminated}

(* Action a is still to be executed in this batch. *)
Contains(batch, a) == \E k \in DOMAIN batch : batch[k] = a

(* Events fed to a machine (TransactionEvent). *)
StartClient      == [ev |-> "start", arg |-> None]
ResponseRecv(m)  == [ev |-> "response", arg |-> m]
RequestRecv(m)   == [ev |-> "request", arg |-> m]
TuResponse(m)    == [ev |-> "tu", arg |-> m]
TimerFired(id)   == [ev |-> "timer", arg |-> id]

Outcome(f, acts) == [fsm |-> f, acts |-> acts]
Absorb(f)        == Outcome(f, <<>>)
Goto(f, s)       == [f EXCEPT !.state = s]
ReplayCached(f)  == Outcome(f, IF f.cached = None THEN <<>> ELSE <<Send(f.cached)>>)

(* Mutant: a final is taken again in Completed. *)
AwaitsFinalMut(f) == f.state \in {"Calling", "Trying", "Proceeding", "Completed"}
(* A client machine that still waits for its final response. *)
AwaitsFinal(f) == f.state \in {"Calling", "Trying", "Proceeding"}

(* Mutant: timers B and F are given up once a provisional was seen. *)
TimesOutMut(f) == f.state \in {"Calling", "Trying"}
(* A client machine that timer B or F ends. *)
TimesOut(f) == f.state \in {"Calling", "Trying", "Proceeding"}

-----------------------------------------------------------------------------
(* Client INVITE.  ackOk is FALSE when build_non_ok_ack cannot build the   *)
(* ACK from the peer's malformed final: the machine then completes without *)
(* one.                                                                    *)
EnterCompletedNonOk(f, m, ackOk) ==
    Outcome([f EXCEPT !.state = IF f.reliable THEN "Terminated" ELSE "Completed",
                      !.cached = IF ackOk THEN "ack" ELSE None],
            LET last == IF f.reliable THEN Terminated ELSE Arm("D")
            IN  IF ackOk
                THEN <<Deliver(m), Cancel("A"), Cancel("B"), Send("ack"), last>>
                ELSE <<Deliver(m), Cancel("A"), Cancel("B"), last>>)

(* Mutant: the transaction is released before the TU gets the 2xx. *)
EnterTerminatedOn2xxMut(f, m) ==
    Outcome(Goto(f, "Terminated"),
            <<Cancel("A"), Cancel("B"), Terminated, Deliver(m)>>)

EnterTerminatedOn2xx(f, m) ==
    Outcome(Goto(f, "Terminated"),
            <<Deliver(m), Cancel("A"), Cancel("B"), Terminated>>)

ClientInvite(f, e, ackOk) ==
    CASE f.state = "Calling" /\ e = StartClient ->
            Outcome(f, IF f.reliable THEN <<Send("req"), Arm("B")>>
                                     ELSE <<Send("req"), Arm("A"), Arm("B")>>)
      [] f.state = "Calling" /\ e = TimerFired("A") ->
            Outcome(f, <<Send("req"), Arm("A")>>)
      [] f.state = "Calling" /\ e = ResponseRecv("1xx") ->
            Outcome(Goto(f, "Proceeding"), <<Cancel("A"), Deliver("1xx")>>)
      [] f.state = "Proceeding" /\ e = ResponseRecv("1xx") ->
            Outcome(f, <<Deliver("1xx")>>)
      [] AwaitsFinal(f) /\ e = ResponseRecv("2xx") ->
            EnterTerminatedOn2xx(f, "2xx")
      [] AwaitsFinal(f) /\ e = ResponseRecv("err") ->
            EnterCompletedNonOk(f, "err", ackOk)
      [] TimesOut(f) /\ e = TimerFired("B") ->
            Outcome(Goto(f, "Terminated"), <<Cancel("A"), Terminated>>)
      [] f.state = "Completed" /\ e = ResponseRecv("err") ->
            ReplayCached(f)
      [] f.state = "Completed" /\ e = TimerFired("D") ->
            Outcome(Goto(f, "Terminated"), <<Terminated>>)
      [] OTHER -> Absorb(f)

-----------------------------------------------------------------------------
(* Client non-INVITE. *)
(* Mutant: on a reliable transport the machine ends and tells nobody. *)
EnterCompletedMut(f, m) ==
    Outcome(Goto(f, IF f.reliable THEN "Terminated" ELSE "Completed"),
            IF f.reliable THEN <<Deliver(m), Cancel("E"), Cancel("F")>>
                          ELSE <<Deliver(m), Cancel("E"), Cancel("F"), Arm("K")>>)

EnterCompleted(f, m) ==
    Outcome(Goto(f, IF f.reliable THEN "Terminated" ELSE "Completed"),
            <<Deliver(m), Cancel("E"), Cancel("F"),
              IF f.reliable THEN Terminated ELSE Arm("K")>>)

ClientNonInvite(f, e) ==
    CASE f.state = "Trying" /\ e = StartClient ->
            Outcome(f, IF f.reliable THEN <<Send("req"), Arm("F")>>
                                     ELSE <<Send("req"), Arm("E"), Arm("F")>>)
      [] f.state \in {"Trying", "Proceeding"} /\ e = TimerFired("E") ->
            Outcome(f, <<Send("req"), Arm("E")>>)
      [] f.state = "Trying" /\ e = ResponseRecv("1xx") ->
            Outcome(Goto(f, "Proceeding"),
                    IF f.reliable THEN <<Deliver("1xx")>> ELSE <<Deliver("1xx"), Arm("E")>>)
      [] f.state = "Proceeding" /\ e = ResponseRecv("1xx") ->
            Outcome(f, <<Deliver("1xx")>>)
      [] AwaitsFinal(f) /\ e.ev = "response" /\ e.arg \in Finals ->
            EnterCompleted(f, e.arg)
      [] TimesOut(f) /\ e = TimerFired("F") ->
            Outcome(Goto(f, "Terminated"), <<Cancel("E"), Terminated>>)
      [] f.state = "Completed" /\ e = TimerFired("K") ->
            Outcome(Goto(f, "Terminated"), <<Terminated>>)
      [] OTHER -> Absorb(f)

-----------------------------------------------------------------------------
(* Server INVITE. *)

(* Mutant: timer H is taken for a retransmission timer and not armed on a  *)
(* reliable transport.                                                     *)
RejectInviteMut(f) ==
    Outcome([f EXCEPT !.state = "Completed", !.cached = "err"],
            IF f.reliable THEN <<Send("err")>>
                          ELSE <<Send("err"), Arm("G"), Arm("H")>>)

(* The TU's non-2xx final. *)
RejectInvite(f) ==
    Outcome([f EXCEPT !.state = "Completed", !.cached = "err"],
            IF f.reliable THEN <<Send("err"), Arm("H")>>
                          ELSE <<Send("err"), Arm("G"), Arm("H")>>)

(* The ACK of that final. *)
AckForNonOk(f) ==
    Outcome(Goto(f, IF f.reliable THEN "Terminated" ELSE "Confirmed"),
            <<Cancel("G"), Cancel("H"), IF f.reliable THEN Terminated ELSE Arm("I")>>)

ServerInvite(f, e) ==
    CASE f.state = "Proceeding" /\ e = TuResponse("1xx") ->
            Outcome([f EXCEPT !.cached = "1xx"], <<Send("1xx")>>)
      [] f.state = "Proceeding" /\ e = TuResponse("2xx") ->
            Outcome(Goto(f, "Terminated"), <<Send("2xx"), Terminated>>)
      [] f.state = "Proceeding" /\ e = TuResponse("err") ->
            RejectInvite(f)
      [] f.state \in {"Proceeding", "Completed"} /\ e = RequestRecv("req") ->
            ReplayCached(f)
      [] f.state = "Completed" /\ e = TimerFired("G") ->
            Outcome(f, IF f.cached = None THEN <<>> ELSE <<Send(f.cached), Arm("G")>>)
      [] f.state = "Completed" /\ e = RequestRecv("ack") ->
            AckForNonOk(f)
      [] f.state = "Completed" /\ e = TimerFired("H") ->
            Outcome(Goto(f, "Terminated"), <<Cancel("G"), Terminated>>)
      [] f.state = "Confirmed" /\ e = TimerFired("I") ->
            Outcome(Goto(f, "Terminated"), <<Terminated>>)
      [] OTHER -> Absorb(f)

-----------------------------------------------------------------------------
(* Server non-INVITE. *)
EmitFinal(f, m) ==
    Outcome([f EXCEPT !.state = IF f.reliable THEN "Terminated" ELSE "Completed",
                      !.cached = m],
            <<Send(m), IF f.reliable THEN Terminated ELSE Arm("J")>>)

ServerNonInvite(f, e) ==
    CASE f.state \in {"Trying", "Proceeding"} /\ e = TuResponse("1xx") ->
            Outcome([f EXCEPT !.state = "Proceeding", !.cached = "1xx"], <<Send("1xx")>>)
      [] f.state \in {"Trying", "Proceeding"} /\ e.ev = "tu" /\ e.arg \in Finals ->
            EmitFinal(f, e.arg)
      [] f.state \in {"Proceeding", "Completed"} /\ e.ev = "request" ->
            ReplayCached(f)
      [] f.state = "Completed" /\ e = TimerFired("J") ->
            Outcome(Goto(f, "Terminated"), <<Terminated>>)
      [] OTHER -> Absorb(f)

-----------------------------------------------------------------------------
OnEvent(f, e, ackOk) ==
    CASE f.kind = "CI" -> ClientInvite(f, e, ackOk)
      [] f.kind = "CN" -> ClientNonInvite(f, e)
      [] f.kind = "SI" -> ServerInvite(f, e)
      [] f.kind = "SN" -> ServerNonInvite(f, e)

(* The timers whose firing always ends a machine in the given state: what  *)
(* keeps a live transaction from living for ever.                          *)
GuardianOf(kind, state) ==
    CASE kind = "CI" /\ state \in {"Calling", "Proceeding"} -> "B"
      [] kind = "CI" /\ state = "Completed"                 -> "D"
      [] kind = "CN" /\ state \in {"Trying", "Proceeding"}  -> "F"
      [] kind = "CN" /\ state = "Completed"                 -> "K"
      [] kind = "SI" /\ state = "Completed"                 -> "H"
      [] kind = "SI" /\ state = "Confirmed"                 -> "I"
      [] kind = "SN" /\ state = "Completed"                 -> "J"
      [] OTHER                                              -> None

Guardian(f) == GuardianOf(f.kind, f.state)
=============================================================================
