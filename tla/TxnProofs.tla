----------------------------- MODULE TxnProofs -----------------------------
(***************************************************************************)
(* The transaction driver never loses, never doubly releases and never     *)
(* miscounts a transaction, and shows its user one final response, before  *)
(* the end, for every number of timer tasks, incarnations and inputs.      *)
(*                                                                         *)
(* First the machines: what one event may do to a machine and which        *)
(* actions it hands to the driver.  Then the driver, which uses nothing    *)
(* else of them.                                                           *)
(***************************************************************************)
EXTENDS TxnDriver, Naturals, TLAPS

(* A CancelTimer(g) may still be outstanding for a machine in this state:  *)
(* the state g guards was left for good.                                   *)
CancelOK(state, g) ==
    /\ g \in {"A", "B", "E", "F", "G", "H"}
    /\ g \in {"B", "F"} => state \in {"Completed", "Confirmed", "Terminated"}
    /\ g = "H" => state \in {"Confirmed", "Terminated"}

(* States a machine of each kind can be in. *)
KindStates(kind) ==
    CASE kind = "CI" -> {"Calling", "Proceeding", "Completed", "Terminated"}
      [] kind = "CN" -> {"Trying", "Proceeding", "Completed", "Terminated"}
      [] kind = "SI" -> {"Proceeding", "Completed", "Confirmed", "Terminated"}
      [] kind = "SN" -> {"Trying", "Proceeding", "Completed", "Terminated"}

GoodMachine(f) ==
    /\ f \in Machine
    /\ f.state \in KindStates(f.kind)

(* What a batch is to the driver: typed, with Terminated last if at all. *)
BatchOK(batch) ==
    /\ batch \in Seq(ActionSet)
    /\ \A k \in DOMAIN batch : batch[k] = Terminated => k = Len(batch)

(* What every step of a machine guarantees to the driver. *)
GoodStep(f, out) ==
    /\ GoodMachine(out.fsm) /\ out.fsm.kind = f.kind
    /\ BatchOK(out.acts)
    /\ Contains(out.acts, Terminated) <=> f.state # "Terminated" /\ out.fsm.state = "Terminated"
    /\ f.state = "Terminated" => out.fsm.state = "Terminated"
    /\ Guardian(out.fsm) \notin {None, Guardian(f)} =>
           Contains(out.acts, Arm(Guardian(out.fsm)))
    /\ \A g \in TimerIds : Contains(out.acts, Cancel(g)) => CancelOK(out.fsm.state, g)
    /\ \A g \in TimerIds : CancelOK(f.state, g) => CancelOK(out.fsm.state, g)

-----------------------------------------------------------------------------
(* Explicit batches. *)
(* The empty batch of an absorbed event. *)
LEMMA Batch0 == BatchOK(<<>>) /\ \A x : ~Contains(<<>>, x)
BY DEF BatchOK, Contains

(* A batch of 1 action. *)
LEMMA Batch1 ==
    ASSUME NEW a \in ActionSet
    PROVE  /\ BatchOK(<<a>>)
           /\ \A x : Contains(<<a>>, x) <=> x \in {a}
BY DEF BatchOK, Contains

(* A batch of 2 actions. *)
LEMMA Batch2 ==
    ASSUME NEW a \in ActionSet, NEW b \in ActionSet,
           a # Terminated
    PROVE  /\ BatchOK(<<a, b>>)
           /\ \A x : Contains(<<a, b>>, x) <=> x \in {a, b}
BY DEF BatchOK, Contains

(* A batch of 3 actions. *)
LEMMA Batch3 ==
    ASSUME NEW a \in ActionSet, NEW b \in ActionSet, NEW c \in ActionSet,
           a # Terminated, b # Terminated
    PROVE  /\ BatchOK(<<a, b, c>>)
           /\ \A x : Contains(<<a, b, c>>, x) <=> x \in {a, b, c}
BY DEF BatchOK, Contains

(* A batch of 4 actions. *)
LEMMA Batch4 ==
    ASSUME NEW a \in ActionSet, NEW b \in ActionSet, NEW c \in ActionSet, NEW d \in ActionSet,
           a # Terminated, b # Terminated, c # Terminated
    PROVE  /\ BatchOK(<<a, b, c, d>>)
           /\ \A x : Contains(<<a, b, c, d>>, x) <=> x \in {a, b, c, d}
BY DEF BatchOK, Contains

(* A batch of 5 actions. *)
LEMMA Batch5 ==
    ASSUME NEW a \in ActionSet, NEW b \in ActionSet, NEW c \in ActionSet, NEW d \in ActionSet, NEW e \in ActionSet,
           a # Terminated, b # Terminated, c # Terminated, d # Terminated
    PROVE  /\ BatchOK(<<a, b, c, d, e>>)
           /\ \A x : Contains(<<a, b, c, d, e>>, x) <=> x \in {a, b, c, d, e}
BY DEF BatchOK, Contains

(* Actions of different sorts, and actions on different timers, differ. *)
LEMMA ActionFacts ==
    /\ \A m \in {"req", "ack"} \cup Classes : Send(m) \in ActionSet /\ Send(m) # Terminated
    /\ \A m \in Classes : Deliver(m) \in ActionSet /\ Deliver(m) # Terminated
    /\ \A id \in TimerIds : Arm(id) \in ActionSet /\ Arm(id) # Terminated
    /\ \A id \in TimerIds : Cancel(id) \in ActionSet /\ Cancel(id) # Terminated
    /\ Terminated \in ActionSet
    /\ \A id \in TimerIds : \A m : Cancel(id) # Send(m) /\ Cancel(id) # Deliver(m) /\ Cancel(id) # Arm(m)
    /\ \A id, m : Cancel(id) = Cancel(m) => id = m
BY DEF Send, Deliver, Arm, Cancel, Terminated, ActionSet

(* A batch that neither ends the machine nor cancels a timer, in a step    *)
(* that leaves the state alone.                                            *)
LEMMA SameState ==
    ASSUME NEW f, GoodMachine(f), NEW c \in Classes \cup {None, "ack"}, NEW batch, BatchOK(batch),
           ~Contains(batch, Terminated), \A g \in TimerIds : ~Contains(batch, Cancel(g))
    PROVE  GoodStep(f, Outcome([f EXCEPT !.cached = c], batch))
BY DEF GoodMachine, GoodStep, Outcome, Machine, Guardian

(* Absorbing an event and replaying the cached bytes are good steps. *)
LEMMA AbsorbStep ==
    ASSUME NEW f, GoodMachine(f)
    PROVE  GoodStep(f, Absorb(f))
<1>1. [f EXCEPT !.cached = f.cached] = f
    BY DEF GoodMachine, Machine
<1>2. f.cached \in Classes \cup {None, "ack"}
    BY DEF GoodMachine, Machine
<1> QED
    BY <1>1, <1>2, Batch0, SameState DEF Absorb

(* Replaying the cached bytes is a good step. *)
LEMMA ReplayStep ==
    ASSUME NEW f, GoodMachine(f)
    PROVE  GoodStep(f, ReplayCached(f))
<1>1. CASE f.cached = None
    BY <1>1, AbsorbStep DEF ReplayCached, Absorb
<1>2. CASE f.cached # None
    <2>1. f.cached \in {"req", "ack"} \cup Classes
        BY <1>2 DEF GoodMachine, Machine
    <2>2. Send(f.cached) \in ActionSet /\ Send(f.cached) # Terminated
        BY <2>1, ActionFacts
    <2>3. \A g \in TimerIds : Cancel(g) # Send(f.cached)
        BY ActionFacts
    <2>4. [f EXCEPT !.cached = f.cached] = f
        BY DEF GoodMachine, Machine
    <2>5. f.cached \in Classes \cup {None, "ack"}
        BY DEF GoodMachine, Machine
    <2>6. /\ BatchOK(<<Send(f.cached)>>) /\ ~Contains(<<Send(f.cached)>>, Terminated)
          /\ \A g \in TimerIds : ~Contains(<<Send(f.cached)>>, Cancel(g))
        BY <2>2, <2>3, Batch1
    <2>7. GoodStep(f, Outcome([f EXCEPT !.cached = f.cached], <<Send(f.cached)>>))
        BY <2>5, <2>6, SameState
    <2> QED
        BY <1>2, <2>4, <2>7 DEF ReplayCached
<1> QED
    BY <1>1, <1>2

(* A step to state s with cached bytes c. *)
Moved(f, s, c) == [f EXCEPT !.state = s, !.cached = c]

(* Goto is Moved with the cache kept. *)
LEMMA MovedGoto ==
    ASSUME NEW f, GoodMachine(f), NEW s
    PROVE  Goto(f, s) = Moved(f, s, f.cached) /\ f.cached \in Classes \cup {None, "ack"}
BY DEF GoodMachine, Machine, Goto, Moved

(* The conditions under which a step to another state is good. *)
LEMMA MoveStep ==
    ASSUME NEW f, GoodMachine(f), f.state # "Terminated",
           NEW s \in KindStates(f.kind), NEW c \in Classes \cup {None, "ack"},
           NEW batch, BatchOK(batch),
           Contains(batch, Terminated) <=> s = "Terminated",
           GuardianOf(f.kind, s) \notin {None, GuardianOf(f.kind, f.state)} =>
               Contains(batch, Arm(GuardianOf(f.kind, s))),
           \A g \in TimerIds : Contains(batch, Cancel(g)) => CancelOK(s, g),
           \A g \in TimerIds : CancelOK(f.state, g) => CancelOK(s, g)
    PROVE  GoodStep(f, Outcome(Moved(f, s, c), batch))
<1>1. Moved(f, s, c).state = s /\ Moved(f, s, c).kind = f.kind /\ Moved(f, s, c) \in Machine
    BY DEF GoodMachine, Machine, Moved, KindStates, States, Kinds, ClientKinds, ServerKinds
<1> QED
    BY <1>1 DEF GoodStep, GoodMachine, Outcome, Guardian

(* A machine's cached bytes have their type. *)
LEMMA GoodCached ==
    ASSUME NEW f, GoodMachine(f)
    PROVE  /\ f.cached \in Classes \cup {None, "ack"}
           /\ [f EXCEPT !.cached = f.cached] = f
BY DEF GoodMachine, Machine

(* The conditions under which a step that leaves the machine alone is good. *)
LEMMA StayStep ==
    ASSUME NEW f, GoodMachine(f), NEW batch, BatchOK(batch),
           ~Contains(batch, Terminated), \A g \in TimerIds : ~Contains(batch, Cancel(g))
    PROVE  GoodStep(f, Outcome(f, batch))
BY SameState, GoodCached

-----------------------------------------------------------------------------
(* Every step of the server non-INVITE machine is good. *)
LEMMA ServerNonInviteStep ==
    ASSUME NEW f, GoodMachine(f), f.kind = "SN", NEW e
    PROVE  GoodStep(f, ServerNonInvite(f, e))
<1> USE DEF TuResponse, RequestRecv, TimerFired, Finals
<1>1. CASE f.state \in {"Trying", "Proceeding"} /\ e = TuResponse("1xx")
    <2>1. ServerNonInvite(f, e) = Outcome(Moved(f, "Proceeding", "1xx"),
              <<Send("1xx")>>)
        BY <1>1 DEF ServerNonInvite, Moved
    <2>2. /\ BatchOK(<<Send("1xx")>>)
          /\ ~Contains(<<Send("1xx")>>, Terminated)
          /\ \A g \in TimerIds : Contains(<<Send("1xx")>>, Cancel(g)) => g \in {}
        BY Batch1, ActionFacts DEF Classes, TimerIds
    <2>3. /\ f.state # "Terminated" /\ "Proceeding" \in KindStates(f.kind) /\ "1xx" \in Classes \cup {None, "ack"}
          /\ \A g \in TimerIds : CancelOK(f.state, g) => CancelOK("Proceeding", g)
        BY <1>1, MovedGoto DEF KindStates, CancelOK, Classes
    <2>4. /\ GuardianOf(f.kind, "Proceeding") \in {None, GuardianOf(f.kind, f.state)}
          /\ \A g \in {} : CancelOK("Proceeding", g)
        BY <1>1 DEF GuardianOf, CancelOK
    <2> QED
        BY <2>1, <2>2, <2>3, <2>4, MoveStep
<1>2. CASE f.state \in {"Trying", "Proceeding"} /\ e.ev = "tu" /\ e.arg \in Finals
    <2>1. CASE f.reliable /\ e.arg = "2xx"
        <3>1. ServerNonInvite(f, e) = Outcome(Moved(f, "Terminated", "2xx"),
                  <<Send("2xx"), Terminated>>)
            BY <1>2, <2>1 DEF ServerNonInvite, Moved, EmitFinal
        <3>2. /\ BatchOK(<<Send("2xx"), Terminated>>)
              /\ Contains(<<Send("2xx"), Terminated>>, Terminated)
              /\ \A g \in TimerIds : Contains(<<Send("2xx"), Terminated>>, Cancel(g)) => g \in {}
            BY Batch2, ActionFacts DEF Classes, TimerIds
        <3>3. /\ f.state # "Terminated" /\ "Terminated" \in KindStates(f.kind) /\ "2xx" \in Classes \cup {None, "ack"}
              /\ \A g \in TimerIds : CancelOK(f.state, g) => CancelOK("Terminated", g)
            BY <1>2, <2>1, MovedGoto DEF KindStates, CancelOK, Classes
        <3>4. /\ GuardianOf(f.kind, "Terminated") \in {None, GuardianOf(f.kind, f.state)}
              /\ \A g \in {} : CancelOK("Terminated", g)
            BY <1>2, <2>1 DEF GuardianOf, CancelOK
        <3> QED
            BY <3>1, <3>2, <3>3, <3>4, MoveStep
    <2>2. CASE f.reliable /\ e.arg = "err"
        <3>1. ServerNonInvite(f, e) = Outcome(Moved(f, "Terminated", "err"),
                  <<Send("err"), Terminated>>)
            BY <1>2, <2>2 DEF ServerNonInvite, Moved, EmitFinal
        <3>2. /\ BatchOK(<<Send("err"), Terminated>>)
              /\ Contains(<<Send("err"), Terminated>>, Terminated)
              /\ \A g \in TimerIds : Contains(<<Send("err"), Terminated>>, Cancel(g)) => g \in {}
            BY Batch2, ActionFacts DEF Classes, TimerIds
        <3>3. /\ f.state # "Terminated" /\ "Terminated" \in KindStates(f.kind) /\ "err" \in Classes \cup {None, "ack"}
              /\ \A g \in TimerIds : CancelOK(f.state, g) => CancelOK("Terminated", g)
            BY <1>2, <2>2, MovedGoto DEF KindStates, CancelOK, Classes
        <3>4. /\ GuardianOf(f.kind, "Terminated") \in {None, GuardianOf(f.kind, f.state)}
              /\ \A g \in {} : CancelOK("Terminated", g)
            BY <1>2, <2>2 DEF GuardianOf, CancelOK
        <3> QED
            BY <3>1, <3>2, <3>3, <3>4, MoveStep
    <2>3. CASE ~f.reliable /\ e.arg = "2xx"
        <3>1. ServerNonInvite(f, e) = Outcome(Moved(f, "Completed", "2xx"),
                  <<Send("2xx"), Arm("J")>>)
            BY <1>2, <2>3 DEF ServerNonInvite, Moved, EmitFinal
        <3>2. /\ BatchOK(<<Send("2xx"), Arm("J")>>)
              /\ ~Contains(<<Send("2xx"), Arm("J")>>, Terminated)
              /\ Contains(<<Send("2xx"), Arm("J")>>, Arm("J"))
              /\ \A g \in TimerIds : Contains(<<Send("2xx"), Arm("J")>>, Cancel(g)) => g \in {}
            BY Batch2, ActionFacts DEF Classes, TimerIds
        <3>3. /\ f.state # "Terminated" /\ "Completed" \in KindStates(f.kind) /\ "2xx" \in Classes \cup {None, "ack"}
              /\ \A g \in TimerIds : CancelOK(f.state, g) => CancelOK("Completed", g)
            BY <1>2, <2>3, MovedGoto DEF KindStates, CancelOK, Classes
        <3>4. /\ GuardianOf(f.kind, "Completed") \in {None, GuardianOf(f.kind, f.state), "J"}
              /\ \A g \in {} : CancelOK("Completed", g)
            BY <1>2, <2>3 DEF GuardianOf, CancelOK
        <3> QED
            BY <3>1, <3>2, <3>3, <3>4, MoveStep
    <2>4. CASE ~f.reliable /\ e.arg = "err"
        <3>1. ServerNonInvite(f, e) = Outcome(Moved(f, "Completed", "err"),
                  <<Send("err"), Arm("J")>>)
            BY <1>2, <2>4 DEF ServerNonInvite, Moved, EmitFinal
        <3>2. /\ BatchOK(<<Send("err"), Arm("J")>>)
              /\ ~Contains(<<Send("err"), Arm("J")>>, Terminated)
              /\ Contains(<<Send("err"), Arm("J")>>, Arm("J"))
              /\ \A g \in TimerIds : Contains(<<Send("err"), Arm("J")>>, Cancel(g)) => g \in {}
            BY Batch2, ActionFacts DEF Classes, TimerIds
        <3>3. /\ f.state # "Terminated" /\ "Completed" \in KindStates(f.kind) /\ "err" \in Classes \cup {None, "ack"}
              /\ \A g \in TimerIds : CancelOK(f.state, g) => CancelOK("Completed", g)
            BY <1>2, <2>4, MovedGoto DEF KindStates, CancelOK, Classes
        <3>4. /\ GuardianOf(f.kind, "Completed") \in {None, GuardianOf(f.kind, f.state), "J"}
              /\ \A g \in {} : CancelOK("Completed", g)
            BY <1>2, <2>4 DEF GuardianOf, CancelOK
        <3> QED
            BY <3>1, <3>2, <3>3, <3>4, MoveStep
    <2> QED
        BY <1>2, <2>1, <2>2, <2>3, <2>4 DEF GoodMachine, Machine
<1>3. CASE f.state \in {"Proceeding", "Completed"} /\ e.ev = "request"
    <2>1. ServerNonInvite(f, e) = ReplayCached(f)
        BY <1>3 DEF ServerNonInvite
    <2> QED
        BY <2>1, ReplayStep
<1>4. CASE f.state = "Completed" /\ e = TimerFired("J")
    <2>1. ServerNonInvite(f, e) = Outcome(Moved(f, "Terminated", f.cached),
              <<Terminated>>)
        BY <1>4, MovedGoto DEF ServerNonInvite, Moved
    <2>2. /\ BatchOK(<<Terminated>>)
          /\ Contains(<<Terminated>>, Terminated)
          /\ \A g \in TimerIds : Contains(<<Terminated>>, Cancel(g)) => g \in {}
        BY Batch1, ActionFacts DEF Classes, TimerIds
    <2>3. /\ f.state # "Terminated" /\ "Terminated" \in KindStates(f.kind) /\ f.cached \in Classes \cup {None, "ack"}
          /\ \A g \in TimerIds : CancelOK(f.state, g) => CancelOK("Terminated", g)
        BY <1>4, MovedGoto DEF KindStates, CancelOK, Classes
    <2>4. /\ GuardianOf(f.kind, "Terminated") \in {None, GuardianOf(f.kind, f.state)}
          /\ \A g \in {} : CancelOK("Terminated", g)
        BY <1>4 DEF GuardianOf, CancelOK
    <2> QED
        BY <2>1, <2>2, <2>3, <2>4, MoveStep
<1>5. CASE ServerNonInvite(f, e) = Absorb(f)
    BY <1>5, AbsorbStep
<1> QED
    BY <1>1, <1>2, <1>3, <1>4, <1>5
    DEF ServerNonInvite, GoodMachine, KindStates, Absorb

(* Every step of the server INVITE machine is good. *)
LEMMA ServerInviteStep ==
    ASSUME NEW f, GoodMachine(f), f.kind = "SI", NEW e
    PROVE  GoodStep(f, ServerInvite(f, e))
<1> USE DEF TuResponse, RequestRecv, TimerFired
<1>1. CASE f.state = "Proceeding" /\ e = TuResponse("1xx")
    <2>1. ServerInvite(f, e) = Outcome(Moved(f, "Proceeding", "1xx"),
              <<Send("1xx")>>)
        BY <1>1 DEF ServerInvite, Moved
    <2>2. /\ BatchOK(<<Send("1xx")>>)
          /\ ~Contains(<<Send("1xx")>>, Terminated)
          /\ \A g \in TimerIds : Contains(<<Send("1xx")>>, Cancel(g)) => g \in {}
        BY Batch1, ActionFacts DEF Classes, TimerIds
    <2>3. /\ f.state # "Terminated" /\ "Proceeding" \in KindStates(f.kind) /\ "1xx" \in Classes \cup {None, "ack"}
          /\ \A g \in TimerIds : CancelOK(f.state, g) => CancelOK("Proceeding", g)
        BY <1>1, MovedGoto DEF KindStates, CancelOK, Classes
    <2>4. /\ GuardianOf(f.kind, "Proceeding") \in {None, GuardianOf(f.kind, f.state)}
          /\ \A g \in {} : CancelOK("Proceeding", g)
        BY <1>1 DEF GuardianOf, CancelOK
    <2> QED
        BY <2>1, <2>2, <2>3, <2>4, MoveStep
<1>2. CASE f.state = "Proceeding" /\ e = TuResponse("2xx")
    <2>1. ServerInvite(f, e) = Outcome(Moved(f, "Terminated", f.cached),
              <<Send("2xx"), Terminated>>)
        BY <1>2, MovedGoto DEF ServerInvite, Moved
    <2>2. /\ BatchOK(<<Send("2xx"), Terminated>>)
          /\ Contains(<<Send("2xx"), Terminated>>, Terminated)
          /\ \A g \in TimerIds : Contains(<<Send("2xx"), Terminated>>, Cancel(g)) => g \in {}
        BY Batch2, ActionFacts DEF Classes, TimerIds
    <2>3. /\ f.state # "Terminated" /\ "Terminated" \in KindStates(f.kind) /\ f.cached \in Classes \cup {None, "ack"}
          /\ \A g \in TimerIds : CancelOK(f.state, g) => CancelOK("Terminated", g)
        BY <1>2, MovedGoto DEF KindStates, CancelOK, Classes
    <2>4. /\ GuardianOf(f.kind, "Terminated") \in {None, GuardianOf(f.kind, f.state)}
          /\ \A g \in {} : CancelOK("Terminated", g)
        BY <1>2 DEF GuardianOf, CancelOK
    <2> QED
        BY <2>1, <2>2, <2>3, <2>4, MoveStep
<1>3. CASE f.state = "Proceeding" /\ e = TuResponse("err")
    <2>1. CASE f.reliable
        <3>1. ServerInvite(f, e) = Outcome(Moved(f, "Completed", "err"),
                  <<Send("err"), Arm("H")>>)
            BY <1>3, <2>1 DEF ServerInvite, Moved, RejectInvite
        <3>2. /\ BatchOK(<<Send("err"), Arm("H")>>)
              /\ ~Contains(<<Send("err"), Arm("H")>>, Terminated)
              /\ Contains(<<Send("err"), Arm("H")>>, Arm("H"))
              /\ \A g \in TimerIds : Contains(<<Send("err"), Arm("H")>>, Cancel(g)) => g \in {}
            BY Batch2, ActionFacts DEF Classes, TimerIds
        <3>3. /\ f.state # "Terminated" /\ "Completed" \in KindStates(f.kind) /\ "err" \in Classes \cup {None, "ack"}
              /\ \A g \in TimerIds : CancelOK(f.state, g) => CancelOK("Completed", g)
            BY <1>3, <2>1, MovedGoto DEF KindStates, CancelOK, Classes
        <3>4. /\ GuardianOf(f.kind, "Completed") \in {None, GuardianOf(f.kind, f.state), "H"}
              /\ \A g \in {} : CancelOK("Completed", g)
            BY <1>3, <2>1 DEF GuardianOf, CancelOK
        <3> QED
            BY <3>1, <3>2, <3>3, <3>4, MoveStep
    <2>2. CASE ~f.reliable
        <3>1. ServerInvite(f, e) = Outcome(Moved(f, "Completed", "err"),
                  <<Send("err"), Arm("G"), Arm("H")>>)
            BY <1>3, <2>2 DEF ServerInvite, Moved, RejectInvite
        <3>2. /\ BatchOK(<<Send("err"), Arm("G"), Arm("H")>>)
              /\ ~Contains(<<Send("err"), Arm("G"), Arm("H")>>, Terminated)
              /\ Contains(<<Send("err"), Arm("G"), Arm("H")>>, Arm("G"))
              /\ Contains(<<Send("err"), Arm("G"), Arm("H")>>, Arm("H"))
              /\ \A g \in TimerIds : Contains(<<Send("err"), Arm("G"), Arm("H")>>, Cancel(g)) => g \in {}
            BY Batch3, ActionFacts DEF Classes, TimerIds
        <3>3. /\ f.state # "Terminated" /\ "Completed" \in KindStates(f.kind) /\ "err" \in Classes \cup {None, "ack"}
              /\ \A g \in TimerIds : CancelOK(f.state, g) => CancelOK("Completed", g)
            BY <1>3, <2>2, MovedGoto DEF KindStates, CancelOK, Classes
        <3>4. /\ GuardianOf(f.kind, "Completed") \in {None, GuardianOf(f.kind, f.state), "G", "H"}
              /\ \A g \in {} : CancelOK("Completed", g)
            BY <1>3, <2>2 DEF GuardianOf, CancelOK
        <3> QED
            BY <3>1, <3>2, <3>3, <3>4, MoveStep
    <2> QED
        BY <1>3, <2>1, <2>2 DEF GoodMachine, Machine
<1>4. CASE f.state \in {"Proceeding", "Completed"} /\ e = RequestRecv("req")
    <2>1. ServerInvite(f, e) = ReplayCached(f)
        BY <1>4 DEF ServerInvite
    <2> QED
        BY <2>1, ReplayStep
<1>5. CASE f.state = "Completed" /\ e = TimerFired("G") /\ f.cached # None
    <2>1. ServerInvite(f, e) = Outcome(f,
              <<Send(f.cached), Arm("G")>>)
        BY <1>5 DEF ServerInvite, Moved
    <2>2. /\ BatchOK(<<Send(f.cached), Arm("G")>>)
          /\ ~Contains(<<Send(f.cached), Arm("G")>>, Terminated)
          /\ Contains(<<Send(f.cached), Arm("G")>>, Arm("G"))
          /\ \A g \in TimerIds : Contains(<<Send(f.cached), Arm("G")>>, Cancel(g)) => g \in {}
        BY <1>5, GoodCached, Batch2, ActionFacts DEF Classes, TimerIds
    <2> QED
        BY <2>1, <2>2, StayStep
<1>6. CASE f.state = "Completed" /\ e = RequestRecv("ack")
    <2>1. CASE f.reliable
        <3>1. ServerInvite(f, e) = Outcome(Moved(f, "Terminated", f.cached),
                  <<Cancel("G"), Cancel("H"), Terminated>>)
            BY <1>6, <2>1, MovedGoto DEF ServerInvite, Moved, AckForNonOk
        <3>2. /\ BatchOK(<<Cancel("G"), Cancel("H"), Terminated>>)
              /\ Contains(<<Cancel("G"), Cancel("H"), Terminated>>, Terminated)
              /\ \A g \in TimerIds : Contains(<<Cancel("G"), Cancel("H"), Terminated>>, Cancel(g)) => g \in {"G", "H"}
            BY Batch3, ActionFacts DEF Classes, TimerIds
        <3>3. /\ f.state # "Terminated" /\ "Terminated" \in KindStates(f.kind) /\ f.cached \in Classes \cup {None, "ack"}
              /\ \A g \in TimerIds : CancelOK(f.state, g) => CancelOK("Terminated", g)
            BY <1>6, <2>1, MovedGoto DEF KindStates, CancelOK, Classes
        <3>4. /\ GuardianOf(f.kind, "Terminated") \in {None, GuardianOf(f.kind, f.state)}
              /\ \A g \in {"G", "H"} : CancelOK("Terminated", g)
            BY <1>6, <2>1 DEF GuardianOf, CancelOK
        <3> QED
            BY <3>1, <3>2, <3>3, <3>4, MoveStep
    <2>2. CASE ~f.reliable
        <3>1. ServerInvite(f, e) = Outcome(Moved(f, "Confirmed", f.cached),
                  <<Cancel("G"), Cancel("H"), Arm("I")>>)
            BY <1>6, <2>2, MovedGoto DEF ServerInvite, Moved, AckForNonOk
        <3>2. /\ BatchOK(<<Cancel("G"), Cancel("H"), Arm("I")>>)
              /\ ~Contains(<<Cancel("G"), Cancel("H"), Arm("I")>>, Terminated)
              /\ Contains(<<Cancel("G"), Cancel("H"), Arm("I")>>, Arm("I"))
              /\ \A g \in TimerIds : Contains(<<Cancel("G"), Cancel("H"), Arm("I")>>, Cancel(g)) => g \in {"G", "H"}
            BY Batch3, ActionFacts DEF Classes, TimerIds
        <3>3. /\ f.state # "Terminated" /\ "Confirmed" \in KindStates(f.kind) /\ f.cached \in Classes \cup {None, "ack"}
              /\ \A g \in TimerIds : CancelOK(f.state, g) => CancelOK("Confirmed", g)
            BY <1>6, <2>2, MovedGoto DEF KindStates, CancelOK, Classes
        <3>4. /\ GuardianOf(f.kind, "Confirmed") \in {None, GuardianOf(f.kind, f.state), "I"}
              /\ \A g \in {"G", "H"} : CancelOK("Confirmed", g)
            BY <1>6, <2>2 DEF GuardianOf, CancelOK
        <3> QED
            BY <3>1, <3>2, <3>3, <3>4, MoveStep
    <2> QED
        BY <1>6, <2>1, <2>2 DEF GoodMachine, Machine
<1>7. CASE f.state = "Completed" /\ e = TimerFired("H")
    <2>1. ServerInvite(f, e) = Outcome(Moved(f, "Terminated", f.cached),
              <<Cancel("G"), Terminated>>)
        BY <1>7, MovedGoto DEF ServerInvite, Moved
    <2>2. /\ BatchOK(<<Cancel("G"), Terminated>>)
          /\ Contains(<<Cancel("G"), Terminated>>, Terminated)
          /\ \A g \in TimerIds : Contains(<<Cancel("G"), Terminated>>, Cancel(g)) => g \in {"G"}
        BY Batch2, ActionFacts DEF Classes, TimerIds
    <2>3. /\ f.state # "Terminated" /\ "Terminated" \in KindStates(f.kind) /\ f.cached \in Classes \cup {None, "ack"}
          /\ \A g \in TimerIds : CancelOK(f.state, g) => CancelOK("Terminated", g)
        BY <1>7, MovedGoto DEF KindStates, CancelOK, Classes
    <2>4. /\ GuardianOf(f.kind, "Terminated") \in {None, GuardianOf(f.kind, f.state)}
          /\ \A g \in {"G"} : CancelOK("Terminated", g)
        BY <1>7 DEF GuardianOf, CancelOK
    <2> QED
        BY <2>1, <2>2, <2>3, <2>4, MoveStep
<1>8. CASE f.state = "Confirmed" /\ e = TimerFired("I")
    <2>1. ServerInvite(f, e) = Outcome(Moved(f, "Terminated", f.cached),
              <<Terminated>>)
        BY <1>8, MovedGoto DEF ServerInvite, Moved
    <2>2. /\ BatchOK(<<Terminated>>)
          /\ Contains(<<Terminated>>, Terminated)
          /\ \A g \in TimerIds : Contains(<<Terminated>>, Cancel(g)) => g \in {}
        BY Batch1, ActionFacts DEF Classes, TimerIds
    <2>3. /\ f.state # "Terminated" /\ "Terminated" \in KindStates(f.kind) /\ f.cached \in Classes \cup {None, "ack"}
          /\ \A g \in TimerIds : CancelOK(f.state, g) => CancelOK("Terminated", g)
        BY <1>8, MovedGoto DEF KindStates, CancelOK, Classes
    <2>4. /\ GuardianOf(f.kind, "Terminated") \in {None, GuardianOf(f.kind, f.state)}
          /\ \A g \in {} : CancelOK("Terminated", g)
        BY <1>8 DEF GuardianOf, CancelOK
    <2> QED
        BY <2>1, <2>2, <2>3, <2>4, MoveStep
<1>9. CASE ServerInvite(f, e) = Absorb(f)
    BY <1>9, AbsorbStep
<1> QED
    BY <1>1, <1>2, <1>3, <1>4, <1>5, <1>6, <1>7, <1>8, <1>9
    DEF ServerInvite, GoodMachine, KindStates, Absorb

(* Every step of the client non-INVITE machine is good. *)
LEMMA ClientNonInviteStep ==
    ASSUME NEW f, GoodMachine(f), f.kind = "CN", NEW e
    PROVE  GoodStep(f, ClientNonInvite(f, e))
<1> USE DEF StartClient, ResponseRecv, TimerFired, Finals, AwaitsFinal, TimesOut
<1>1. CASE f.state = "Trying" /\ e = StartClient
    <2>1. CASE f.reliable
        <3>1. ClientNonInvite(f, e) = Outcome(f,
                  <<Send("req"), Arm("F")>>)
            BY <1>1, <2>1 DEF ClientNonInvite, Moved
        <3>2. /\ BatchOK(<<Send("req"), Arm("F")>>)
              /\ ~Contains(<<Send("req"), Arm("F")>>, Terminated)
              /\ Contains(<<Send("req"), Arm("F")>>, Arm("F"))
              /\ \A g \in TimerIds : Contains(<<Send("req"), Arm("F")>>, Cancel(g)) => g \in {}
            BY Batch2, ActionFacts DEF Classes, TimerIds
        <3> QED
            BY <3>1, <3>2, StayStep
    <2>2. CASE ~f.reliable
        <3>1. ClientNonInvite(f, e) = Outcome(f,
                  <<Send("req"), Arm("E"), Arm("F")>>)
            BY <1>1, <2>2 DEF ClientNonInvite, Moved
        <3>2. /\ BatchOK(<<Send("req"), Arm("E"), Arm("F")>>)
              /\ ~Contains(<<Send("req"), Arm("E"), Arm("F")>>, Terminated)
              /\ Contains(<<Send("req"), Arm("E"), Arm("F")>>, Arm("E"))
              /\ Contains(<<Send("req"), Arm("E"), Arm("F")>>, Arm("F"))
              /\ \A g \in TimerIds : Contains(<<Send("req"), Arm("E"), Arm("F")>>, Cancel(g)) => g \in {}
            BY Batch3, ActionFacts DEF Classes, TimerIds
        <3> QED
            BY <3>1, <3>2, StayStep
    <2> QED
        BY <1>1, <2>1, <2>2 DEF GoodMachine, Machine
<1>2. CASE f.state \in {"Trying", "Proceeding"} /\ e = TimerFired("E")
    <2>1. ClientNonInvite(f, e) = Outcome(f,
              <<Send("req"), Arm("E")>>)
        BY <1>2 DEF ClientNonInvite, Moved
    <2>2. /\ BatchOK(<<Send("req"), Arm("E")>>)
          /\ ~Contains(<<Send("req"), Arm("E")>>, Terminated)
          /\ Contains(<<Send("req"), Arm("E")>>, Arm("E"))
          /\ \A g \in TimerIds : Contains(<<Send("req"), Arm("E")>>, Cancel(g)) => g \in {}
        BY Batch2, ActionFacts DEF Classes, TimerIds
    <2> QED
        BY <2>1, <2>2, StayStep
<1>3. CASE f.state = "Trying" /\ e = ResponseRecv("1xx")
    <2>1. CASE f.reliable
        <3>1. ClientNonInvite(f, e) = Outcome(Moved(f, "Proceeding", f.cached),
                  <<Deliver("1xx")>>)
            BY <1>3, <2>1, MovedGoto DEF ClientNonInvite, Moved
        <3>2. /\ BatchOK(<<Deliver("1xx")>>)
              /\ ~Contains(<<Deliver("1xx")>>, Terminated)
              /\ \A g \in TimerIds : Contains(<<Deliver("1xx")>>, Cancel(g)) => g \in {}
            BY Batch1, ActionFacts DEF Classes, TimerIds
        <3>3. /\ f.state # "Terminated" /\ "Proceeding" \in KindStates(f.kind) /\ f.cached \in Classes \cup {None, "ack"}
              /\ \A g \in TimerIds : CancelOK(f.state, g) => CancelOK("Proceeding", g)
            BY <1>3, <2>1, MovedGoto DEF KindStates, CancelOK, Classes
        <3>4. /\ GuardianOf(f.kind, "Proceeding") \in {None, GuardianOf(f.kind, f.state)}
              /\ \A g \in {} : CancelOK("Proceeding", g)
            BY <1>3, <2>1 DEF GuardianOf, CancelOK
        <3> QED
            BY <3>1, <3>2, <3>3, <3>4, MoveStep
    <2>2. CASE ~f.reliable
        <3>1. ClientNonInvite(f, e) = Outcome(Moved(f, "Proceeding", f.cached),
                  <<Deliver("1xx"), Arm("E")>>)
            BY <1>3, <2>2, MovedGoto DEF ClientNonInvite, Moved
        <3>2. /\ BatchOK(<<Deliver("1xx"), Arm("E")>>)
              /\ ~Contains(<<Deliver("1xx"), Arm("E")>>, Terminated)
              /\ Contains(<<Deliver("1xx"), Arm("E")>>, Arm("E"))
              /\ \A g \in TimerIds : Contains(<<Deliver("1xx"), Arm("E")>>, Cancel(g)) => g \in {}
            BY Batch2, ActionFacts DEF Classes, TimerIds
        <3>3. /\ f.state # "Terminated" /\ "Proceeding" \in KindStates(f.kind) /\ f.cached \in Classes \cup {None, "ack"}
              /\ \A g \in TimerIds : CancelOK(f.state, g) => CancelOK("Proceeding", g)
            BY <1>3, <2>2, MovedGoto DEF KindStates, CancelOK, Classes
        <3>4. /\ GuardianOf(f.kind, "Proceeding") \in {None, GuardianOf(f.kind, f.state), "E"}
              /\ \A g \in {} : CancelOK("Proceeding", g)
            BY <1>3, <2>2 DEF GuardianOf, CancelOK
        <3> QED
            BY <3>1, <3>2, <3>3, <3>4, MoveStep
    <2> QED
        BY <1>3, <2>1, <2>2 DEF GoodMachine, Machine
<1>4. CASE f.state = "Proceeding" /\ e = ResponseRecv("1xx")
    <2>1. ClientNonInvite(f, e) = Outcome(f,
              <<Deliver("1xx")>>)
        BY <1>4 DEF ClientNonInvite, Moved
    <2>2. /\ BatchOK(<<Deliver("1xx")>>)
          /\ ~Contains(<<Deliver("1xx")>>, Terminated)
          /\ \A g \in TimerIds : Contains(<<Deliver("1xx")>>, Cancel(g)) => g \in {}
        BY Batch1, ActionFacts DEF Classes, TimerIds
    <2> QED
        BY <2>1, <2>2, StayStep
<1>5. CASE f.state \in {"Trying", "Proceeding"} /\ e.ev = "response" /\ e.arg \in Finals
    <2>1. CASE f.reliable /\ e.arg = "2xx"
        <3>1. e # StartClient /\ e # ResponseRecv("1xx") /\ e # TimerFired("E") /\ e # TimerFired("F") /\ e # TimerFired("K")
            BY <1>5, <2>1
        <3>2. ClientNonInvite(f, e) = Outcome(Moved(f, "Terminated", f.cached),
                  <<Deliver("2xx"), Cancel("E"), Cancel("F"), Terminated>>)
            BY <1>5, <2>1, <3>1, MovedGoto DEF ClientNonInvite, Moved, EnterCompleted
        <3>3. /\ BatchOK(<<Deliver("2xx"), Cancel("E"), Cancel("F"), Terminated>>)
              /\ Contains(<<Deliver("2xx"), Cancel("E"), Cancel("F"), Terminated>>, Terminated)
              /\ \A g \in TimerIds : Contains(<<Deliver("2xx"), Cancel("E"), Cancel("F"), Terminated>>, Cancel(g)) => g \in {"E", "F"}
            BY Batch4, ActionFacts, SMTT(30) DEF Classes, TimerIds
        <3>4. /\ f.state # "Terminated" /\ "Terminated" \in KindStates(f.kind) /\ f.cached \in Classes \cup {None, "ack"}
              /\ \A g \in TimerIds : CancelOK(f.state, g) => CancelOK("Terminated", g)
            BY <1>5, <2>1, MovedGoto DEF KindStates, CancelOK, Classes
        <3>5. /\ GuardianOf(f.kind, "Terminated") \in {None, GuardianOf(f.kind, f.state)}
              /\ \A g \in {"E", "F"} : CancelOK("Terminated", g)
            BY <1>5, <2>1 DEF GuardianOf, CancelOK
        <3> QED
            BY <3>2, <3>3, <3>4, <3>5, MoveStep
    <2>2. CASE f.reliable /\ e.arg = "err"
        <3>1. e # StartClient /\ e # ResponseRecv("1xx") /\ e # TimerFired("E") /\ e # TimerFired("F") /\ e # TimerFired("K")
            BY <1>5, <2>2
        <3>2. ClientNonInvite(f, e) = Outcome(Moved(f, "Terminated", f.cached),
                  <<Deliver("err"), Cancel("E"), Cancel("F"), Terminated>>)
            BY <1>5, <2>2, <3>1, MovedGoto DEF ClientNonInvite, Moved, EnterCompleted
        <3>3. /\ BatchOK(<<Deliver("err"), Cancel("E"), Cancel("F"), Terminated>>)
              /\ Contains(<<Deliver("err"), Cancel("E"), Cancel("F"), Terminated>>, Terminated)
              /\ \A g \in TimerIds : Contains(<<Deliver("err"), Cancel("E"), Cancel("F"), Terminated>>, Cancel(g)) => g \in {"E", "F"}
            BY Batch4, ActionFacts, SMTT(30) DEF Classes, TimerIds
        <3>4. /\ f.state # "Terminated" /\ "Terminated" \in KindStates(f.kind) /\ f.cached \in Classes \cup {None, "ack"}
              /\ \A g \in TimerIds : CancelOK(f.state, g) => CancelOK("Terminated", g)
            BY <1>5, <2>2, MovedGoto DEF KindStates, CancelOK, Classes
        <3>5. /\ GuardianOf(f.kind, "Terminated") \in {None, GuardianOf(f.kind, f.state)}
              /\ \A g \in {"E", "F"} : CancelOK("Terminated", g)
            BY <1>5, <2>2 DEF GuardianOf, CancelOK
        <3> QED
            BY <3>2, <3>3, <3>4, <3>5, MoveStep
    <2>3. CASE ~f.reliable /\ e.arg = "2xx"
        <3>1. e # StartClient /\ e # ResponseRecv("1xx") /\ e # TimerFired("E") /\ e # TimerFired("F") /\ e # TimerFired("K")
            BY <1>5, <2>3
        <3>2. ClientNonInvite(f, e) = Outcome(Moved(f, "Completed", f.cached),
                  <<Deliver("2xx"), Cancel("E"), Cancel("F"), Arm("K")>>)
            BY <1>5, <2>3, <3>1, MovedGoto DEF ClientNonInvite, Moved, EnterCompleted
        <3>3. /\ BatchOK(<<Deliver("2xx"), Cancel("E"), Cancel("F"), Arm("K")>>)
              /\ ~Contains(<<Deliver("2xx"), Cancel("E"), Cancel("F"), Arm("K")>>, Terminated)
              /\ Contains(<<Deliver("2xx"), Cancel("E"), Cancel("F"), Arm("K")>>, Arm("K"))
              /\ \A g \in TimerIds : Contains(<<Deliver("2xx"), Cancel("E"), Cancel("F"), Arm("K")>>, Cancel(g)) => g \in {"E", "F"}
            BY Batch4, ActionFacts, SMTT(30) DEF Classes, TimerIds
        <3>4. /\ f.state # "Terminated" /\ "Completed" \in KindStates(f.kind) /\ f.cached \in Classes \cup {None, "ack"}
              /\ \A g \in TimerIds : CancelOK(f.state, g) => CancelOK("Completed", g)
            BY <1>5, <2>3, MovedGoto DEF KindStates, CancelOK, Classes
        <3>5. /\ GuardianOf(f.kind, "Completed") \in {None, GuardianOf(f.kind, f.state), "K"}
              /\ \A g \in {"E", "F"} : CancelOK("Completed", g)
            BY <1>5, <2>3 DEF GuardianOf, CancelOK
        <3> QED
            BY <3>2, <3>3, <3>4, <3>5, MoveStep
    <2>4. CASE ~f.reliable /\ e.arg = "err"
        <3>1. e # StartClient /\ e # ResponseRecv("1xx") /\ e # TimerFired("E") /\ e # TimerFired("F") /\ e # TimerFired("K")
            BY <1>5, <2>4
        <3>2. ClientNonInvite(f, e) = Outcome(Moved(f, "Completed", f.cached),
                  <<Deliver("err"), Cancel("E"), Cancel("F"), Arm("K")>>)
            BY <1>5, <2>4, <3>1, MovedGoto DEF ClientNonInvite, Moved, EnterCompleted
        <3>3. /\ BatchOK(<<Deliver("err"), Cancel("E"), Cancel("F"), Arm("K")>>)
              /\ ~Contains(<<Deliver("err"), Cancel("E"), Cancel("F"), Arm("K")>>, Terminated)
              /\ Contains(<<Deliver("err"), Cancel("E"), Cancel("F"), Arm("K")>>, Arm("K"))
              /\ \A g \in TimerIds : Contains(<<Deliver("err"), Cancel("E"), Cancel("F"), Arm("K")>>, Cancel(g)) => g \in {"E", "F"}
            BY Batch4, ActionFacts, SMTT(30) DEF Classes, TimerIds
        <3>4. /\ f.state # "Terminated" /\ "Completed" \in KindStates(f.kind) /\ f.cached \in Classes \cup {None, "ack"}
              /\ \A g \in TimerIds : CancelOK(f.state, g) => CancelOK("Completed", g)
            BY <1>5, <2>4, MovedGoto DEF KindStates, CancelOK, Classes
        <3>5. /\ GuardianOf(f.kind, "Completed") \in {None, GuardianOf(f.kind, f.state), "K"}
              /\ \A g \in {"E", "F"} : CancelOK("Completed", g)
            BY <1>5, <2>4 DEF GuardianOf, CancelOK
        <3> QED
            BY <3>2, <3>3, <3>4, <3>5, MoveStep
    <2> QED
        BY <1>5, <2>1, <2>2, <2>3, <2>4 DEF GoodMachine, Machine
<1>6. CASE f.state \in {"Trying", "Proceeding"} /\ e = TimerFired("F")
    <2>1. ClientNonInvite(f, e) = Outcome(Moved(f, "Terminated", f.cached),
              <<Cancel("E"), Terminated>>)
        BY <1>6, MovedGoto DEF ClientNonInvite, Moved
    <2>2. /\ BatchOK(<<Cancel("E"), Terminated>>)
          /\ Contains(<<Cancel("E"), Terminated>>, Terminated)
          /\ \A g \in TimerIds : Contains(<<Cancel("E"), Terminated>>, Cancel(g)) => g \in {"E"}
        BY Batch2, ActionFacts DEF Classes, TimerIds
    <2>3. /\ f.state # "Terminated" /\ "Terminated" \in KindStates(f.kind) /\ f.cached \in Classes \cup {None, "ack"}
          /\ \A g \in TimerIds : CancelOK(f.state, g) => CancelOK("Terminated", g)
        BY <1>6, MovedGoto DEF KindStates, CancelOK, Classes
    <2>4. /\ GuardianOf(f.kind, "Terminated") \in {None, GuardianOf(f.kind, f.state)}
          /\ \A g \in {"E"} : CancelOK("Terminated", g)
        BY <1>6 DEF GuardianOf, CancelOK
    <2> QED
        BY <2>1, <2>2, <2>3, <2>4, MoveStep
<1>7. CASE f.state = "Completed" /\ e = TimerFired("K")
    <2>1. ClientNonInvite(f, e) = Outcome(Moved(f, "Terminated", f.cached),
              <<Terminated>>)
        BY <1>7, MovedGoto DEF ClientNonInvite, Moved
    <2>2. /\ BatchOK(<<Terminated>>)
          /\ Contains(<<Terminated>>, Terminated)
          /\ \A g \in TimerIds : Contains(<<Terminated>>, Cancel(g)) => g \in {}
        BY Batch1, ActionFacts DEF Classes, TimerIds
    <2>3. /\ f.state # "Terminated" /\ "Terminated" \in KindStates(f.kind) /\ f.cached \in Classes \cup {None, "ack"}
          /\ \A g \in TimerIds : CancelOK(f.state, g) => CancelOK("Terminated", g)
        BY <1>7, MovedGoto DEF KindStates, CancelOK, Classes
    <2>4. /\ GuardianOf(f.kind, "Terminated") \in {None, GuardianOf(f.kind, f.state)}
          /\ \A g \in {} : CancelOK("Terminated", g)
        BY <1>7 DEF GuardianOf, CancelOK
    <2> QED
        BY <2>1, <2>2, <2>3, <2>4, MoveStep
<1>8. CASE ClientNonInvite(f, e) = Absorb(f)
    BY <1>8, AbsorbStep
<1> QED
    BY <1>1, <1>2, <1>3, <1>4, <1>5, <1>6, <1>7, <1>8
    DEF ClientNonInvite, GoodMachine, KindStates, Absorb

(* Every step of the client INVITE machine is good. *)
LEMMA ClientInviteStep ==
    ASSUME NEW f, GoodMachine(f), f.kind = "CI", NEW e, NEW ackOk \in BOOLEAN
    PROVE  GoodStep(f, ClientInvite(f, e, ackOk))
<1> USE DEF StartClient, ResponseRecv, TimerFired, AwaitsFinal, TimesOut
<1>1. CASE f.state = "Calling" /\ e = StartClient
    <2>1. CASE f.reliable
        <3>1. ClientInvite(f, e, ackOk) = Outcome(f,
                  <<Send("req"), Arm("B")>>)
            BY <1>1, <2>1 DEF ClientInvite, Moved
        <3>2. /\ BatchOK(<<Send("req"), Arm("B")>>)
              /\ ~Contains(<<Send("req"), Arm("B")>>, Terminated)
              /\ Contains(<<Send("req"), Arm("B")>>, Arm("B"))
              /\ \A g \in TimerIds : Contains(<<Send("req"), Arm("B")>>, Cancel(g)) => g \in {}
            BY Batch2, ActionFacts DEF Classes, TimerIds
        <3> QED
            BY <3>1, <3>2, StayStep
    <2>2. CASE ~f.reliable
        <3>1. ClientInvite(f, e, ackOk) = Outcome(f,
                  <<Send("req"), Arm("A"), Arm("B")>>)
            BY <1>1, <2>2 DEF ClientInvite, Moved
        <3>2. /\ BatchOK(<<Send("req"), Arm("A"), Arm("B")>>)
              /\ ~Contains(<<Send("req"), Arm("A"), Arm("B")>>, Terminated)
              /\ Contains(<<Send("req"), Arm("A"), Arm("B")>>, Arm("A"))
              /\ Contains(<<Send("req"), Arm("A"), Arm("B")>>, Arm("B"))
              /\ \A g \in TimerIds : Contains(<<Send("req"), Arm("A"), Arm("B")>>, Cancel(g)) => g \in {}
            BY Batch3, ActionFacts DEF Classes, TimerIds
        <3> QED
            BY <3>1, <3>2, StayStep
    <2> QED
        BY <1>1, <2>1, <2>2 DEF GoodMachine, Machine
<1>2. CASE f.state = "Calling" /\ e = TimerFired("A")
    <2>1. ClientInvite(f, e, ackOk) = Outcome(f,
              <<Send("req"), Arm("A")>>)
        BY <1>2 DEF ClientInvite, Moved
    <2>2. /\ BatchOK(<<Send("req"), Arm("A")>>)
          /\ ~Contains(<<Send("req"), Arm("A")>>, Terminated)
          /\ Contains(<<Send("req"), Arm("A")>>, Arm("A"))
          /\ \A g \in TimerIds : Contains(<<Send("req"), Arm("A")>>, Cancel(g)) => g \in {}
        BY Batch2, ActionFacts DEF Classes, TimerIds
    <2> QED
        BY <2>1, <2>2, StayStep
<1>3. CASE f.state = "Calling" /\ e = ResponseRecv("1xx")
    <2>1. ClientInvite(f, e, ackOk) = Outcome(Moved(f, "Proceeding", f.cached),
              <<Cancel("A"), Deliver("1xx")>>)
        BY <1>3, MovedGoto DEF ClientInvite, Moved
    <2>2. /\ BatchOK(<<Cancel("A"), Deliver("1xx")>>)
          /\ ~Contains(<<Cancel("A"), Deliver("1xx")>>, Terminated)
          /\ \A g \in TimerIds : Contains(<<Cancel("A"), Deliver("1xx")>>, Cancel(g)) => g \in {"A"}
        BY Batch2, ActionFacts DEF Classes, TimerIds
    <2>3. /\ f.state # "Terminated" /\ "Proceeding" \in KindStates(f.kind) /\ f.cached \in Classes \cup {None, "ack"}
          /\ \A g \in TimerIds : CancelOK(f.state, g) => CancelOK("Proceeding", g)
        BY <1>3, MovedGoto DEF KindStates, CancelOK, Classes
    <2>4. /\ GuardianOf(f.kind, "Proceeding") \in {None, GuardianOf(f.kind, f.state)}
          /\ \A g \in {"A"} : CancelOK("Proceeding", g)
        BY <1>3 DEF GuardianOf, CancelOK
    <2> QED
        BY <2>1, <2>2, <2>3, <2>4, MoveStep
<1>4. CASE f.state = "Proceeding" /\ e = ResponseRecv("1xx")
    <2>1. ClientInvite(f, e, ackOk) = Outcome(f,
              <<Deliver("1xx")>>)
        BY <1>4 DEF ClientInvite, Moved
    <2>2. /\ BatchOK(<<Deliver("1xx")>>)
          /\ ~Contains(<<Deliver("1xx")>>, Terminated)
          /\ \A g \in TimerIds : Contains(<<Deliver("1xx")>>, Cancel(g)) => g \in {}
        BY Batch1, ActionFacts DEF Classes, TimerIds
    <2> QED
        BY <2>1, <2>2, StayStep
<1>5. CASE f.state \in {"Calling", "Proceeding"} /\ e = ResponseRecv("2xx")
    <2>1. ClientInvite(f, e, ackOk) = Outcome(Moved(f, "Terminated", f.cached),
              <<Deliver("2xx"), Cancel("A"), Cancel("B"), Terminated>>)
        BY <1>5, MovedGoto DEF ClientInvite, Moved, EnterTerminatedOn2xx
    <2>2. /\ BatchOK(<<Deliver("2xx"), Cancel("A"), Cancel("B"), Terminated>>)
          /\ Contains(<<Deliver("2xx"), Cancel("A"), Cancel("B"), Terminated>>, Terminated)
          /\ \A g \in TimerIds : Contains(<<Deliver("2xx"), Cancel("A"), Cancel("B"), Terminated>>, Cancel(g)) => g \in {"A", "B"}
        BY Batch4, ActionFacts, SMTT(30) DEF Classes, TimerIds
    <2>3. /\ f.state # "Terminated" /\ "Terminated" \in KindStates(f.kind) /\ f.cached \in Classes \cup {None, "ack"}
          /\ \A g \in TimerIds : CancelOK(f.state, g) => CancelOK("Terminated", g)
        BY <1>5, MovedGoto DEF KindStates, CancelOK, Classes
    <2>4. /\ GuardianOf(f.kind, "Terminated") \in {None, GuardianOf(f.kind, f.state)}
          /\ \A g \in {"A", "B"} : CancelOK("Terminated", g)
        BY <1>5 DEF GuardianOf, CancelOK
    <2> QED
        BY <2>1, <2>2, <2>3, <2>4, MoveStep
<1>6. CASE f.state \in {"Calling", "Proceeding"} /\ e = ResponseRecv("err")
    <2>1. CASE f.reliable /\ ackOk
        <3>1. ClientInvite(f, e, ackOk) = Outcome(Moved(f, "Terminated", "ack"),
                  <<Deliver("err"), Cancel("A"), Cancel("B"), Send("ack"), Terminated>>)
            BY <1>6, <2>1 DEF ClientInvite, Moved, EnterCompletedNonOk
        <3>2. /\ BatchOK(<<Deliver("err"), Cancel("A"), Cancel("B"), Send("ack"), Terminated>>)
              /\ \A x : Contains(<<Deliver("err"), Cancel("A"), Cancel("B"), Send("ack"), Terminated>>, x) <=> x \in {Deliver("err"), Cancel("A"), Cancel("B"), Send("ack"), Terminated}
            BY Batch5, ActionFacts DEF Classes, TimerIds
        <3>3. /\ BatchOK(<<Deliver("err"), Cancel("A"), Cancel("B"), Send("ack"), Terminated>>)
              /\ Contains(<<Deliver("err"), Cancel("A"), Cancel("B"), Send("ack"), Terminated>>, Terminated)
              /\ \A g \in TimerIds : Contains(<<Deliver("err"), Cancel("A"), Cancel("B"), Send("ack"), Terminated>>, Cancel(g)) => g \in {"A", "B"}
            BY <3>2, ActionFacts DEF Classes, TimerIds
        <3>4. /\ f.state # "Terminated" /\ "Terminated" \in KindStates(f.kind) /\ "ack" \in Classes \cup {None, "ack"}
              /\ \A g \in TimerIds : CancelOK(f.state, g) => CancelOK("Terminated", g)
            BY <1>6, <2>1, MovedGoto DEF KindStates, CancelOK, Classes
        <3>5. /\ GuardianOf(f.kind, "Terminated") \in {None, GuardianOf(f.kind, f.state)}
              /\ \A g \in {"A", "B"} : CancelOK("Terminated", g)
            BY <1>6, <2>1 DEF GuardianOf, CancelOK
        <3> QED
            BY <3>1, <3>3, <3>4, <3>5, MoveStep
    <2>2. CASE f.reliable /\ ~ackOk
        <3>1. ClientInvite(f, e, ackOk) = Outcome(Moved(f, "Terminated", None),
                  <<Deliver("err"), Cancel("A"), Cancel("B"), Terminated>>)
            BY <1>6, <2>2 DEF ClientInvite, Moved, EnterCompletedNonOk
        <3>2. /\ BatchOK(<<Deliver("err"), Cancel("A"), Cancel("B"), Terminated>>)
              /\ Contains(<<Deliver("err"), Cancel("A"), Cancel("B"), Terminated>>, Terminated)
              /\ \A g \in TimerIds : Contains(<<Deliver("err"), Cancel("A"), Cancel("B"), Terminated>>, Cancel(g)) => g \in {"A", "B"}
            BY Batch4, ActionFacts, SMTT(30) DEF Classes, TimerIds
        <3>3. /\ f.state # "Terminated" /\ "Terminated" \in KindStates(f.kind) /\ None \in Classes \cup {None, "ack"}
              /\ \A g \in TimerIds : CancelOK(f.state, g) => CancelOK("Terminated", g)
            BY <1>6, <2>2, MovedGoto DEF KindStates, CancelOK, Classes
        <3>4. /\ GuardianOf(f.kind, "Terminated") \in {None, GuardianOf(f.kind, f.state)}
              /\ \A g \in {"A", "B"} : CancelOK("Terminated", g)
            BY <1>6, <2>2 DEF GuardianOf, CancelOK
        <3> QED
            BY <3>1, <3>2, <3>3, <3>4, MoveStep
    <2>3. CASE ~f.reliable /\ ackOk
        <3>1. ClientInvite(f, e, ackOk) = Outcome(Moved(f, "Completed", "ack"),
                  <<Deliver("err"), Cancel("A"), Cancel("B"), Send("ack"), Arm("D")>>)
            BY <1>6, <2>3 DEF ClientInvite, Moved, EnterCompletedNonOk
        <3>2. /\ BatchOK(<<Deliver("err"), Cancel("A"), Cancel("B"), Send("ack"), Arm("D")>>)
              /\ \A x : Contains(<<Deliver("err"), Cancel("A"), Cancel("B"), Send("ack"), Arm("D")>>, x) <=> x \in {Deliver("err"), Cancel("A"), Cancel("B"), Send("ack"), Arm("D")}
            BY Batch5, ActionFacts DEF Classes, TimerIds
        <3>3. /\ BatchOK(<<Deliver("err"), Cancel("A"), Cancel("B"), Send("ack"), Arm("D")>>)
              /\ ~Contains(<<Deliver("err"), Cancel("A"), Cancel("B"), Send("ack"), Arm("D")>>, Terminated)
              /\ Contains(<<Deliver("err"), Cancel("A"), Cancel("B"), Send("ack"), Arm("D")>>, Arm("D"))
              /\ \A g \in TimerIds : Contains(<<Deliver("err"), Cancel("A"), Cancel("B"), Send("ack"), Arm("D")>>, Cancel(g)) => g \in {"A", "B"}
            BY <3>2, ActionFacts DEF Classes, TimerIds
        <3>4. /\ f.state # "Terminated" /\ "Completed" \in KindStates(f.kind) /\ "ack" \in Classes \cup {None, "ack"}
              /\ \A g \in TimerIds : CancelOK(f.state, g) => CancelOK("Completed", g)
            BY <1>6, <2>3, MovedGoto DEF KindStates, CancelOK, Classes
        <3>5. /\ GuardianOf(f.kind, "Completed") \in {None, GuardianOf(f.kind, f.state), "D"}
              /\ \A g \in {"A", "B"} : CancelOK("Completed", g)
            BY <1>6, <2>3 DEF GuardianOf, CancelOK
        <3> QED
            BY <3>1, <3>3, <3>4, <3>5, MoveStep
    <2>4. CASE ~f.reliable /\ ~ackOk
        <3>1. ClientInvite(f, e, ackOk) = Outcome(Moved(f, "Completed", None),
                  <<Deliver("err"), Cancel("A"), Cancel("B"), Arm("D")>>)
            BY <1>6, <2>4 DEF ClientInvite, Moved, EnterCompletedNonOk
        <3>2. /\ BatchOK(<<Deliver("err"), Cancel("A"), Cancel("B"), Arm("D")>>)
              /\ ~Contains(<<Deliver("err"), Cancel("A"), Cancel("B"), Arm("D")>>, Terminated)
              /\ Contains(<<Deliver("err"), Cancel("A"), Cancel("B"), Arm("D")>>, Arm("D"))
              /\ \A g \in TimerIds : Contains(<<Deliver("err"), Cancel("A"), Cancel("B"), Arm("D")>>, Cancel(g)) => g \in {"A", "B"}
            BY Batch4, ActionFacts, SMTT(30) DEF Classes, TimerIds
        <3>3. /\ f.state # "Terminated" /\ "Completed" \in KindStates(f.kind) /\ None \in Classes \cup {None, "ack"}
              /\ \A g \in TimerIds : CancelOK(f.state, g) => CancelOK("Completed", g)
            BY <1>6, <2>4, MovedGoto DEF KindStates, CancelOK, Classes
        <3>4. /\ GuardianOf(f.kind, "Completed") \in {None, GuardianOf(f.kind, f.state), "D"}
              /\ \A g \in {"A", "B"} : CancelOK("Completed", g)
            BY <1>6, <2>4 DEF GuardianOf, CancelOK
        <3> QED
            BY <3>1, <3>2, <3>3, <3>4, MoveStep
    <2> QED
        BY <1>6, <2>1, <2>2, <2>3, <2>4 DEF GoodMachine, Machine
<1>7. CASE f.state \in {"Calling", "Proceeding"} /\ e = TimerFired("B")
    <2>1. ClientInvite(f, e, ackOk) = Outcome(Moved(f, "Terminated", f.cached),
              <<Cancel("A"), Terminated>>)
        BY <1>7, MovedGoto DEF ClientInvite, Moved
    <2>2. /\ BatchOK(<<Cancel("A"), Terminated>>)
          /\ Contains(<<Cancel("A"), Terminated>>, Terminated)
          /\ \A g \in TimerIds : Contains(<<Cancel("A"), Terminated>>, Cancel(g)) => g \in {"A"}
        BY Batch2, ActionFacts DEF Classes, TimerIds
    <2>3. /\ f.state # "Terminated" /\ "Terminated" \in KindStates(f.kind) /\ f.cached \in Classes \cup {None, "ack"}
          /\ \A g \in TimerIds : CancelOK(f.state, g) => CancelOK("Terminated", g)
        BY <1>7, MovedGoto DEF KindStates, CancelOK, Classes
    <2>4. /\ GuardianOf(f.kind, "Terminated") \in {None, GuardianOf(f.kind, f.state)}
          /\ \A g \in {"A"} : CancelOK("Terminated", g)
        BY <1>7 DEF GuardianOf, CancelOK
    <2> QED
        BY <2>1, <2>2, <2>3, <2>4, MoveStep
<1>8. CASE f.state = "Completed" /\ e = ResponseRecv("err")
    <2>1. ClientInvite(f, e, ackOk) = ReplayCached(f)
        BY <1>8 DEF ClientInvite
    <2> QED
        BY <2>1, ReplayStep
<1>9. CASE f.state = "Completed" /\ e = TimerFired("D")
    <2>1. ClientInvite(f, e, ackOk) = Outcome(Moved(f, "Terminated", f.cached),
              <<Terminated>>)
        BY <1>9, MovedGoto DEF ClientInvite, Moved
    <2>2. /\ BatchOK(<<Terminated>>)
          /\ Contains(<<Terminated>>, Terminated)
          /\ \A g \in TimerIds : Contains(<<Terminated>>, Cancel(g)) => g \in {}
        BY Batch1, ActionFacts DEF Classes, TimerIds
    <2>3. /\ f.state # "Terminated" /\ "Terminated" \in KindStates(f.kind) /\ f.cached \in Classes \cup {None, "ack"}
          /\ \A g \in TimerIds : CancelOK(f.state, g) => CancelOK("Terminated", g)
        BY <1>9, MovedGoto DEF KindStates, CancelOK, Classes
    <2>4. /\ GuardianOf(f.kind, "Terminated") \in {None, GuardianOf(f.kind, f.state)}
          /\ \A g \in {} : CancelOK("Terminated", g)
        BY <1>9 DEF GuardianOf, CancelOK
    <2> QED
        BY <2>1, <2>2, <2>3, <2>4, MoveStep
<1>10. CASE ClientInvite(f, e, ackOk) = Absorb(f)
    BY <1>10, AbsorbStep
<1> QED
    BY <1>1, <1>2, <1>3, <1>4, <1>5, <1>6, <1>7, <1>8, <1>9, <1>10
    DEF ClientInvite, GoodMachine, KindStates, Absorb

-----------------------------------------------------------------------------
(* Every step of every machine is good. *)
LEMMA OnEventStep ==
    ASSUME NEW f, GoodMachine(f), NEW e, NEW ackOk \in BOOLEAN
    PROVE  GoodStep(f, OnEvent(f, e, ackOk))
<1>1. f.kind \in {"CI", "CN", "SI", "SN"}
    BY DEF GoodMachine, Machine, Kinds, ClientKinds, ServerKinds
<1> QED
    BY <1>1, ClientInviteStep, ClientNonInviteStep, ServerInviteStep, ServerNonInviteStep DEF OnEvent

(* The timer that guards a state ends the machine when it fires in it. *)
LEMMA GuardianEnds ==
    ASSUME NEW f, GoodMachine(f), Guardian(f) # None, NEW ackOk \in BOOLEAN
    PROVE  OnEvent(f, TimerFired(Guardian(f)), ackOk).fsm.state = "Terminated"
<1> USE DEF Guardian, GuardianOf, TimerFired, ResponseRecv, StartClient, TuResponse, RequestRecv,
            GoodMachine, Machine, Outcome, Goto, TimesOut, AwaitsFinal, None
<1>1. CASE f.kind = "CI"
    BY <1>1 DEF OnEvent, ClientInvite
<1>2. CASE f.kind = "CN"
    BY <1>2 DEF OnEvent, ClientNonInvite
<1>3. CASE f.kind = "SI"
    BY <1>3 DEF OnEvent, ServerInvite
<1>4. CASE f.kind = "SN"
    BY <1>4 DEF OnEvent, ServerNonInvite
<1> QED
    BY <1>1, <1>2, <1>3, <1>4 DEF Kinds, ClientKinds, ServerKinds

(* A client machine fed StartClient arms the timer that guards it. *)
LEMMA StartArms ==
    ASSUME NEW f, GoodMachine(f), NEW ackOk \in BOOLEAN,
           \/ f.kind = "CI" /\ f.state = "Calling"
           \/ f.kind = "CN" /\ f.state = "Trying"
    PROVE  /\ OnEvent(f, StartClient, ackOk).fsm = f
           /\ Contains(OnEvent(f, StartClient, ackOk).acts, Arm(Guardian(f)))
<1> USE DEF Guardian, GuardianOf, Outcome
<1>1. CASE f.kind = "CI" /\ f.state = "Calling"
    <2>1. OnEvent(f, StartClient, ackOk) =
              Outcome(f, IF f.reliable THEN <<Send("req"), Arm("B")>>
                                       ELSE <<Send("req"), Arm("A"), Arm("B")>>)
        BY <1>1 DEF OnEvent, ClientInvite, StartClient, TimerFired, ResponseRecv
    <2> QED
        BY <1>1, <2>1 DEF Contains
<1>2. CASE f.kind = "CN" /\ f.state = "Trying"
    <2>1. OnEvent(f, StartClient, ackOk) =
              Outcome(f, IF f.reliable THEN <<Send("req"), Arm("F")>>
                                       ELSE <<Send("req"), Arm("E"), Arm("F")>>)
        BY <1>2 DEF OnEvent, ClientNonInvite, StartClient, TimerFired, ResponseRecv
    <2> QED
        BY <1>2, <2>1 DEF Contains
<1> QED
    BY <1>1, <1>2

-----------------------------------------------------------------------------
(* Final responses.  A machine waits for its final, or for the TU's, in    *)
(* these states; timers D and K only run once it has it.                   *)
Awaiting == {"Calling", "Trying", "Proceeding"}
Lasting == {"D", "K"}

(* No final response is cached by a client, nor before one was sent. *)
CachedOK(f) == f.kind \in ClientKinds \/ f.state \in Awaiting => f.cached \notin Finals

(* What a step does about final responses: only a client delivers one,     *)
(* first thing in its batch, when it leaves Awaiting for good; a server    *)
(* sends one when it leaves Awaiting and repeats the one it has cached; a  *)
(* client that has its final is ended by timer D or K alone.               *)
FinalStep(f, e, out) ==
    /\ CachedOK(out.fsm)
    /\ f.state \notin Awaiting => out.fsm.state \notin Awaiting
    /\ f.state \notin Awaiting /\ out.fsm.state = "Completed" =>
           f.state = "Completed" /\ out.fsm.cached = f.cached
    /\ \A m \in Finals : Contains(out.acts, Deliver(m)) =>
           f.kind \in ClientKinds /\ f.state \in Awaiting /\ out.fsm.state \notin Awaiting
    /\ \A k \in DOMAIN out.acts : \A m \in Finals : out.acts[k] = Deliver(m) => k = 1
    /\ \A m \in Finals : Contains(out.acts, Send(m)) =>
           /\ out.fsm.state \notin Awaiting
           /\ out.fsm.state = "Completed" => out.fsm.cached = m
           /\ f.state \in Awaiting \/ (f.state = "Completed" /\ f.cached = m)
    /\ \A m, n \in Finals :
           Contains(out.acts, Send(m)) /\ Contains(out.acts, Send(n)) => m = n
    /\ \A g \in Lasting : Contains(out.acts, Arm(g)) =>
           f.kind \in ClientKinds /\ f.state \in Awaiting /\ out.fsm.state \notin Awaiting
    /\ f.kind \in ClientKinds /\ f.state \notin Awaiting /\ Contains(out.acts, Terminated) =>
           e \in {TimerFired("D"), TimerFired("K")}

(* The fields of a moved machine. *)
LEMMA MovedFields ==
    ASSUME NEW f, GoodMachine(f), NEW s, NEW c
    PROVE  Moved(f, s, c).state = s /\ Moved(f, s, c).cached = c /\ Moved(f, s, c).kind = f.kind
BY DEF GoodMachine, Machine, Moved

(* What is replayed can be sent. *)
LEMMA CachedKinds ==
    ASSUME NEW f, GoodMachine(f), f.cached # None
    PROVE  f.cached \in {"req", "ack"} \cup Classes
BY DEF GoodMachine, Machine

(* Absorbing an event says nothing about a final response. *)
LEMMA FinalAbsorb ==
    ASSUME NEW f, GoodMachine(f), CachedOK(f), NEW e
    PROVE  FinalStep(f, e, Absorb(f))
<1>1. Absorb(f).fsm = f /\ Absorb(f).acts = <<>>
    BY DEF Absorb, Outcome
<1> QED
    BY <1>1, Batch0 DEF FinalStep

(* Replaying the cached response repeats the final that was sent. *)
LEMMA FinalReplay ==
    ASSUME NEW f, GoodMachine(f), CachedOK(f), NEW e, f.state \in {"Proceeding", "Completed"}
    PROVE  FinalStep(f, e, ReplayCached(f))
<1>1. CASE f.cached = None
    BY <1>1, FinalAbsorb DEF ReplayCached, Absorb
<1>2. CASE f.cached # None
    <2>1. ReplayCached(f).fsm = f /\ ReplayCached(f).acts = <<Send(f.cached)>>
        BY <1>2 DEF ReplayCached, Outcome
    <2>2. \A x : Contains(<<Send(f.cached)>>, x) <=> x = Send(f.cached)
        BY DEF Contains
    <2>3. /\ \A m : Send(f.cached) # Deliver(m) /\ Send(f.cached) # Arm(m)
          /\ Send(f.cached) # Terminated /\ \A m : Send(m) = Send(f.cached) => m = f.cached
        BY DEF Send, Deliver, Arm, Terminated
    <2>4. \A k \in DOMAIN <<Send(f.cached)>> : <<Send(f.cached)>>[k] = Send(f.cached)
        OBVIOUS
    <2> QED
        BY <2>1, <2>2, <2>3, <2>4 DEF FinalStep, CachedOK, Awaiting
<1> QED
    BY <1>1, <1>2

(* Final responses in the steps of the ClientInvite machine. *)
LEMMA ClientInviteFinal ==
    ASSUME NEW f, GoodMachine(f), CachedOK(f), f.kind = "CI", NEW e, NEW ackOk \in BOOLEAN
    PROVE  FinalStep(f, e, ClientInvite(f, e, ackOk))
<1> USE DEF StartClient, ResponseRecv, TuResponse, RequestRecv, TimerFired, Finals, AwaitsFinal,
            TimesOut
<1> DEFINE out == ClientInvite(f, e, ackOk)
<1>1. CASE f.state = "Calling" /\ e = StartClient
    <2>1. CASE f.reliable
        <3> DEFINE b == <<Send("req"), Arm("B")>>
        <3>1. ClientInvite(f, e, ackOk) = Outcome(f, b)
            BY <1>1, <2>1 DEF ClientInvite, Moved
        <3>2. /\ \A m : Contains(b, Deliver(m)) => FALSE
              /\ \A m : Contains(b, Send(m)) => m \in {"req"}
              /\ \A g : Contains(b, Arm(g)) => g \in {"B"}
              /\ ~Contains(b, Terminated)
            <4>1. \A x : Contains(b, x) <=> x \in {Send("req"), Arm("B")}
                BY Batch2, ActionFacts DEF Classes, TimerIds
            <4> QED
                BY <4>1 DEF Send, Deliver, Arm, Cancel, Terminated
        <3>3. \A k \in DOMAIN b : \A m \in Finals : b[k] = Deliver(m) => k = 1
            BY DEF Send, Deliver, Arm, Cancel, Terminated
        <3>4. /\ out.acts = b
              /\ out.fsm.state = f.state /\ out.fsm.cached = f.cached
              /\ out.fsm.kind = f.kind
            BY <3>1, MovedFields DEF Outcome
        <3> HIDE DEF b
        <3> QED
            BY <1>1, <2>1, <3>2, <3>3, <3>4
            DEF FinalStep, CachedOK, Awaiting, Lasting, ClientKinds, None
    <2>2. CASE ~f.reliable
        <3> DEFINE b == <<Send("req"), Arm("A"), Arm("B")>>
        <3>1. ClientInvite(f, e, ackOk) = Outcome(f, b)
            BY <1>1, <2>2 DEF ClientInvite, Moved
        <3>2. /\ \A m : Contains(b, Deliver(m)) => FALSE
              /\ \A m : Contains(b, Send(m)) => m \in {"req"}
              /\ \A g : Contains(b, Arm(g)) => g \in {"A", "B"}
              /\ ~Contains(b, Terminated)
            <4>1. \A x : Contains(b, x) <=> x \in {Send("req"), Arm("A"), Arm("B")}
                BY Batch3, ActionFacts DEF Classes, TimerIds
            <4> QED
                BY <4>1 DEF Send, Deliver, Arm, Cancel, Terminated
        <3>3. \A k \in DOMAIN b : \A m \in Finals : b[k] = Deliver(m) => k = 1
            BY DEF Send, Deliver, Arm, Cancel, Terminated
        <3>4. /\ out.acts = b
              /\ out.fsm.state = f.state /\ out.fsm.cached = f.cached
              /\ out.fsm.kind = f.kind
            BY <3>1, MovedFields DEF Outcome
        <3> HIDE DEF b
        <3> QED
            BY <1>1, <2>2, <3>2, <3>3, <3>4
            DEF FinalStep, CachedOK, Awaiting, Lasting, ClientKinds, None
    <2> QED
        BY <1>1, <2>1, <2>2 DEF GoodMachine, Machine
<1>2. CASE f.state = "Calling" /\ e = TimerFired("A")
    <2> DEFINE b == <<Send("req"), Arm("A")>>
    <2>1. ClientInvite(f, e, ackOk) = Outcome(f, b)
        BY <1>2 DEF ClientInvite, Moved
    <2>2. /\ \A m : Contains(b, Deliver(m)) => FALSE
          /\ \A m : Contains(b, Send(m)) => m \in {"req"}
          /\ \A g : Contains(b, Arm(g)) => g \in {"A"}
          /\ ~Contains(b, Terminated)
        <3>1. \A x : Contains(b, x) <=> x \in {Send("req"), Arm("A")}
            BY Batch2, ActionFacts DEF Classes, TimerIds
        <3> QED
            BY <3>1 DEF Send, Deliver, Arm, Cancel, Terminated
    <2>3. \A k \in DOMAIN b : \A m \in Finals : b[k] = Deliver(m) => k = 1
        BY DEF Send, Deliver, Arm, Cancel, Terminated
    <2>4. /\ out.acts = b
          /\ out.fsm.state = f.state /\ out.fsm.cached = f.cached
          /\ out.fsm.kind = f.kind
        BY <2>1, MovedFields DEF Outcome
    <2> HIDE DEF b
    <2> QED
        BY <1>2, <2>2, <2>3, <2>4
        DEF FinalStep, CachedOK, Awaiting, Lasting, ClientKinds, None
<1>3. CASE f.state = "Calling" /\ e = ResponseRecv("1xx")
    <2> DEFINE b == <<Cancel("A"), Deliver("1xx")>>
    <2>1. ClientInvite(f, e, ackOk) = Outcome(Moved(f, "Proceeding", f.cached), b)
        BY <1>3, MovedGoto DEF ClientInvite, Moved
    <2>2. /\ \A m : Contains(b, Deliver(m)) => m \in {"1xx"}
          /\ \A m : Contains(b, Send(m)) => FALSE
          /\ \A g : Contains(b, Arm(g)) => FALSE
          /\ ~Contains(b, Terminated)
        <3>1. \A x : Contains(b, x) <=> x \in {Cancel("A"), Deliver("1xx")}
            BY Batch2, ActionFacts DEF Classes, TimerIds
        <3> QED
            BY <3>1 DEF Send, Deliver, Arm, Cancel, Terminated
    <2>3. \A k \in DOMAIN b : \A m \in Finals : b[k] = Deliver(m) => k = 1
        BY DEF Send, Deliver, Arm, Cancel, Terminated
    <2>4. /\ out.acts = b
          /\ out.fsm.state = "Proceeding" /\ out.fsm.cached = f.cached
          /\ out.fsm.kind = f.kind
        BY <2>1, MovedFields DEF Outcome
    <2> HIDE DEF b
    <2> QED
        BY <1>3, <2>2, <2>3, <2>4
        DEF FinalStep, CachedOK, Awaiting, Lasting, ClientKinds, None
<1>4. CASE f.state = "Proceeding" /\ e = ResponseRecv("1xx")
    <2> DEFINE b == <<Deliver("1xx")>>
    <2>1. ClientInvite(f, e, ackOk) = Outcome(f, b)
        BY <1>4 DEF ClientInvite, Moved
    <2>2. /\ \A m : Contains(b, Deliver(m)) => m \in {"1xx"}
          /\ \A m : Contains(b, Send(m)) => FALSE
          /\ \A g : Contains(b, Arm(g)) => FALSE
          /\ ~Contains(b, Terminated)
        <3>1. \A x : Contains(b, x) <=> x \in {Deliver("1xx")}
            BY Batch1, ActionFacts DEF Classes, TimerIds
        <3> QED
            BY <3>1 DEF Send, Deliver, Arm, Cancel, Terminated
    <2>3. \A k \in DOMAIN b : \A m \in Finals : b[k] = Deliver(m) => k = 1
        BY DEF Send, Deliver, Arm, Cancel, Terminated
    <2>4. /\ out.acts = b
          /\ out.fsm.state = f.state /\ out.fsm.cached = f.cached
          /\ out.fsm.kind = f.kind
        BY <2>1, MovedFields DEF Outcome
    <2> HIDE DEF b
    <2> QED
        BY <1>4, <2>2, <2>3, <2>4
        DEF FinalStep, CachedOK, Awaiting, Lasting, ClientKinds, None
<1>5. CASE f.state \in {"Calling", "Proceeding"} /\ e = ResponseRecv("2xx")
    <2> DEFINE b == <<Deliver("2xx"), Cancel("A"), Cancel("B"), Terminated>>
    <2>1. ClientInvite(f, e, ackOk) = Outcome(Moved(f, "Terminated", f.cached), b)
        BY <1>5, MovedGoto DEF ClientInvite, Moved, EnterTerminatedOn2xx
    <2>2. /\ \A m : Contains(b, Deliver(m)) => m \in {"2xx"}
          /\ \A m : Contains(b, Send(m)) => FALSE
          /\ \A g : Contains(b, Arm(g)) => FALSE
          /\ Contains(b, Terminated)
        <3>1. \A x : Contains(b, x) <=> x \in {Deliver("2xx"), Cancel("A"), Cancel("B"), Terminated}
            BY Batch4, ActionFacts DEF Classes, TimerIds
        <3> QED
            BY <3>1 DEF Send, Deliver, Arm, Cancel, Terminated
    <2>3. \A k \in DOMAIN b : \A m \in Finals : b[k] = Deliver(m) => k = 1
        BY DEF Send, Deliver, Arm, Cancel, Terminated
    <2>4. /\ out.acts = b
          /\ out.fsm.state = "Terminated" /\ out.fsm.cached = f.cached
          /\ out.fsm.kind = f.kind
        BY <2>1, MovedFields DEF Outcome
    <2> HIDE DEF b
    <2> QED
        BY <1>5, <2>2, <2>3, <2>4
        DEF FinalStep, CachedOK, Awaiting, Lasting, ClientKinds, None
<1>6. CASE f.state \in {"Calling", "Proceeding"} /\ e = ResponseRecv("err")
    <2>1. CASE f.reliable /\ ackOk
        <3> DEFINE b == <<Deliver("err"), Cancel("A"), Cancel("B"), Send("ack"), Terminated>>
        <3>1. ClientInvite(f, e, ackOk) = Outcome(Moved(f, "Terminated", "ack"), b)
            BY <1>6, <2>1 DEF ClientInvite, Moved, EnterCompletedNonOk
        <3>2. /\ \A m : Contains(b, Deliver(m)) => m \in {"err"}
              /\ \A m : Contains(b, Send(m)) => m \in {"ack"}
              /\ \A g : Contains(b, Arm(g)) => FALSE
              /\ Contains(b, Terminated)
            <4>1. \A x : Contains(b, x) <=> x \in {Deliver("err"), Cancel("A"), Cancel("B"), Send("ack"), Terminated}
                BY Batch5, ActionFacts DEF Classes, TimerIds
            <4> QED
                BY <4>1 DEF Send, Deliver, Arm, Cancel, Terminated
        <3>3. \A k \in DOMAIN b : \A m \in Finals : b[k] = Deliver(m) => k = 1
            BY DEF Send, Deliver, Arm, Cancel, Terminated
        <3>4. /\ out.acts = b
              /\ out.fsm.state = "Terminated" /\ out.fsm.cached = "ack"
              /\ out.fsm.kind = f.kind
            BY <3>1, MovedFields DEF Outcome
        <3> HIDE DEF b
        <3> QED
            BY <1>6, <2>1, <3>2, <3>3, <3>4
            DEF FinalStep, CachedOK, Awaiting, Lasting, ClientKinds, None
    <2>2. CASE f.reliable /\ ~ackOk
        <3> DEFINE b == <<Deliver("err"), Cancel("A"), Cancel("B"), Terminated>>
        <3>1. ClientInvite(f, e, ackOk) = Outcome(Moved(f, "Terminated", None), b)
            BY <1>6, <2>2 DEF ClientInvite, Moved, EnterCompletedNonOk
        <3>2. /\ \A m : Contains(b, Deliver(m)) => m \in {"err"}
              /\ \A m : Contains(b, Send(m)) => FALSE
              /\ \A g : Contains(b, Arm(g)) => FALSE
              /\ Contains(b, Terminated)
            <4>1. \A x : Contains(b, x) <=> x \in {Deliver("err"), Cancel("A"), Cancel("B"), Terminated}
                BY Batch4, ActionFacts DEF Classes, TimerIds
            <4> QED
                BY <4>1 DEF Send, Deliver, Arm, Cancel, Terminated
        <3>3. \A k \in DOMAIN b : \A m \in Finals : b[k] = Deliver(m) => k = 1
            BY DEF Send, Deliver, Arm, Cancel, Terminated
        <3>4. /\ out.acts = b
              /\ out.fsm.state = "Terminated" /\ out.fsm.cached = None
              /\ out.fsm.kind = f.kind
            BY <3>1, MovedFields DEF Outcome
        <3> HIDE DEF b
        <3> QED
            BY <1>6, <2>2, <3>2, <3>3, <3>4
            DEF FinalStep, CachedOK, Awaiting, Lasting, ClientKinds, None
    <2>3. CASE ~f.reliable /\ ackOk
        <3> DEFINE b == <<Deliver("err"), Cancel("A"), Cancel("B"), Send("ack"), Arm("D")>>
        <3>1. ClientInvite(f, e, ackOk) = Outcome(Moved(f, "Completed", "ack"), b)
            BY <1>6, <2>3 DEF ClientInvite, Moved, EnterCompletedNonOk
        <3>2. /\ \A m : Contains(b, Deliver(m)) => m \in {"err"}
              /\ \A m : Contains(b, Send(m)) => m \in {"ack"}
              /\ \A g : Contains(b, Arm(g)) => g \in {"D"}
              /\ ~Contains(b, Terminated)
            <4>1. \A x : Contains(b, x) <=> x \in {Deliver("err"), Cancel("A"), Cancel("B"), Send("ack"), Arm("D")}
                BY Batch5, ActionFacts DEF Classes, TimerIds
            <4> QED
                BY <4>1 DEF Send, Deliver, Arm, Cancel, Terminated
        <3>3. \A k \in DOMAIN b : \A m \in Finals : b[k] = Deliver(m) => k = 1
            BY DEF Send, Deliver, Arm, Cancel, Terminated
        <3>4. /\ out.acts = b
              /\ out.fsm.state = "Completed" /\ out.fsm.cached = "ack"
              /\ out.fsm.kind = f.kind
            BY <3>1, MovedFields DEF Outcome
        <3> HIDE DEF b
        <3> QED
            BY <1>6, <2>3, <3>2, <3>3, <3>4
            DEF FinalStep, CachedOK, Awaiting, Lasting, ClientKinds, None
    <2>4. CASE ~f.reliable /\ ~ackOk
        <3> DEFINE b == <<Deliver("err"), Cancel("A"), Cancel("B"), Arm("D")>>
        <3>1. ClientInvite(f, e, ackOk) = Outcome(Moved(f, "Completed", None), b)
            BY <1>6, <2>4 DEF ClientInvite, Moved, EnterCompletedNonOk
        <3>2. /\ \A m : Contains(b, Deliver(m)) => m \in {"err"}
              /\ \A m : Contains(b, Send(m)) => FALSE
              /\ \A g : Contains(b, Arm(g)) => g \in {"D"}
              /\ ~Contains(b, Terminated)
            <4>1. \A x : Contains(b, x) <=> x \in {Deliver("err"), Cancel("A"), Cancel("B"), Arm("D")}
                BY Batch4, ActionFacts DEF Classes, TimerIds
            <4> QED
                BY <4>1 DEF Send, Deliver, Arm, Cancel, Terminated
        <3>3. \A k \in DOMAIN b : \A m \in Finals : b[k] = Deliver(m) => k = 1
            BY DEF Send, Deliver, Arm, Cancel, Terminated
        <3>4. /\ out.acts = b
              /\ out.fsm.state = "Completed" /\ out.fsm.cached = None
              /\ out.fsm.kind = f.kind
            BY <3>1, MovedFields DEF Outcome
        <3> HIDE DEF b
        <3> QED
            BY <1>6, <2>4, <3>2, <3>3, <3>4
            DEF FinalStep, CachedOK, Awaiting, Lasting, ClientKinds, None
    <2> QED
        BY <1>6, <2>1, <2>2, <2>3, <2>4 DEF GoodMachine, Machine
<1>7. CASE f.state \in {"Calling", "Proceeding"} /\ e = TimerFired("B")
    <2> DEFINE b == <<Cancel("A"), Terminated>>
    <2>1. ClientInvite(f, e, ackOk) = Outcome(Moved(f, "Terminated", f.cached), b)
        BY <1>7, MovedGoto DEF ClientInvite, Moved
    <2>2. /\ \A m : Contains(b, Deliver(m)) => FALSE
          /\ \A m : Contains(b, Send(m)) => FALSE
          /\ \A g : Contains(b, Arm(g)) => FALSE
          /\ Contains(b, Terminated)
        <3>1. \A x : Contains(b, x) <=> x \in {Cancel("A"), Terminated}
            BY Batch2, ActionFacts DEF Classes, TimerIds
        <3> QED
            BY <3>1 DEF Send, Deliver, Arm, Cancel, Terminated
    <2>3. \A k \in DOMAIN b : \A m \in Finals : b[k] = Deliver(m) => k = 1
        BY DEF Send, Deliver, Arm, Cancel, Terminated
    <2>4. /\ out.acts = b
          /\ out.fsm.state = "Terminated" /\ out.fsm.cached = f.cached
          /\ out.fsm.kind = f.kind
        BY <2>1, MovedFields DEF Outcome
    <2> HIDE DEF b
    <2> QED
        BY <1>7, <2>2, <2>3, <2>4
        DEF FinalStep, CachedOK, Awaiting, Lasting, ClientKinds, None
<1>8. CASE f.state = "Completed" /\ e = ResponseRecv("err")
    <2>1. ClientInvite(f, e, ackOk) = ReplayCached(f)
        BY <1>8 DEF ClientInvite
    <2> QED
        BY <1>8, <2>1, FinalReplay
<1>9. CASE f.state = "Completed" /\ e = TimerFired("D")
    <2> DEFINE b == <<Terminated>>
    <2>1. ClientInvite(f, e, ackOk) = Outcome(Moved(f, "Terminated", f.cached), b)
        BY <1>9, MovedGoto DEF ClientInvite, Moved
    <2>2. /\ \A m : Contains(b, Deliver(m)) => FALSE
          /\ \A m : Contains(b, Send(m)) => FALSE
          /\ \A g : Contains(b, Arm(g)) => FALSE
          /\ Contains(b, Terminated)
        <3>1. \A x : Contains(b, x) <=> x \in {Terminated}
            BY Batch1, ActionFacts DEF Classes, TimerIds
        <3> QED
            BY <3>1 DEF Send, Deliver, Arm, Cancel, Terminated
    <2>3. \A k \in DOMAIN b : \A m \in Finals : b[k] = Deliver(m) => k = 1
        BY DEF Send, Deliver, Arm, Cancel, Terminated
    <2>4. /\ out.acts = b
          /\ out.fsm.state = "Terminated" /\ out.fsm.cached = f.cached
          /\ out.fsm.kind = f.kind
        BY <2>1, MovedFields DEF Outcome
    <2> HIDE DEF b
    <2> QED
        BY <1>9, <2>2, <2>3, <2>4
        DEF FinalStep, CachedOK, Awaiting, Lasting, ClientKinds, None
<1>10. CASE ClientInvite(f, e, ackOk) = Absorb(f)
    BY <1>10, FinalAbsorb
<1> QED
    BY <1>1, <1>2, <1>3, <1>4, <1>5, <1>6, <1>7, <1>8, <1>9, <1>10
    DEF ClientInvite, GoodMachine, KindStates, Absorb

(* Final responses in the steps of the ClientNonInvite machine. *)
LEMMA ClientNonInviteFinal ==
    ASSUME NEW f, GoodMachine(f), CachedOK(f), f.kind = "CN", NEW e
    PROVE  FinalStep(f, e, ClientNonInvite(f, e))
<1> USE DEF StartClient, ResponseRecv, TuResponse, RequestRecv, TimerFired, Finals, AwaitsFinal,
            TimesOut
<1> DEFINE out == ClientNonInvite(f, e)
<1>1. CASE f.state = "Trying" /\ e = StartClient
    <2>1. CASE f.reliable
        <3> DEFINE b == <<Send("req"), Arm("F")>>
        <3>1. ClientNonInvite(f, e) = Outcome(f, b)
            BY <1>1, <2>1 DEF ClientNonInvite, Moved
        <3>2. /\ \A m : Contains(b, Deliver(m)) => FALSE
              /\ \A m : Contains(b, Send(m)) => m \in {"req"}
              /\ \A g : Contains(b, Arm(g)) => g \in {"F"}
              /\ ~Contains(b, Terminated)
            <4>1. \A x : Contains(b, x) <=> x \in {Send("req"), Arm("F")}
                BY Batch2, ActionFacts DEF Classes, TimerIds
            <4> QED
                BY <4>1 DEF Send, Deliver, Arm, Cancel, Terminated
        <3>3. \A k \in DOMAIN b : \A m \in Finals : b[k] = Deliver(m) => k = 1
            BY DEF Send, Deliver, Arm, Cancel, Terminated
        <3>4. /\ out.acts = b
              /\ out.fsm.state = f.state /\ out.fsm.cached = f.cached
              /\ out.fsm.kind = f.kind
            BY <3>1, MovedFields DEF Outcome
        <3> HIDE DEF b
        <3> QED
            BY <1>1, <2>1, <3>2, <3>3, <3>4
            DEF FinalStep, CachedOK, Awaiting, Lasting, ClientKinds, None
    <2>2. CASE ~f.reliable
        <3> DEFINE b == <<Send("req"), Arm("E"), Arm("F")>>
        <3>1. ClientNonInvite(f, e) = Outcome(f, b)
            BY <1>1, <2>2 DEF ClientNonInvite, Moved
        <3>2. /\ \A m : Contains(b, Deliver(m)) => FALSE
              /\ \A m : Contains(b, Send(m)) => m \in {"req"}
              /\ \A g : Contains(b, Arm(g)) => g \in {"E", "F"}
              /\ ~Contains(b, Terminated)
            <4>1. \A x : Contains(b, x) <=> x \in {Send("req"), Arm("E"), Arm("F")}
                BY Batch3, ActionFacts DEF Classes, TimerIds
            <4> QED
                BY <4>1 DEF Send, Deliver, Arm, Cancel, Terminated
        <3>3. \A k \in DOMAIN b : \A m \in Finals : b[k] = Deliver(m) => k = 1
            BY DEF Send, Deliver, Arm, Cancel, Terminated
        <3>4. /\ out.acts = b
              /\ out.fsm.state = f.state /\ out.fsm.cached = f.cached
              /\ out.fsm.kind = f.kind
            BY <3>1, MovedFields DEF Outcome
        <3> HIDE DEF b
        <3> QED
            BY <1>1, <2>2, <3>2, <3>3, <3>4
            DEF FinalStep, CachedOK, Awaiting, Lasting, ClientKinds, None
    <2> QED
        BY <1>1, <2>1, <2>2 DEF GoodMachine, Machine
<1>2. CASE f.state \in {"Trying", "Proceeding"} /\ e = TimerFired("E")
    <2> DEFINE b == <<Send("req"), Arm("E")>>
    <2>1. ClientNonInvite(f, e) = Outcome(f, b)
        BY <1>2 DEF ClientNonInvite, Moved
    <2>2. /\ \A m : Contains(b, Deliver(m)) => FALSE
          /\ \A m : Contains(b, Send(m)) => m \in {"req"}
          /\ \A g : Contains(b, Arm(g)) => g \in {"E"}
          /\ ~Contains(b, Terminated)
        <3>1. \A x : Contains(b, x) <=> x \in {Send("req"), Arm("E")}
            BY Batch2, ActionFacts DEF Classes, TimerIds
        <3> QED
            BY <3>1 DEF Send, Deliver, Arm, Cancel, Terminated
    <2>3. \A k \in DOMAIN b : \A m \in Finals : b[k] = Deliver(m) => k = 1
        BY DEF Send, Deliver, Arm, Cancel, Terminated
    <2>4. /\ out.acts = b
          /\ out.fsm.state = f.state /\ out.fsm.cached = f.cached
          /\ out.fsm.kind = f.kind
        BY <2>1, MovedFields DEF Outcome
    <2> HIDE DEF b
    <2> QED
        BY <1>2, <2>2, <2>3, <2>4
        DEF FinalStep, CachedOK, Awaiting, Lasting, ClientKinds, None
<1>3. CASE f.state = "Trying" /\ e = ResponseRecv("1xx")
    <2>1. CASE f.reliable
        <3> DEFINE b == <<Deliver("1xx")>>
        <3>1. ClientNonInvite(f, e) = Outcome(Moved(f, "Proceeding", f.cached), b)
            BY <1>3, <2>1, MovedGoto DEF ClientNonInvite, Moved
        <3>2. /\ \A m : Contains(b, Deliver(m)) => m \in {"1xx"}
              /\ \A m : Contains(b, Send(m)) => FALSE
              /\ \A g : Contains(b, Arm(g)) => FALSE
              /\ ~Contains(b, Terminated)
            <4>1. \A x : Contains(b, x) <=> x \in {Deliver("1xx")}
                BY Batch1, ActionFacts DEF Classes, TimerIds
            <4> QED
                BY <4>1 DEF Send, Deliver, Arm, Cancel, Terminated
        <3>3. \A k \in DOMAIN b : \A m \in Finals : b[k] = Deliver(m) => k = 1
            BY DEF Send, Deliver, Arm, Cancel, Terminated
        <3>4. /\ out.acts = b
              /\ out.fsm.state = "Proceeding" /\ out.fsm.cached = f.cached
              /\ out.fsm.kind = f.kind
            BY <3>1, MovedFields DEF Outcome
        <3> HIDE DEF b
        <3> QED
            BY <1>3, <2>1, <3>2, <3>3, <3>4
            DEF FinalStep, CachedOK, Awaiting, Lasting, ClientKinds, None
    <2>2. CASE ~f.reliable
        <3> DEFINE b == <<Deliver("1xx"), Arm("E")>>
        <3>1. ClientNonInvite(f, e) = Outcome(Moved(f, "Proceeding", f.cached), b)
            BY <1>3, <2>2, MovedGoto DEF ClientNonInvite, Moved
        <3>2. /\ \A m : Contains(b, Deliver(m)) => m \in {"1xx"}
              /\ \A m : Contains(b, Send(m)) => FALSE
              /\ \A g : Contains(b, Arm(g)) => g \in {"E"}
              /\ ~Contains(b, Terminated)
            <4>1. \A x : Contains(b, x) <=> x \in {Deliver("1xx"), Arm("E")}
                BY Batch2, ActionFacts DEF Classes, TimerIds
            <4> QED
                BY <4>1 DEF Send, Deliver, Arm, Cancel, Terminated
        <3>3. \A k \in DOMAIN b : \A m \in Finals : b[k] = Deliver(m) => k = 1
            BY DEF Send, Deliver, Arm, Cancel, Terminated
        <3>4. /\ out.acts = b
              /\ out.fsm.state = "Proceeding" /\ out.fsm.cached = f.cached
              /\ out.fsm.kind = f.kind
            BY <3>1, MovedFields DEF Outcome
        <3> HIDE DEF b
        <3> QED
            BY <1>3, <2>2, <3>2, <3>3, <3>4
            DEF FinalStep, CachedOK, Awaiting, Lasting, ClientKinds, None
    <2> QED
        BY <1>3, <2>1, <2>2 DEF GoodMachine, Machine
<1>4. CASE f.state = "Proceeding" /\ e = ResponseRecv("1xx")
    <2> DEFINE b == <<Deliver("1xx")>>
    <2>1. ClientNonInvite(f, e) = Outcome(f, b)
        BY <1>4 DEF ClientNonInvite, Moved
    <2>2. /\ \A m : Contains(b, Deliver(m)) => m \in {"1xx"}
          /\ \A m : Contains(b, Send(m)) => FALSE
          /\ \A g : Contains(b, Arm(g)) => FALSE
          /\ ~Contains(b, Terminated)
        <3>1. \A x : Contains(b, x) <=> x \in {Deliver("1xx")}
            BY Batch1, ActionFacts DEF Classes, TimerIds
        <3> QED
            BY <3>1 DEF Send, Deliver, Arm, Cancel, Terminated
    <2>3. \A k \in DOMAIN b : \A m \in Finals : b[k] = Deliver(m) => k = 1
        BY DEF Send, Deliver, Arm, Cancel, Terminated
    <2>4. /\ out.acts = b
          /\ out.fsm.state = f.state /\ out.fsm.cached = f.cached
          /\ out.fsm.kind = f.kind
        BY <2>1, MovedFields DEF Outcome
    <2> HIDE DEF b
    <2> QED
        BY <1>4, <2>2, <2>3, <2>4
        DEF FinalStep, CachedOK, Awaiting, Lasting, ClientKinds, None
<1>5. CASE f.state \in {"Trying", "Proceeding"} /\ e.ev = "response" /\ e.arg \in Finals
    <2>1. CASE f.reliable /\ e.arg = "2xx"
        <3> DEFINE b == <<Deliver("2xx"), Cancel("E"), Cancel("F"), Terminated>>
        <3>1. ClientNonInvite(f, e) = Outcome(Moved(f, "Terminated", f.cached), b)
            <4>1. e # StartClient /\ e # ResponseRecv("1xx") /\ \A g : e # TimerFired(g)
                BY <1>5, <2>1
            <4> QED
                BY <1>5, <2>1, <4>1, MovedGoto DEF ClientNonInvite, Moved, EnterCompleted
        <3>2. /\ \A m : Contains(b, Deliver(m)) => m \in {"2xx"}
              /\ \A m : Contains(b, Send(m)) => FALSE
              /\ \A g : Contains(b, Arm(g)) => FALSE
              /\ Contains(b, Terminated)
            <4>1. \A x : Contains(b, x) <=> x \in {Deliver("2xx"), Cancel("E"), Cancel("F"), Terminated}
                BY Batch4, ActionFacts DEF Classes, TimerIds
            <4> QED
                BY <4>1 DEF Send, Deliver, Arm, Cancel, Terminated
        <3>3. \A k \in DOMAIN b : \A m \in Finals : b[k] = Deliver(m) => k = 1
            BY DEF Send, Deliver, Arm, Cancel, Terminated
        <3>4. /\ out.acts = b
              /\ out.fsm.state = "Terminated" /\ out.fsm.cached = f.cached
              /\ out.fsm.kind = f.kind
            BY <3>1, MovedFields DEF Outcome
        <3> HIDE DEF b
        <3> QED
            BY <1>5, <2>1, <3>2, <3>3, <3>4
            DEF FinalStep, CachedOK, Awaiting, Lasting, ClientKinds, None
    <2>2. CASE f.reliable /\ e.arg = "err"
        <3> DEFINE b == <<Deliver("err"), Cancel("E"), Cancel("F"), Terminated>>
        <3>1. ClientNonInvite(f, e) = Outcome(Moved(f, "Terminated", f.cached), b)
            <4>1. e # StartClient /\ e # ResponseRecv("1xx") /\ \A g : e # TimerFired(g)
                BY <1>5, <2>2
            <4> QED
                BY <1>5, <2>2, <4>1, MovedGoto DEF ClientNonInvite, Moved, EnterCompleted
        <3>2. /\ \A m : Contains(b, Deliver(m)) => m \in {"err"}
              /\ \A m : Contains(b, Send(m)) => FALSE
              /\ \A g : Contains(b, Arm(g)) => FALSE
              /\ Contains(b, Terminated)
            <4>1. \A x : Contains(b, x) <=> x \in {Deliver("err"), Cancel("E"), Cancel("F"), Terminated}
                BY Batch4, ActionFacts DEF Classes, TimerIds
            <4> QED
                BY <4>1 DEF Send, Deliver, Arm, Cancel, Terminated
        <3>3. \A k \in DOMAIN b : \A m \in Finals : b[k] = Deliver(m) => k = 1
            BY DEF Send, Deliver, Arm, Cancel, Terminated
        <3>4. /\ out.acts = b
              /\ out.fsm.state = "Terminated" /\ out.fsm.cached = f.cached
              /\ out.fsm.kind = f.kind
            BY <3>1, MovedFields DEF Outcome
        <3> HIDE DEF b
        <3> QED
            BY <1>5, <2>2, <3>2, <3>3, <3>4
            DEF FinalStep, CachedOK, Awaiting, Lasting, ClientKinds, None
    <2>3. CASE ~f.reliable /\ e.arg = "2xx"
        <3> DEFINE b == <<Deliver("2xx"), Cancel("E"), Cancel("F"), Arm("K")>>
        <3>1. ClientNonInvite(f, e) = Outcome(Moved(f, "Completed", f.cached), b)
            <4>1. e # StartClient /\ e # ResponseRecv("1xx") /\ \A g : e # TimerFired(g)
                BY <1>5, <2>3
            <4> QED
                BY <1>5, <2>3, <4>1, MovedGoto DEF ClientNonInvite, Moved, EnterCompleted
        <3>2. /\ \A m : Contains(b, Deliver(m)) => m \in {"2xx"}
              /\ \A m : Contains(b, Send(m)) => FALSE
              /\ \A g : Contains(b, Arm(g)) => g \in {"K"}
              /\ ~Contains(b, Terminated)
            <4>1. \A x : Contains(b, x) <=> x \in {Deliver("2xx"), Cancel("E"), Cancel("F"), Arm("K")}
                BY Batch4, ActionFacts DEF Classes, TimerIds
            <4> QED
                BY <4>1 DEF Send, Deliver, Arm, Cancel, Terminated
        <3>3. \A k \in DOMAIN b : \A m \in Finals : b[k] = Deliver(m) => k = 1
            BY DEF Send, Deliver, Arm, Cancel, Terminated
        <3>4. /\ out.acts = b
              /\ out.fsm.state = "Completed" /\ out.fsm.cached = f.cached
              /\ out.fsm.kind = f.kind
            BY <3>1, MovedFields DEF Outcome
        <3> HIDE DEF b
        <3> QED
            BY <1>5, <2>3, <3>2, <3>3, <3>4
            DEF FinalStep, CachedOK, Awaiting, Lasting, ClientKinds, None
    <2>4. CASE ~f.reliable /\ e.arg = "err"
        <3> DEFINE b == <<Deliver("err"), Cancel("E"), Cancel("F"), Arm("K")>>
        <3>1. ClientNonInvite(f, e) = Outcome(Moved(f, "Completed", f.cached), b)
            <4>1. e # StartClient /\ e # ResponseRecv("1xx") /\ \A g : e # TimerFired(g)
                BY <1>5, <2>4
            <4> QED
                BY <1>5, <2>4, <4>1, MovedGoto DEF ClientNonInvite, Moved, EnterCompleted
        <3>2. /\ \A m : Contains(b, Deliver(m)) => m \in {"err"}
              /\ \A m : Contains(b, Send(m)) => FALSE
              /\ \A g : Contains(b, Arm(g)) => g \in {"K"}
              /\ ~Contains(b, Terminated)
            <4>1. \A x : Contains(b, x) <=> x \in {Deliver("err"), Cancel("E"), Cancel("F"), Arm("K")}
                BY Batch4, ActionFacts DEF Classes, TimerIds
            <4> QED
                BY <4>1 DEF Send, Deliver, Arm, Cancel, Terminated
        <3>3. \A k \in DOMAIN b : \A m \in Finals : b[k] = Deliver(m) => k = 1
            BY DEF Send, Deliver, Arm, Cancel, Terminated
        <3>4. /\ out.acts = b
              /\ out.fsm.state = "Completed" /\ out.fsm.cached = f.cached
              /\ out.fsm.kind = f.kind
            BY <3>1, MovedFields DEF Outcome
        <3> HIDE DEF b
        <3> QED
            BY <1>5, <2>4, <3>2, <3>3, <3>4
            DEF FinalStep, CachedOK, Awaiting, Lasting, ClientKinds, None
    <2> QED
        BY <1>5, <2>1, <2>2, <2>3, <2>4 DEF GoodMachine, Machine
<1>6. CASE f.state \in {"Trying", "Proceeding"} /\ e = TimerFired("F")
    <2> DEFINE b == <<Cancel("E"), Terminated>>
    <2>1. ClientNonInvite(f, e) = Outcome(Moved(f, "Terminated", f.cached), b)
        BY <1>6, MovedGoto DEF ClientNonInvite, Moved
    <2>2. /\ \A m : Contains(b, Deliver(m)) => FALSE
          /\ \A m : Contains(b, Send(m)) => FALSE
          /\ \A g : Contains(b, Arm(g)) => FALSE
          /\ Contains(b, Terminated)
        <3>1. \A x : Contains(b, x) <=> x \in {Cancel("E"), Terminated}
            BY Batch2, ActionFacts DEF Classes, TimerIds
        <3> QED
            BY <3>1 DEF Send, Deliver, Arm, Cancel, Terminated
    <2>3. \A k \in DOMAIN b : \A m \in Finals : b[k] = Deliver(m) => k = 1
        BY DEF Send, Deliver, Arm, Cancel, Terminated
    <2>4. /\ out.acts = b
          /\ out.fsm.state = "Terminated" /\ out.fsm.cached = f.cached
          /\ out.fsm.kind = f.kind
        BY <2>1, MovedFields DEF Outcome
    <2> HIDE DEF b
    <2> QED
        BY <1>6, <2>2, <2>3, <2>4
        DEF FinalStep, CachedOK, Awaiting, Lasting, ClientKinds, None
<1>7. CASE f.state = "Completed" /\ e = TimerFired("K")
    <2> DEFINE b == <<Terminated>>
    <2>1. ClientNonInvite(f, e) = Outcome(Moved(f, "Terminated", f.cached), b)
        BY <1>7, MovedGoto DEF ClientNonInvite, Moved
    <2>2. /\ \A m : Contains(b, Deliver(m)) => FALSE
          /\ \A m : Contains(b, Send(m)) => FALSE
          /\ \A g : Contains(b, Arm(g)) => FALSE
          /\ Contains(b, Terminated)
        <3>1. \A x : Contains(b, x) <=> x \in {Terminated}
            BY Batch1, ActionFacts DEF Classes, TimerIds
        <3> QED
            BY <3>1 DEF Send, Deliver, Arm, Cancel, Terminated
    <2>3. \A k \in DOMAIN b : \A m \in Finals : b[k] = Deliver(m) => k = 1
        BY DEF Send, Deliver, Arm, Cancel, Terminated
    <2>4. /\ out.acts = b
          /\ out.fsm.state = "Terminated" /\ out.fsm.cached = f.cached
          /\ out.fsm.kind = f.kind
        BY <2>1, MovedFields DEF Outcome
    <2> HIDE DEF b
    <2> QED
        BY <1>7, <2>2, <2>3, <2>4
        DEF FinalStep, CachedOK, Awaiting, Lasting, ClientKinds, None
<1>8. CASE ClientNonInvite(f, e) = Absorb(f)
    BY <1>8, FinalAbsorb
<1> QED
    BY <1>1, <1>2, <1>3, <1>4, <1>5, <1>6, <1>7, <1>8
    DEF ClientNonInvite, GoodMachine, KindStates, Absorb

(* Final responses in the steps of the ServerInvite machine. *)
LEMMA ServerInviteFinal ==
    ASSUME NEW f, GoodMachine(f), CachedOK(f), f.kind = "SI", NEW e
    PROVE  FinalStep(f, e, ServerInvite(f, e))
<1> USE DEF StartClient, ResponseRecv, TuResponse, RequestRecv, TimerFired, Finals, AwaitsFinal,
            TimesOut
<1> DEFINE out == ServerInvite(f, e)
<1>1. CASE f.state = "Proceeding" /\ e = TuResponse("1xx")
    <2> DEFINE b == <<Send("1xx")>>
    <2>1. ServerInvite(f, e) = Outcome(Moved(f, "Proceeding", "1xx"), b)
        BY <1>1 DEF ServerInvite, Moved
    <2>2. /\ \A m : Contains(b, Deliver(m)) => FALSE
          /\ \A m : Contains(b, Send(m)) => m \in {"1xx"}
          /\ \A g : Contains(b, Arm(g)) => FALSE
          /\ ~Contains(b, Terminated)
        <3>1. \A x : Contains(b, x) <=> x \in {Send("1xx")}
            BY Batch1, ActionFacts DEF Classes, TimerIds
        <3> QED
            BY <3>1 DEF Send, Deliver, Arm, Cancel, Terminated
    <2>3. \A k \in DOMAIN b : \A m \in Finals : b[k] = Deliver(m) => k = 1
        BY DEF Send, Deliver, Arm, Cancel, Terminated
    <2>4. /\ out.acts = b
          /\ out.fsm.state = "Proceeding" /\ out.fsm.cached = "1xx"
          /\ out.fsm.kind = f.kind
        BY <2>1, MovedFields DEF Outcome
    <2> HIDE DEF b
    <2> QED
        BY <1>1, <2>2, <2>3, <2>4
        DEF FinalStep, CachedOK, Awaiting, Lasting, ClientKinds, None
<1>2. CASE f.state = "Proceeding" /\ e = TuResponse("2xx")
    <2> DEFINE b == <<Send("2xx"), Terminated>>
    <2>1. ServerInvite(f, e) = Outcome(Moved(f, "Terminated", f.cached), b)
        BY <1>2, MovedGoto DEF ServerInvite, Moved
    <2>2. /\ \A m : Contains(b, Deliver(m)) => FALSE
          /\ \A m : Contains(b, Send(m)) => m \in {"2xx"}
          /\ \A g : Contains(b, Arm(g)) => FALSE
          /\ Contains(b, Terminated)
        <3>1. \A x : Contains(b, x) <=> x \in {Send("2xx"), Terminated}
            BY Batch2, ActionFacts DEF Classes, TimerIds
        <3> QED
            BY <3>1 DEF Send, Deliver, Arm, Cancel, Terminated
    <2>3. \A k \in DOMAIN b : \A m \in Finals : b[k] = Deliver(m) => k = 1
        BY DEF Send, Deliver, Arm, Cancel, Terminated
    <2>4. /\ out.acts = b
          /\ out.fsm.state = "Terminated" /\ out.fsm.cached = f.cached
          /\ out.fsm.kind = f.kind
        BY <2>1, MovedFields DEF Outcome
    <2> HIDE DEF b
    <2> QED
        BY <1>2, <2>2, <2>3, <2>4
        DEF FinalStep, CachedOK, Awaiting, Lasting, ClientKinds, None
<1>3. CASE f.state = "Proceeding" /\ e = TuResponse("err")
    <2>1. CASE f.reliable
        <3> DEFINE b == <<Send("err"), Arm("H")>>
        <3>1. ServerInvite(f, e) = Outcome(Moved(f, "Completed", "err"), b)
            BY <1>3, <2>1 DEF ServerInvite, Moved, RejectInvite
        <3>2. /\ \A m : Contains(b, Deliver(m)) => FALSE
              /\ \A m : Contains(b, Send(m)) => m \in {"err"}
              /\ \A g : Contains(b, Arm(g)) => g \in {"H"}
              /\ ~Contains(b, Terminated)
            <4>1. \A x : Contains(b, x) <=> x \in {Send("err"), Arm("H")}
                BY Batch2, ActionFacts DEF Classes, TimerIds
            <4> QED
                BY <4>1 DEF Send, Deliver, Arm, Cancel, Terminated
        <3>3. \A k \in DOMAIN b : \A m \in Finals : b[k] = Deliver(m) => k = 1
            BY DEF Send, Deliver, Arm, Cancel, Terminated
        <3>4. /\ out.acts = b
              /\ out.fsm.state = "Completed" /\ out.fsm.cached = "err"
              /\ out.fsm.kind = f.kind
            BY <3>1, MovedFields DEF Outcome
        <3> HIDE DEF b
        <3> QED
            BY <1>3, <2>1, <3>2, <3>3, <3>4
            DEF FinalStep, CachedOK, Awaiting, Lasting, ClientKinds, None
    <2>2. CASE ~f.reliable
        <3> DEFINE b == <<Send("err"), Arm("G"), Arm("H")>>
        <3>1. ServerInvite(f, e) = Outcome(Moved(f, "Completed", "err"), b)
            BY <1>3, <2>2 DEF ServerInvite, Moved, RejectInvite
        <3>2. /\ \A m : Contains(b, Deliver(m)) => FALSE
              /\ \A m : Contains(b, Send(m)) => m \in {"err"}
              /\ \A g : Contains(b, Arm(g)) => g \in {"G", "H"}
              /\ ~Contains(b, Terminated)
            <4>1. \A x : Contains(b, x) <=> x \in {Send("err"), Arm("G"), Arm("H")}
                BY Batch3, ActionFacts DEF Classes, TimerIds
            <4> QED
                BY <4>1 DEF Send, Deliver, Arm, Cancel, Terminated
        <3>3. \A k \in DOMAIN b : \A m \in Finals : b[k] = Deliver(m) => k = 1
            BY DEF Send, Deliver, Arm, Cancel, Terminated
        <3>4. /\ out.acts = b
              /\ out.fsm.state = "Completed" /\ out.fsm.cached = "err"
              /\ out.fsm.kind = f.kind
            BY <3>1, MovedFields DEF Outcome
        <3> HIDE DEF b
        <3> QED
            BY <1>3, <2>2, <3>2, <3>3, <3>4
            DEF FinalStep, CachedOK, Awaiting, Lasting, ClientKinds, None
    <2> QED
        BY <1>3, <2>1, <2>2 DEF GoodMachine, Machine
<1>4. CASE f.state \in {"Proceeding", "Completed"} /\ e = RequestRecv("req")
    <2>1. ServerInvite(f, e) = ReplayCached(f)
        BY <1>4 DEF ServerInvite
    <2> QED
        BY <1>4, <2>1, FinalReplay
<1>5. CASE f.state = "Completed" /\ e = TimerFired("G")
    <2>1. CASE f.cached = None
        <3> DEFINE b == <<>>
        <3>1. ServerInvite(f, e) = Outcome(f, b)
            BY <1>5, <2>1 DEF ServerInvite, Moved
        <3>2. /\ \A m : Contains(b, Deliver(m)) => FALSE
              /\ \A m : Contains(b, Send(m)) => FALSE
              /\ \A g : Contains(b, Arm(g)) => FALSE
              /\ ~Contains(b, Terminated)
            <4>1. \A x : Contains(b, x) <=> x \in {}
                BY Batch0, ActionFacts DEF Classes, TimerIds
            <4> QED
                BY <4>1 DEF Send, Deliver, Arm, Cancel, Terminated
        <3>3. \A k \in DOMAIN b : \A m \in Finals : b[k] = Deliver(m) => k = 1
            BY DEF Send, Deliver, Arm, Cancel, Terminated
        <3>4. /\ out.acts = b
              /\ out.fsm.state = f.state /\ out.fsm.cached = f.cached
              /\ out.fsm.kind = f.kind
            BY <3>1, MovedFields DEF Outcome
        <3> HIDE DEF b
        <3> QED
            BY <1>5, <2>1, <3>2, <3>3, <3>4
            DEF FinalStep, CachedOK, Awaiting, Lasting, ClientKinds, None
    <2>2. CASE f.cached # None
        <3> DEFINE b == <<Send(f.cached), Arm("G")>>
        <3>1. ServerInvite(f, e) = Outcome(f, b)
            BY <1>5, <2>2 DEF ServerInvite, Moved
        <3>2. /\ \A m : Contains(b, Deliver(m)) => FALSE
              /\ \A m : Contains(b, Send(m)) => m \in {f.cached}
              /\ \A g : Contains(b, Arm(g)) => g \in {"G"}
              /\ ~Contains(b, Terminated)
            <4>1. \A x : Contains(b, x) <=> x \in {Send(f.cached), Arm("G")}
                BY Batch2, ActionFacts, <1>5, <2>2, CachedKinds DEF Classes, TimerIds
            <4> QED
                BY <4>1 DEF Send, Deliver, Arm, Cancel, Terminated
        <3>3. \A k \in DOMAIN b : \A m \in Finals : b[k] = Deliver(m) => k = 1
            BY DEF Send, Deliver, Arm, Cancel, Terminated
        <3>4. /\ out.acts = b
              /\ out.fsm.state = f.state /\ out.fsm.cached = f.cached
              /\ out.fsm.kind = f.kind
            BY <3>1, MovedFields DEF Outcome
        <3> HIDE DEF b
        <3> QED
            BY <1>5, <2>2, <3>2, <3>3, <3>4
            DEF FinalStep, CachedOK, Awaiting, Lasting, ClientKinds, None
    <2> QED
        BY <1>5, <2>1, <2>2 DEF GoodMachine, Machine
<1>6. CASE f.state = "Completed" /\ e = RequestRecv("ack")
    <2>1. CASE f.reliable
        <3> DEFINE b == <<Cancel("G"), Cancel("H"), Terminated>>
        <3>1. ServerInvite(f, e) = Outcome(Moved(f, "Terminated", f.cached), b)
            BY <1>6, <2>1, MovedGoto DEF ServerInvite, Moved, AckForNonOk
        <3>2. /\ \A m : Contains(b, Deliver(m)) => FALSE
              /\ \A m : Contains(b, Send(m)) => FALSE
              /\ \A g : Contains(b, Arm(g)) => FALSE
              /\ Contains(b, Terminated)
            <4>1. \A x : Contains(b, x) <=> x \in {Cancel("G"), Cancel("H"), Terminated}
                BY Batch3, ActionFacts DEF Classes, TimerIds
            <4> QED
                BY <4>1 DEF Send, Deliver, Arm, Cancel, Terminated
        <3>3. \A k \in DOMAIN b : \A m \in Finals : b[k] = Deliver(m) => k = 1
            BY DEF Send, Deliver, Arm, Cancel, Terminated
        <3>4. /\ out.acts = b
              /\ out.fsm.state = "Terminated" /\ out.fsm.cached = f.cached
              /\ out.fsm.kind = f.kind
            BY <3>1, MovedFields DEF Outcome
        <3> HIDE DEF b
        <3> QED
            BY <1>6, <2>1, <3>2, <3>3, <3>4
            DEF FinalStep, CachedOK, Awaiting, Lasting, ClientKinds, None
    <2>2. CASE ~f.reliable
        <3> DEFINE b == <<Cancel("G"), Cancel("H"), Arm("I")>>
        <3>1. ServerInvite(f, e) = Outcome(Moved(f, "Confirmed", f.cached), b)
            BY <1>6, <2>2, MovedGoto DEF ServerInvite, Moved, AckForNonOk
        <3>2. /\ \A m : Contains(b, Deliver(m)) => FALSE
              /\ \A m : Contains(b, Send(m)) => FALSE
              /\ \A g : Contains(b, Arm(g)) => g \in {"I"}
              /\ ~Contains(b, Terminated)
            <4>1. \A x : Contains(b, x) <=> x \in {Cancel("G"), Cancel("H"), Arm("I")}
                BY Batch3, ActionFacts DEF Classes, TimerIds
            <4> QED
                BY <4>1 DEF Send, Deliver, Arm, Cancel, Terminated
        <3>3. \A k \in DOMAIN b : \A m \in Finals : b[k] = Deliver(m) => k = 1
            BY DEF Send, Deliver, Arm, Cancel, Terminated
        <3>4. /\ out.acts = b
              /\ out.fsm.state = "Confirmed" /\ out.fsm.cached = f.cached
              /\ out.fsm.kind = f.kind
            BY <3>1, MovedFields DEF Outcome
        <3> HIDE DEF b
        <3> QED
            BY <1>6, <2>2, <3>2, <3>3, <3>4
            DEF FinalStep, CachedOK, Awaiting, Lasting, ClientKinds, None
    <2> QED
        BY <1>6, <2>1, <2>2 DEF GoodMachine, Machine
<1>7. CASE f.state = "Completed" /\ e = TimerFired("H")
    <2> DEFINE b == <<Cancel("G"), Terminated>>
    <2>1. ServerInvite(f, e) = Outcome(Moved(f, "Terminated", f.cached), b)
        BY <1>7, MovedGoto DEF ServerInvite, Moved
    <2>2. /\ \A m : Contains(b, Deliver(m)) => FALSE
          /\ \A m : Contains(b, Send(m)) => FALSE
          /\ \A g : Contains(b, Arm(g)) => FALSE
          /\ Contains(b, Terminated)
        <3>1. \A x : Contains(b, x) <=> x \in {Cancel("G"), Terminated}
            BY Batch2, ActionFacts DEF Classes, TimerIds
        <3> QED
            BY <3>1 DEF Send, Deliver, Arm, Cancel, Terminated
    <2>3. \A k \in DOMAIN b : \A m \in Finals : b[k] = Deliver(m) => k = 1
        BY DEF Send, Deliver, Arm, Cancel, Terminated
    <2>4. /\ out.acts = b
          /\ out.fsm.state = "Terminated" /\ out.fsm.cached = f.cached
          /\ out.fsm.kind = f.kind
        BY <2>1, MovedFields DEF Outcome
    <2> HIDE DEF b
    <2> QED
        BY <1>7, <2>2, <2>3, <2>4
        DEF FinalStep, CachedOK, Awaiting, Lasting, ClientKinds, None
<1>8. CASE f.state = "Confirmed" /\ e = TimerFired("I")
    <2> DEFINE b == <<Terminated>>
    <2>1. ServerInvite(f, e) = Outcome(Moved(f, "Terminated", f.cached), b)
        BY <1>8, MovedGoto DEF ServerInvite, Moved
    <2>2. /\ \A m : Contains(b, Deliver(m)) => FALSE
          /\ \A m : Contains(b, Send(m)) => FALSE
          /\ \A g : Contains(b, Arm(g)) => FALSE
          /\ Contains(b, Terminated)
        <3>1. \A x : Contains(b, x) <=> x \in {Terminated}
            BY Batch1, ActionFacts DEF Classes, TimerIds
        <3> QED
            BY <3>1 DEF Send, Deliver, Arm, Cancel, Terminated
    <2>3. \A k \in DOMAIN b : \A m \in Finals : b[k] = Deliver(m) => k = 1
        BY DEF Send, Deliver, Arm, Cancel, Terminated
    <2>4. /\ out.acts = b
          /\ out.fsm.state = "Terminated" /\ out.fsm.cached = f.cached
          /\ out.fsm.kind = f.kind
        BY <2>1, MovedFields DEF Outcome
    <2> HIDE DEF b
    <2> QED
        BY <1>8, <2>2, <2>3, <2>4
        DEF FinalStep, CachedOK, Awaiting, Lasting, ClientKinds, None
<1>9. CASE ServerInvite(f, e) = Absorb(f)
    BY <1>9, FinalAbsorb
<1> QED
    BY <1>1, <1>2, <1>3, <1>4, <1>5, <1>6, <1>7, <1>8, <1>9
    DEF ServerInvite, GoodMachine, KindStates, Absorb

(* Final responses in the steps of the ServerNonInvite machine. *)
LEMMA ServerNonInviteFinal ==
    ASSUME NEW f, GoodMachine(f), CachedOK(f), f.kind = "SN", NEW e
    PROVE  FinalStep(f, e, ServerNonInvite(f, e))
<1> USE DEF StartClient, ResponseRecv, TuResponse, RequestRecv, TimerFired, Finals, AwaitsFinal,
            TimesOut
<1> DEFINE out == ServerNonInvite(f, e)
<1>1. CASE f.state \in {"Trying", "Proceeding"} /\ e = TuResponse("1xx")
    <2> DEFINE b == <<Send("1xx")>>
    <2>1. ServerNonInvite(f, e) = Outcome(Moved(f, "Proceeding", "1xx"), b)
        BY <1>1 DEF ServerNonInvite, Moved
    <2>2. /\ \A m : Contains(b, Deliver(m)) => FALSE
          /\ \A m : Contains(b, Send(m)) => m \in {"1xx"}
          /\ \A g : Contains(b, Arm(g)) => FALSE
          /\ ~Contains(b, Terminated)
        <3>1. \A x : Contains(b, x) <=> x \in {Send("1xx")}
            BY Batch1, ActionFacts DEF Classes, TimerIds
        <3> QED
            BY <3>1 DEF Send, Deliver, Arm, Cancel, Terminated
    <2>3. \A k \in DOMAIN b : \A m \in Finals : b[k] = Deliver(m) => k = 1
        BY DEF Send, Deliver, Arm, Cancel, Terminated
    <2>4. /\ out.acts = b
          /\ out.fsm.state = "Proceeding" /\ out.fsm.cached = "1xx"
          /\ out.fsm.kind = f.kind
        BY <2>1, MovedFields DEF Outcome
    <2> HIDE DEF b
    <2> QED
        BY <1>1, <2>2, <2>3, <2>4
        DEF FinalStep, CachedOK, Awaiting, Lasting, ClientKinds, None
<1>2. CASE f.state \in {"Trying", "Proceeding"} /\ e.ev = "tu" /\ e.arg \in Finals
    <2>1. CASE f.reliable /\ e.arg = "2xx"
        <3> DEFINE b == <<Send("2xx"), Terminated>>
        <3>1. ServerNonInvite(f, e) = Outcome(Moved(f, "Terminated", "2xx"), b)
            BY <1>2, <2>1 DEF ServerNonInvite, Moved, EmitFinal
        <3>2. /\ \A m : Contains(b, Deliver(m)) => FALSE
              /\ \A m : Contains(b, Send(m)) => m \in {"2xx"}
              /\ \A g : Contains(b, Arm(g)) => FALSE
              /\ Contains(b, Terminated)
            <4>1. \A x : Contains(b, x) <=> x \in {Send("2xx"), Terminated}
                BY Batch2, ActionFacts DEF Classes, TimerIds
            <4> QED
                BY <4>1 DEF Send, Deliver, Arm, Cancel, Terminated
        <3>3. \A k \in DOMAIN b : \A m \in Finals : b[k] = Deliver(m) => k = 1
            BY DEF Send, Deliver, Arm, Cancel, Terminated
        <3>4. /\ out.acts = b
              /\ out.fsm.state = "Terminated" /\ out.fsm.cached = "2xx"
              /\ out.fsm.kind = f.kind
            BY <3>1, MovedFields DEF Outcome
        <3> HIDE DEF b
        <3> QED
            BY <1>2, <2>1, <3>2, <3>3, <3>4
            DEF FinalStep, CachedOK, Awaiting, Lasting, ClientKinds, None
    <2>2. CASE f.reliable /\ e.arg = "err"
        <3> DEFINE b == <<Send("err"), Terminated>>
        <3>1. ServerNonInvite(f, e) = Outcome(Moved(f, "Terminated", "err"), b)
            BY <1>2, <2>2 DEF ServerNonInvite, Moved, EmitFinal
        <3>2. /\ \A m : Contains(b, Deliver(m)) => FALSE
              /\ \A m : Contains(b, Send(m)) => m \in {"err"}
              /\ \A g : Contains(b, Arm(g)) => FALSE
              /\ Contains(b, Terminated)
            <4>1. \A x : Contains(b, x) <=> x \in {Send("err"), Terminated}
                BY Batch2, ActionFacts DEF Classes, TimerIds
            <4> QED
                BY <4>1 DEF Send, Deliver, Arm, Cancel, Terminated
        <3>3. \A k \in DOMAIN b : \A m \in Finals : b[k] = Deliver(m) => k = 1
            BY DEF Send, Deliver, Arm, Cancel, Terminated
        <3>4. /\ out.acts = b
              /\ out.fsm.state = "Terminated" /\ out.fsm.cached = "err"
              /\ out.fsm.kind = f.kind
            BY <3>1, MovedFields DEF Outcome
        <3> HIDE DEF b
        <3> QED
            BY <1>2, <2>2, <3>2, <3>3, <3>4
            DEF FinalStep, CachedOK, Awaiting, Lasting, ClientKinds, None
    <2>3. CASE ~f.reliable /\ e.arg = "2xx"
        <3> DEFINE b == <<Send("2xx"), Arm("J")>>
        <3>1. ServerNonInvite(f, e) = Outcome(Moved(f, "Completed", "2xx"), b)
            BY <1>2, <2>3 DEF ServerNonInvite, Moved, EmitFinal
        <3>2. /\ \A m : Contains(b, Deliver(m)) => FALSE
              /\ \A m : Contains(b, Send(m)) => m \in {"2xx"}
              /\ \A g : Contains(b, Arm(g)) => g \in {"J"}
              /\ ~Contains(b, Terminated)
            <4>1. \A x : Contains(b, x) <=> x \in {Send("2xx"), Arm("J")}
                BY Batch2, ActionFacts DEF Classes, TimerIds
            <4> QED
                BY <4>1 DEF Send, Deliver, Arm, Cancel, Terminated
        <3>3. \A k \in DOMAIN b : \A m \in Finals : b[k] = Deliver(m) => k = 1
            BY DEF Send, Deliver, Arm, Cancel, Terminated
        <3>4. /\ out.acts = b
              /\ out.fsm.state = "Completed" /\ out.fsm.cached = "2xx"
              /\ out.fsm.kind = f.kind
            BY <3>1, MovedFields DEF Outcome
        <3> HIDE DEF b
        <3> QED
            BY <1>2, <2>3, <3>2, <3>3, <3>4
            DEF FinalStep, CachedOK, Awaiting, Lasting, ClientKinds, None
    <2>4. CASE ~f.reliable /\ e.arg = "err"
        <3> DEFINE b == <<Send("err"), Arm("J")>>
        <3>1. ServerNonInvite(f, e) = Outcome(Moved(f, "Completed", "err"), b)
            BY <1>2, <2>4 DEF ServerNonInvite, Moved, EmitFinal
        <3>2. /\ \A m : Contains(b, Deliver(m)) => FALSE
              /\ \A m : Contains(b, Send(m)) => m \in {"err"}
              /\ \A g : Contains(b, Arm(g)) => g \in {"J"}
              /\ ~Contains(b, Terminated)
            <4>1. \A x : Contains(b, x) <=> x \in {Send("err"), Arm("J")}
                BY Batch2, ActionFacts DEF Classes, TimerIds
            <4> QED
                BY <4>1 DEF Send, Deliver, Arm, Cancel, Terminated
        <3>3. \A k \in DOMAIN b : \A m \in Finals : b[k] = Deliver(m) => k = 1
            BY DEF Send, Deliver, Arm, Cancel, Terminated
        <3>4. /\ out.acts = b
              /\ out.fsm.state = "Completed" /\ out.fsm.cached = "err"
              /\ out.fsm.kind = f.kind
            BY <3>1, MovedFields DEF Outcome
        <3> HIDE DEF b
        <3> QED
            BY <1>2, <2>4, <3>2, <3>3, <3>4
            DEF FinalStep, CachedOK, Awaiting, Lasting, ClientKinds, None
    <2> QED
        BY <1>2, <2>1, <2>2, <2>3, <2>4 DEF GoodMachine, Machine
<1>3. CASE f.state \in {"Proceeding", "Completed"} /\ e.ev = "request"
    <2>1. ServerNonInvite(f, e) = ReplayCached(f)
        BY <1>3 DEF ServerNonInvite
    <2> QED
        BY <1>3, <2>1, FinalReplay
<1>4. CASE f.state = "Completed" /\ e = TimerFired("J")
    <2> DEFINE b == <<Terminated>>
    <2>1. ServerNonInvite(f, e) = Outcome(Moved(f, "Terminated", f.cached), b)
        BY <1>4, MovedGoto DEF ServerNonInvite, Moved
    <2>2. /\ \A m : Contains(b, Deliver(m)) => FALSE
          /\ \A m : Contains(b, Send(m)) => FALSE
          /\ \A g : Contains(b, Arm(g)) => FALSE
          /\ Contains(b, Terminated)
        <3>1. \A x : Contains(b, x) <=> x \in {Terminated}
            BY Batch1, ActionFacts DEF Classes, TimerIds
        <3> QED
            BY <3>1 DEF Send, Deliver, Arm, Cancel, Terminated
    <2>3. \A k \in DOMAIN b : \A m \in Finals : b[k] = Deliver(m) => k = 1
        BY DEF Send, Deliver, Arm, Cancel, Terminated
    <2>4. /\ out.acts = b
          /\ out.fsm.state = "Terminated" /\ out.fsm.cached = f.cached
          /\ out.fsm.kind = f.kind
        BY <2>1, MovedFields DEF Outcome
    <2> HIDE DEF b
    <2> QED
        BY <1>4, <2>2, <2>3, <2>4
        DEF FinalStep, CachedOK, Awaiting, Lasting, ClientKinds, None
<1>5. CASE ServerNonInvite(f, e) = Absorb(f)
    BY <1>5, FinalAbsorb
<1> QED
    BY <1>1, <1>2, <1>3, <1>4, <1>5
    DEF ServerNonInvite, GoodMachine, KindStates, Absorb

(* Final responses in the steps of every machine. *)
LEMMA OnEventFinal ==
    ASSUME NEW f, GoodMachine(f), CachedOK(f), NEW e, NEW ackOk \in BOOLEAN
    PROVE  FinalStep(f, e, OnEvent(f, e, ackOk))
<1>1. f.kind \in {"CI", "CN", "SI", "SN"}
    BY DEF GoodMachine, Machine, Kinds, ClientKinds, ServerKinds
<1> QED
    BY <1>1, ClientInviteFinal, ClientNonInviteFinal, ServerInviteFinal, ServerNonInviteFinal
    DEF OnEvent
-----------------------------------------------------------------------------
(* The driver.                                                             *)

InitialState(kind) ==
    CASE kind = "CI" -> "Calling"
      [] kind = "SI" -> "Proceeding"
      [] OTHER       -> "Trying"

(* The table and the machines agree on which entry is live. *)
LifeInv ==
    /\ table <= started
    /\ IsClient => started <= 1
    /\ \A i \in Incs : GoodMachine(fsm[i])
    /\ \A i \in Incs : i > started => fsm[i].state = InitialState(Kind) /\ tuEnds[i] = 0
    /\ \A i \in Incs : i <= started => tuEnds[i] = IF table = i THEN 0 ELSE 1
    /\ \A i \in Incs : i <= started /\ table # i => fsm[i].state = "Terminated"
    /\ \A i \in Incs : token[i] => i <= started /\ table # i

(* Exactly one task will release an ended entry, and outstanding cancels   *)
(* only concern states that were left for good.                            *)
BatchInv ==
    /\ \A th \in Threads : BatchOK(acts[th])
    /\ \A th \in Threads : acts[th] # <<>> => ent[th] <= started
    /\ \A th \in Threads :
           Contains(acts[th], Terminated) =>
               table = ent[th] /\ fsm[ent[th]].state = "Terminated"
    /\ \A th, u \in Threads :
           Contains(acts[th], Terminated) /\ Contains(acts[u], Terminated) => th = u
    /\ \A i \in Incs :
           table = i /\ fsm[i].state = "Terminated" =>
               \E th \in Threads : ent[th] = i /\ Contains(acts[th], Terminated)
    /\ \A th \in Threads : \A g \in TimerIds :
           Contains(acts[th], Cancel(g)) => CancelOK(fsm[ent[th]].state, g)

(* A stored handle names a task that was armed under its id by its entry;  *)
(* only a task that is executing a batch has one.                          *)
TimerInv ==
    /\ \A i \in Incs, id \in TimerIds, s \in Slots :
           handles[i][id] = s => tmr[s].st # "free" /\ tmr[s].id = id /\ tmr[s].inc = i
    /\ \A s \in Slots : tmr[s].st # "exec" => acts[s] = <<>>
    /\ \A s \in Slots : tmr[s].st = "found" => ent[s] <= started

IInv ==
    /\ TypeOK
    /\ LifeInv
    /\ BatchInv
    /\ TimerInv
    /\ GuardianPending
    /\ GaugeExact

-----------------------------------------------------------------------------
(* Executing the first action of a batch leaves a batch. *)
LEMMA PopFacts ==
    ASSUME NEW b, BatchOK(b), b # <<>>
    PROVE  /\ BatchOK(Tail(b))
           /\ Head(b) \in ActionSet
           /\ \A x : Contains(Tail(b), x) => Contains(b, x)
           /\ \A x : Contains(b, x) => x = Head(b) \/ Contains(Tail(b), x)
           /\ Contains(b, Head(b))
           /\ Head(b) = Terminated => Tail(b) = <<>>
<1>1. b \in Seq(ActionSet) /\ Len(b) \in Nat /\ Len(b) >= 1 /\ DOMAIN b = 1 .. Len(b)
    BY DEF BatchOK
<1>2. Tail(b) \in Seq(ActionSet) /\ Len(Tail(b)) = Len(b) - 1 /\ Head(b) = b[1]
      /\ DOMAIN Tail(b) = 1 .. (Len(b) - 1)
      /\ \A k \in 1 .. (Len(b) - 1) : Tail(b)[k] = b[k + 1]
    BY <1>1
<1>3. BatchOK(Tail(b))
    BY <1>1, <1>2 DEF BatchOK
<1>4. Head(b) \in ActionSet /\ Contains(b, Head(b))
    BY <1>1, <1>2 DEF Contains
<1>5. \A x : Contains(Tail(b), x) => Contains(b, x)
    BY <1>1, <1>2 DEF Contains
<1>6. \A x : Contains(b, x) => x = Head(b) \/ Contains(Tail(b), x)
    <2> SUFFICES ASSUME NEW x, NEW k \in 1 .. Len(b), b[k] = x, k # 1
                 PROVE  Contains(Tail(b), x)
        BY <1>1, <1>2 DEF Contains
    <2>1. k - 1 \in 1 .. (Len(b) - 1) /\ Tail(b)[k - 1] = x
        BY <1>1, <1>2
    <2> QED
        BY <1>2, <2>1 DEF Contains
<1>7. Head(b) = Terminated => Tail(b) = <<>>
    BY <1>1, <1>2 DEF BatchOK
<1> QED
    BY <1>3, <1>4, <1>5, <1>6, <1>7

(* An absorbed event leaves an empty batch. *)
LEMMA EmptyFacts == BatchOK(<<>>) /\ \A x : ~Contains(<<>>, x)
BY Batch0

(* The invariant holds of a fresh driver. *)
LEMMA InitInv == Init => IInv
<1> SUFFICES ASSUME Init PROVE IInv
    OBVIOUS
<1>0. 1 \in Incs
    BY MaxIncAssumption DEF Incs
<1>1. PICK kind \in Kinds, reliable \in BOOLEAN : fsm = [i \in Incs |-> NewMachine(kind, reliable)]
    BY DEF Init
<1>2. \A i \in Incs : GoodMachine(fsm[i]) /\ fsm[i].kind = kind /\ fsm[i].state = InitialState(kind)
    BY <1>1 DEF NewMachine, GoodMachine, Machine, KindStates, States, Kinds, ClientKinds, ServerKinds,
       InitialState
<1>3. Kind = kind
    BY <1>0, <1>2 DEF Kind
<1>4. TypeOK
    <2>1. fsm \in [Incs -> Machine]
        BY <1>1, <1>2 DEF GoodMachine
    <2>2. Free \in TimerTask
        BY <1>0 DEF Free, TimerTask, TimerIds
    <2>3. acts \in [Threads -> Seq(ActionSet)]
        BY EmptyFacts DEF Init, BatchOK
    <2>4. /\ table \in {0} \cup Incs /\ started \in {0} \cup Incs /\ token \in [Incs -> BOOLEAN]
          /\ handles \in [Incs -> [TimerIds -> Slots \cup {None}]]
          /\ tmr \in [Slots -> TimerTask] /\ ent \in [Threads -> Incs]
        BY <1>0, <2>2 DEF Init
    <2>5. /\ sent \in [Incs -> SUBSET Messages]
          /\ tuFinals \in [Incs -> Nat] /\ tuEnds \in [Incs -> Nat] /\ gauge \in Nat
        BY DEF Init
    <2>6. rx \in Seq(Responses) /\ lphase \in {"off", "live", "absorb", "exit"} /\ inputs \in Nat
        BY DEF Init
    <2>7. sub \in BOOLEAN /\ got2xx \in BOOLEAN /\ acked \in BOOLEAN
        BY Zenon DEF Init
    <2> QED
        BY <1>2, <1>3, <2>1, <2>3, <2>4, <2>5, <2>6, <2>7 DEF TypeOK
<1>5. LifeInv
    <2>1. started = 0 /\ table = 0 /\ \A i \in Incs : tuEnds[i] = 0 /\ ~(i <= started)
        BY MaxIncAssumption DEF Init, Incs
    <2>2. \A i \in Incs : ~token[i]
        BY DEF Init
    <2> QED
        BY <1>2, <1>3, <2>1, <2>2 DEF LifeInv
<1>6. BatchInv
    BY EmptyFacts DEF Init, BatchInv, Incs
<1>7. TimerInv
    BY SlotsAssumption DEF Init, TimerInv, Free, Threads
<1>8. GuardianPending /\ GaugeExact
    BY DEF Init, GuardianPending, GaugeExact, Incs
<1> QED
    BY <1>4, <1>5, <1>6, <1>7, <1>8 DEF IInv

-----------------------------------------------------------------------------
(* Feeding an event to a registered machine keeps the table, the machines  *)
(* and the batches consistent.                                             *)
LEMMA FeedInv ==
    ASSUME IInv, NEW th \in Threads, NEW i \in Incs, i <= started, NEW e, Feed(th, i, e),
           UNCHANGED <<table, started, token, tuEnds>>
    PROVE  /\ fsm' \in [Incs -> Machine] /\ Kind' = Kind
           /\ \A j \in Incs : fsm'[j].kind = Kind
           /\ acts' \in [Threads -> Seq(ActionSet)] /\ ent' \in [Threads -> Incs]
           /\ LifeInv' /\ BatchInv'
<1>0. TypeOK /\ LifeInv /\ BatchInv /\ acts[th] = <<>> /\ 1 \in Incs
    BY MaxIncAssumption DEF IInv, Feed, Idle, Incs
<1> DEFINE Out(ackOk) == OnEvent(fsm[i], e, ackOk)
<1>1. PICK ackOk \in BOOLEAN : /\ fsm' = [fsm EXCEPT ![i] = Out(ackOk).fsm]
                               /\ acts' = [acts EXCEPT ![th] = Out(ackOk).acts]
    BY DEF Feed
<1> DEFINE f == fsm[i]
           out == Out(ackOk)
<1>2. GoodMachine(f) /\ GoodStep(f, out)
    BY <1>0, OnEventStep DEF LifeInv
<1> HIDE DEF Out
<1>3. ent' = [ent EXCEPT ![th] = i]
    BY DEF Feed
<1>4. \A j \in Incs : fsm'[j] = IF j = i THEN out.fsm ELSE fsm[j]
    BY <1>0, <1>1 DEF TypeOK
<1>5. \A u \in Threads : /\ acts'[u] = IF u = th THEN out.acts ELSE acts[u]
                         /\ ent'[u] = IF u = th THEN i ELSE ent[u]
    BY <1>0, <1>1, <1>3 DEF TypeOK
<1>6. /\ GoodMachine(out.fsm) /\ out.fsm.kind = f.kind /\ out.fsm \in Machine
      /\ BatchOK(out.acts) /\ out.acts \in Seq(ActionSet)
      /\ Contains(out.acts, Terminated) <=> f.state # "Terminated" /\ out.fsm.state = "Terminated"
      /\ f.state = "Terminated" => out.fsm.state = "Terminated"
      /\ \A g \in TimerIds : Contains(out.acts, Cancel(g)) => CancelOK(out.fsm.state, g)
      /\ \A g \in TimerIds : CancelOK(f.state, g) => CancelOK(out.fsm.state, g)
    BY <1>2 DEF GoodStep, GoodMachine, BatchOK
<1>7. fsm' \in [Incs -> Machine] /\ acts' \in [Threads -> Seq(ActionSet)] /\ ent' \in [Threads -> Incs]
    BY <1>0, <1>1, <1>3, <1>6 DEF TypeOK
<1>8. Kind' = Kind /\ \A j \in Incs : fsm'[j].kind = Kind
    BY <1>0, <1>4, <1>6 DEF TypeOK, Kind
<1>9. LifeInv'
    <2>1. \A j \in Incs : GoodMachine(fsm'[j])
        BY <1>0, <1>4, <1>6 DEF LifeInv
    <2>2. IsClient' = IsClient
        BY <1>8 DEF IsClient
    <2>3. \A j \in Incs : j > started => fsm'[j] = fsm[j]
        BY <1>0, <1>4 DEF TypeOK, Incs
    <2>4. \A j \in Incs : j <= started /\ table # j => fsm'[j].state = "Terminated"
        BY <1>0, <1>4, <1>6 DEF LifeInv
    <2> QED
        BY <1>0, <1>8, <2>1, <2>2, <2>3, <2>4 DEF LifeInv
<1>10. BatchInv'
    <2>1. \A u \in Threads : BatchOK(acts'[u])
        BY <1>0, <1>5, <1>6 DEF BatchInv
    <2>2. \A u \in Threads : acts'[u] # <<>> => ent'[u] <= started
        BY <1>0, <1>5 DEF BatchInv
    <2>3. f.state # "Terminated" => table = i
        BY <1>0 DEF LifeInv
    <2>4. ASSUME NEW u \in Threads, Contains(acts'[u], Terminated)
          PROVE  table = ent'[u] /\ fsm'[ent'[u]].state = "Terminated"
        <3>1. CASE u = th
            BY <1>4, <1>5, <1>6, <2>3, <2>4, <3>1
        <3>2. CASE u # th
            <4>1. acts'[u] = acts[u] /\ ent'[u] = ent[u] /\ ent[u] \in Incs
                BY <1>0, <1>5, <3>2 DEF TypeOK
            <4>2. table = ent[u] /\ fsm[ent[u]].state = "Terminated"
                BY <1>0, <2>4, <4>1 DEF BatchInv
            <4> QED
                BY <1>4, <1>6, <4>1, <4>2
        <3> QED
            BY <3>1, <3>2
    <2>5. \A u \in Threads : Contains(acts[u], Terminated) => u # th
        BY <1>0, EmptyFacts
    <2>6. ASSUME NEW u \in Threads, NEW v \in Threads,
                 Contains(acts'[u], Terminated), Contains(acts'[v], Terminated)
          PROVE  u = v
        <3>1. CASE u # th /\ v # th
            BY <1>0, <1>5, <2>6, <3>1 DEF BatchInv
        <3>2. ASSUME Contains(out.acts, Terminated), NEW w \in Threads, Contains(acts[w], Terminated)
              PROVE  FALSE
            BY <1>0, <1>6, <2>3, <3>2 DEF BatchInv
        <3> QED
            BY <1>5, <2>6, <3>1, <3>2
    <2>7. ASSUME NEW j \in Incs, table = j, fsm'[j].state = "Terminated"
          PROVE  \E u \in Threads : ent'[u] = j /\ Contains(acts'[u], Terminated)
        <3>1. CASE fsm[j].state = "Terminated"
            <4>1. PICK u \in Threads : ent[u] = j /\ Contains(acts[u], Terminated)
                BY <1>0, <2>7, <3>1 DEF BatchInv
            <4> QED
                BY <1>5, <2>5, <4>1
        <3>2. CASE fsm[j].state # "Terminated"
            BY <1>4, <1>5, <1>6, <2>7, <3>2
        <3> QED
            BY <3>1, <3>2
    <2>8. \A u \in Threads : \A g \in TimerIds :
              Contains(acts'[u], Cancel(g)) => CancelOK(fsm'[ent'[u]].state, g)
        <3>1. ASSUME NEW u \in Threads, NEW g \in TimerIds, Contains(acts'[u], Cancel(g)), u # th
              PROVE  CancelOK(fsm'[ent'[u]].state, g)
            <4>1. acts'[u] = acts[u] /\ ent'[u] = ent[u] /\ ent[u] \in Incs
                BY <1>0, <1>5, <3>1 DEF TypeOK
            <4>2. CancelOK(fsm[ent[u]].state, g)
                BY <1>0, <3>1, <4>1 DEF BatchInv
            <4> QED
                BY <1>4, <1>6, <4>1, <4>2
        <3> QED
            BY <1>4, <1>5, <1>6, <3>1
    <2> QED
        BY <2>1, <2>2, <2>4, <2>6, <2>7, <2>8 DEF BatchInv
<1> QED
    BY <1>7, <1>8, <1>9, <1>10

(* A guardian is a timer, and an ended machine has none. *)
LEMMA GuardianFacts ==
    ASSUME NEW f
    PROVE  /\ Guardian(f) \in TimerIds \cup {None}
           /\ f.state = "Terminated" => Guardian(f) = None
           /\ None \notin TimerIds
BY DEF Guardian, GuardianOf, TimerIds, None

(* Feeding an event keeps the guardian of the live entry pending, provided *)
(* no timer task is lost but the one that fires.                           *)
LEMMA FeedGuardian ==
    ASSUME IInv, NEW th \in Threads, NEW i \in Incs, NEW e, Feed(th, i, e), UNCHANGED table,
           \A s \in Slots, j \in Incs, id \in TimerIds :
               TaskFor(s, j, id) => TaskFor(s, j, id)' \/ (j = i /\ e = TimerFired(id))
    PROVE  GuardianPending'
<1>0. TypeOK /\ LifeInv /\ GuardianPending /\ acts[th] = <<>>
    BY DEF IInv, Feed, Idle
<1> DEFINE Out(ackOk) == OnEvent(fsm[i], e, ackOk)
<1>1. PICK ackOk \in BOOLEAN : /\ fsm' = [fsm EXCEPT ![i] = Out(ackOk).fsm]
                               /\ acts' = [acts EXCEPT ![th] = Out(ackOk).acts]
    BY DEF Feed
<1> DEFINE f == fsm[i]
           out == Out(ackOk)
<1>2. GoodMachine(f) /\ GoodStep(f, out)
    BY <1>0, OnEventStep DEF LifeInv
<1>3. ent' = [ent EXCEPT ![th] = i]
    BY DEF Feed
<1>4. ASSUME Guardian(f) # None, e = TimerFired(Guardian(f))
      PROVE  Guardian(out.fsm) = None
    BY <1>2, <1>4, GuardianEnds, GuardianFacts
<1> HIDE DEF Out
<1>5. \A j \in Incs : fsm'[j] = IF j = i THEN out.fsm ELSE fsm[j]
    BY <1>0, <1>1 DEF TypeOK
<1>6. \A u \in Threads : /\ acts'[u] = IF u = th THEN out.acts ELSE acts[u]
                         /\ ent'[u] = IF u = th THEN i ELSE ent[u]
    BY <1>0, <1>1, <1>3 DEF TypeOK
<1>7. Guardian(out.fsm) \notin {None, Guardian(f)} => Contains(out.acts, Arm(Guardian(out.fsm)))
    BY <1>2 DEF GoodStep
<1> SUFFICES ASSUME NEW j \in Incs, table' = j, NEW g, g = Guardian(fsm'[j]), g # None
             PROVE  Pending(j, g)'
    BY DEF GuardianPending
<1>8. g \in TimerIds
    BY GuardianFacts
<1>9. CASE j = i /\ g # Guardian(f)
    <2>1. Contains(acts'[th], Arm(g)) /\ ent'[th] = j
        BY <1>5, <1>6, <1>7, <1>9
    <2> QED
        BY <2>1 DEF Pending
<1>10. CASE ~(j = i /\ g # Guardian(f))
    <2>1. g = Guardian(fsm[j]) /\ ~(j = i /\ e = TimerFired(g))
        BY <1>4, <1>5, <1>10
    <2>2. Pending(j, g)
        BY <1>0, <2>1 DEF GuardianPending
    <2>3. CASE \E s \in Slots : TaskFor(s, j, g)
        BY <1>8, <2>1, <2>3 DEF Pending
    <2>4. CASE \E u \in Threads : ent[u] = j /\ Contains(acts[u], Arm(g))
        <3>1. PICK u \in Threads : ent[u] = j /\ Contains(acts[u], Arm(g))
            BY <2>4
        <3>2. u # th
            BY <1>0, <3>1, EmptyFacts
        <3>3. ent'[u] = j /\ Contains(acts'[u], Arm(g))
            BY <1>6, <3>1, <3>2
        <3> QED
            BY <3>3 DEF Pending
    <2> QED
        BY <2>2, <2>3, <2>4 DEF Pending
<1> QED
    BY <1>9, <1>10

-----------------------------------------------------------------------------
(* Steps that leave machines, timers and batches alone. *)
LEMMA QuietInv ==
    ASSUME IInv, UNCHANGED <<fsmVars, timerVars, batchVars, tuEnds, gauge>>
    PROVE  LifeInv' /\ BatchInv' /\ TimerInv' /\ GuardianPending' /\ GaugeExact'
<1> USE DEF IInv, fsmVars, timerVars, batchVars
<1>1. LifeInv'
    BY DEF LifeInv, IsClient, Kind
<1>2. BatchInv'
    BY DEF BatchInv
<1>3. TimerInv'
    BY DEF TimerInv
<1>4. GuardianPending'
    BY DEF GuardianPending, Pending, TaskFor
<1>5. GaugeExact'
    BY DEF GaugeExact, IsClient, Kind
<1> QED
    BY <1>1, <1>2, <1>3, <1>4, <1>5

(* A response queued at the listener preserves the invariant. *)
LEMMA PeerRespondsInv == IInv /\ PeerResponds => IInv'
<1> SUFFICES ASSUME IInv, PeerResponds PROVE IInv'
    OBVIOUS
<1>1. PICK m \in Responses : rx' = Append(rx, m)
    BY DEF PeerResponds
<1>2. rx' \in Seq(Responses) /\ inputs' \in Nat
    BY <1>1 DEF IInv, TypeOK, PeerResponds, UseInput
<1>3. TypeOK'
    BY <1>2 DEF IInv, TypeOK, PeerResponds, fsmVars, timerVars, batchVars, outVars, Kind
<1> QED
    BY <1>3, QuietInv DEF PeerResponds, outVars, IInv

(* The listener leaving its live phase preserves the invariant. *)
LEMMA ListenerCancelledInv == IInv /\ ListenerCancelled => IInv'
<1> SUFFICES ASSUME IInv, ListenerCancelled PROVE IInv'
    OBVIOUS
<1>1. lphase' \in {"off", "live", "absorb", "exit"}
    BY DEF ListenerCancelled, ListenerExit
<1>2. acked' \in BOOLEAN /\ sub' \in BOOLEAN
    <2>1. acked \in BOOLEAN /\ sub \in BOOLEAN
        BY Zenon DEF IInv, TypeOK
    <2>2. (acked' = FALSE /\ sub' = FALSE) \/ (acked' = acked /\ sub' = sub)
        BY DEF ListenerCancelled, ListenerExit
    <2> QED
        BY <2>1, <2>2, Zenon
<1>3. TypeOK'
    BY <1>1, <1>2 DEF IInv, TypeOK, ListenerCancelled, fsmVars, timerVars, batchVars, outVars, Kind
<1> QED
    BY <1>3, QuietInv DEF ListenerCancelled, outVars, IInv

(* Adding a message to a send queue keeps its type. *)
LEMMA SentType ==
    ASSUME sent \in [Incs -> SUBSET Messages], NEW i \in Incs, NEW m \in Messages,
           sent' = [sent EXCEPT ![i] = @ \cup {m}]
    PROVE  sent' \in [Incs -> SUBSET Messages]
<1>1. sent[i] \cup {m} \in SUBSET Messages
    OBVIOUS
<1> DEFINE new == sent[i] \cup {m}
<1>2. new \in SUBSET Messages /\ sent' = [sent EXCEPT ![i] = new]
    BY <1>1
<1> HIDE DEF new
<1> QED
    BY <1>2

(* A re-ACK in the 2xx window preserves the invariant. *)
LEMMA AbsorbRecvInv == IInv /\ AbsorbRecv => IInv'
<1> SUFFICES ASSUME IInv, AbsorbRecv PROVE IInv'
    OBVIOUS
<1>1. rx' \in Seq(Responses)
    BY DEF AbsorbRecv, IInv, TypeOK
<1>2. sent' \in [Incs -> SUBSET Messages]
    <2>1. sent' = [sent EXCEPT ![1] = @ \cup {"ack2xx"}] \/ sent' = sent
        BY DEF AbsorbRecv
    <2>2. sent \in [Incs -> SUBSET Messages] /\ 1 \in Incs /\ "ack2xx" \in Messages
        BY MaxIncAssumption DEF IInv, TypeOK, Messages, Incs
    <2> QED
        BY <2>1, <2>2, SentType
<1>3. TypeOK'
    BY <1>1, <1>2 DEF IInv, TypeOK, AbsorbRecv, fsmVars, timerVars, batchVars, Kind
<1> QED
    BY <1>3, QuietInv DEF AbsorbRecv, IInv

(* The end of the 2xx window preserves the invariant. *)
LEMMA WindowClosesInv == IInv /\ WindowCloses => IInv'
<1> SUFFICES ASSUME IInv, WindowCloses PROVE IInv'
    OBVIOUS
<1>1. acked' \in BOOLEAN /\ sub' \in BOOLEAN
    BY Zenon DEF WindowCloses, ListenerExit
<1>2. lphase' \in {"off", "live", "absorb", "exit"}
    BY DEF WindowCloses, ListenerExit
<1>3. TypeOK'
    BY <1>1, <1>2 DEF IInv, TypeOK, WindowCloses, fsmVars, timerVars, batchVars, outVars, Kind
<1> QED
    BY <1>3, QuietInv DEF WindowCloses, outVars, IInv

(* Registering the ACK of a 2xx preserves the invariant. *)
LEMMA TuRegistersAckInv == IInv /\ TuRegistersAck => IInv'
<1> SUFFICES ASSUME IInv, TuRegistersAck PROVE IInv'
    OBVIOUS
<1>1. acked' \in BOOLEAN
    BY Zenon DEF TuRegistersAck
<1>2. sent' \in [Incs -> SUBSET Messages]
    <2>1. sent \in [Incs -> SUBSET Messages] /\ 1 \in Incs /\ "ack2xx" \in Messages
        BY MaxIncAssumption DEF IInv, TypeOK, Messages, Incs
    <2> QED
        BY <2>1, SentType DEF TuRegistersAck
<1>3. TypeOK'
    BY <1>1, <1>2 DEF IInv, TypeOK, TuRegistersAck, fsmVars, timerVars, batchVars, Kind
<1> QED
    BY <1>3, QuietInv DEF TuRegistersAck, IInv

-----------------------------------------------------------------------------
(* An event fed by the TU, the ingress loop or the listener. *)
LEMMA RoleFeedInv ==
    ASSUME IInv, NEW th \in Roles, table # 0, NEW e, Feed(th, table, e),
           UNCHANGED <<table, started, token, tuEnds, gauge, timerVars>>
    PROVE  /\ fsm' \in [Incs -> Machine] /\ Kind' = Kind
           /\ \A j \in Incs : fsm'[j].kind = Kind
           /\ acts' \in [Threads -> Seq(ActionSet)] /\ ent' \in [Threads -> Incs]
           /\ LifeInv' /\ BatchInv' /\ TimerInv' /\ GuardianPending' /\ GaugeExact'
<1>0. /\ TypeOK /\ LifeInv /\ TimerInv /\ GaugeExact
      /\ th \in Threads /\ th \notin Slots /\ table \in Incs /\ table <= started
      /\ UNCHANGED <<handles, tmr>>
    BY SlotsAssumption DEF IInv, TypeOK, LifeInv, Threads, timerVars
<1>1. /\ fsm' \in [Incs -> Machine] /\ Kind' = Kind
      /\ \A j \in Incs : fsm'[j].kind = Kind
      /\ acts' \in [Threads -> Seq(ActionSet)] /\ ent' \in [Threads -> Incs]
      /\ LifeInv' /\ BatchInv'
    BY <1>0, FeedInv
<1>2. \A s \in Slots : acts'[s] = acts[s] /\ ent'[s] = ent[s]
    BY <1>0 DEF Feed, TypeOK, Threads
<1>3. TimerInv'
    BY <1>0, <1>2 DEF TimerInv
<1>4. GuardianPending'
    <2>1. \A s \in Slots, j \in Incs, id \in TimerIds : TaskFor(s, j, id) => TaskFor(s, j, id)'
        BY <1>0, <1>2 DEF TaskFor
    <2> QED
        BY <1>0, <2>1, FeedGuardian
<1>5. GaugeExact'
    BY <1>0, <1>1 DEF GaugeExact, IsClient
<1> QED
    BY <1>1, <1>3, <1>4, <1>5

(* send_response preserves the invariant. *)
LEMMA TuSendsInv == IInv /\ TuSends => IInv'
<1> SUFFICES ASSUME IInv, TuSends PROVE IInv'
    OBVIOUS
<1>1. PICK m : Feed("tu", table, TuResponse(m))
    BY DEF TuSends
<1>2. /\ fsm' \in [Incs -> Machine] /\ Kind' = Kind
      /\ \A j \in Incs : fsm'[j].kind = Kind
      /\ acts' \in [Threads -> Seq(ActionSet)] /\ ent' \in [Threads -> Incs]
      /\ LifeInv' /\ BatchInv' /\ TimerInv' /\ GuardianPending' /\ GaugeExact'
    BY <1>1, RoleFeedInv DEF TuSends, outVars, Roles
<1>3. TypeOK'
    BY <1>2 DEF IInv, TypeOK, TuSends, UseInput, timerVars, outVars, lisVars
<1> QED
    BY <1>2, <1>3 DEF IInv

(* A retransmitted request preserves the invariant. *)
LEMMA PeerRetransmitsInv == IInv /\ PeerRetransmits => IInv'
<1> SUFFICES ASSUME IInv, PeerRetransmits PROVE IInv'
    OBVIOUS
<1>1. /\ fsm' \in [Incs -> Machine] /\ Kind' = Kind
      /\ \A j \in Incs : fsm'[j].kind = Kind
      /\ acts' \in [Threads -> Seq(ActionSet)] /\ ent' \in [Threads -> Incs]
      /\ LifeInv' /\ BatchInv' /\ TimerInv' /\ GuardianPending' /\ GaugeExact'
    BY RoleFeedInv DEF PeerRetransmits, outVars, Roles
<1>2. TypeOK'
    BY <1>1 DEF IInv, TypeOK, PeerRetransmits, UseInput, timerVars, outVars, lisVars
<1> QED
    BY <1>1, <1>2 DEF IInv

(* The ACK of a non-2xx final preserves the invariant. *)
LEMMA PeerAcksInv == IInv /\ PeerAcks => IInv'
<1> SUFFICES ASSUME IInv, PeerAcks PROVE IInv'
    OBVIOUS
<1>1. /\ fsm' \in [Incs -> Machine] /\ Kind' = Kind
      /\ \A j \in Incs : fsm'[j].kind = Kind
      /\ acts' \in [Threads -> Seq(ActionSet)] /\ ent' \in [Threads -> Incs]
      /\ LifeInv' /\ BatchInv' /\ TimerInv' /\ GuardianPending' /\ GaugeExact'
    BY RoleFeedInv DEF PeerAcks, outVars, Roles
<1>2. TypeOK'
    BY <1>1 DEF IInv, TypeOK, PeerAcks, UseInput, timerVars, outVars, lisVars
<1> QED
    BY <1>1, <1>2 DEF IInv

(* deliver_response by the listener preserves the invariant. *)
LEMMA ListenerRecvInv == IInv /\ ListenerRecv => IInv'
<1> SUFFICES ASSUME IInv, ListenerRecv PROVE IInv'
    OBVIOUS
<1>1. rx' \in Seq(Responses)
    BY DEF ListenerRecv, IInv, TypeOK
<1>2. CASE Head(rx) # "cseq" /\ table # 0
    <2>1. /\ fsm' \in [Incs -> Machine] /\ Kind' = Kind
          /\ \A j \in Incs : fsm'[j].kind = Kind
          /\ acts' \in [Threads -> Seq(ActionSet)] /\ ent' \in [Threads -> Incs]
          /\ LifeInv' /\ BatchInv' /\ TimerInv' /\ GuardianPending' /\ GaugeExact'
        BY <1>2, RoleFeedInv DEF ListenerRecv, outVars, Roles
    <2>2. TypeOK'
        BY <1>1, <2>1 DEF IInv, TypeOK, ListenerRecv, timerVars, outVars
    <2> QED
        BY <2>1, <2>2 DEF IInv
<1>3. CASE ~(Head(rx) # "cseq" /\ table # 0)
    <2>1. UNCHANGED <<fsmVars, timerVars, batchVars, outVars>>
        BY <1>3 DEF ListenerRecv, fsmVars
    <2>2. TypeOK'
        BY <1>1, <2>1 DEF IInv, TypeOK, ListenerRecv, fsmVars, timerVars, batchVars, outVars, Kind
    <2> QED
        BY <2>1, <2>2, QuietInv DEF outVars, IInv
<1> QED
    BY <1>2, <1>3

-----------------------------------------------------------------------------
(* Registering a transaction. *)
LEMMA StartClientTxnInv == IInv /\ StartClientTxn => IInv'
<1> SUFFICES ASSUME IInv, StartClientTxn PROVE IInv'
    OBVIOUS
<1>0. /\ TypeOK /\ LifeInv /\ BatchInv /\ TimerInv /\ GaugeExact
      /\ IsClient /\ started = 0 /\ started' = 1 /\ table' = 1
      /\ 1 \in Incs /\ "tu" \in Threads /\ "tu" \notin Slots /\ acts["tu"] = <<>>
      /\ UNCHANGED <<token, handles, tmr, sent, tuFinals, tuEnds, gauge, rx, got2xx, acked, inputs>>
    BY MaxIncAssumption, SlotsAssumption
       DEF IInv, StartClientTxn, Feed, Idle, Incs, Threads, Roles, timerVars, outVars
<1>1. PICK ackOk \in BOOLEAN :
          /\ fsm' = [fsm EXCEPT ![1] = OnEvent(fsm[1], StartClient, ackOk).fsm]
          /\ acts' = [acts EXCEPT !["tu"] = OnEvent(fsm[1], StartClient, ackOk).acts]
    BY DEF StartClientTxn, Feed
<1> DEFINE batch == OnEvent(fsm[1], StartClient, ackOk).acts
<1>2. /\ GoodMachine(fsm[1]) /\ fsm[1].state = InitialState(Kind)
      /\ GoodStep(fsm[1], OnEvent(fsm[1], StartClient, ackOk))
    BY <1>0, OnEventStep DEF LifeInv
<1>3. \/ fsm[1].kind = "CI" /\ fsm[1].state = "Calling"
      \/ fsm[1].kind = "CN" /\ fsm[1].state = "Trying"
    <2>1. Kind = fsm[1].kind /\ Kind \in {"CI", "CN"}
        BY <1>0 DEF IsClient, Kind, ClientKinds
    <2>2. InitialState("CI") = "Calling" /\ InitialState("CN") = "Trying"
        BY DEF InitialState
    <2>3. CASE Kind = "CI"
        BY <1>2, <2>1, <2>2, <2>3
    <2>4. CASE Kind = "CN"
        BY <1>2, <2>1, <2>2, <2>4
    <2> QED
        BY <2>1, <2>3, <2>4
<1>4. OnEvent(fsm[1], StartClient, ackOk).fsm = fsm[1] /\ Contains(batch, Arm(Guardian(fsm[1])))
    BY <1>2, <1>3, StartArms
<1>5. /\ BatchOK(batch) /\ ~Contains(batch, Terminated)
      /\ \A g \in TimerIds : Contains(batch, Cancel(g)) => CancelOK(fsm[1].state, g)
    BY <1>2, <1>3, <1>4 DEF GoodStep
<1> HIDE DEF batch
<1>6. fsm' = fsm /\ acts' = [acts EXCEPT !["tu"] = batch] /\ ent' = [ent EXCEPT !["tu"] = 1]
    BY <1>0, <1>1, <1>4, ZenonT(60) DEF TypeOK, batch, StartClientTxn, Feed
<1>7. /\ \A u \in Threads : acts[u] = <<>>
      /\ acts'["tu"] = batch /\ ent'["tu"] = 1
      /\ \A u \in Threads : u # "tu" => acts'[u] = <<>> /\ ent'[u] = ent[u]
    <2>1. \A u \in Threads : acts[u] = <<>>
        BY <1>0 DEF BatchInv, TypeOK, Incs
    <2> QED
        BY <1>0, <1>6, <2>1 DEF TypeOK
<1>8. TypeOK'
    <2>1. sub' \in BOOLEAN
        BY Zenon DEF StartClientTxn
    <2>2. acts' \in [Threads -> Seq(ActionSet)] /\ ent' \in [Threads -> Incs]
        BY <1>0, <1>5, <1>6 DEF TypeOK, BatchOK
    <2>3. lphase' \in {"off", "live", "absorb", "exit"} /\ started' \in {0} \cup Incs
          /\ table' \in {0} \cup Incs
        BY <1>0 DEF StartClientTxn
    <2> QED
        BY <1>0, <1>6, <2>1, <2>2, <2>3 DEF TypeOK, Kind
<1>9. Kind' = Kind /\ IsClient'
    BY <1>0, <1>6 DEF Kind, IsClient
<1>10. LifeInv'
    <2>1. \A i \in Incs : tuEnds[i] = 0 /\ (i <= 1 => i = 1) /\ i > 0
        BY <1>0 DEF LifeInv, Incs
    <2> QED
        BY <1>0, <1>6, <1>9, <2>1 DEF LifeInv
<1>11. BatchInv'
    <2>1. \A u \in Threads : ~Contains(acts'[u], Terminated) /\ BatchOK(acts'[u])
        BY <1>0, <1>5, <1>7, EmptyFacts
    <2>2. \A u \in Threads : acts'[u] # <<>> => ent'[u] = 1
        BY <1>7
    <2>3. \A u \in Threads : \A g \in TimerIds :
              Contains(acts'[u], Cancel(g)) => CancelOK(fsm'[ent'[u]].state, g)
        BY <1>5, <1>6, <1>7, EmptyFacts
    <2>4. fsm'[1].state # "Terminated"
        BY <1>3, <1>6
    <2> QED
        BY <1>0, <2>1, <2>2, <2>3, <2>4 DEF BatchInv
<1>12. TimerInv'
    <2>1. \A s \in Slots : acts'[s] = <<>> /\ ent'[s] = ent[s]
        BY <1>0, <1>7 DEF Threads
    <2>2. \A s \in Slots : ent[s] <= 0 => ent[s] <= 1
        BY <1>0 DEF TypeOK, Incs, Threads
    <2> QED
        BY <1>0, <2>1, <2>2 DEF TimerInv
<1>13. GuardianPending'
    BY <1>0, <1>4, <1>6, <1>7 DEF GuardianPending, Pending
<1>14. GaugeExact'
    BY <1>0, <1>9 DEF GaugeExact
<1> QED
    BY <1>8, <1>10, <1>11, <1>12, <1>13, <1>14 DEF IInv

(* A fresh server entry has no timer to wait for and raises the gauge by one. *)
LEMMA StartServerTxnInv == IInv /\ StartServerTxn => IInv'
<1> SUFFICES ASSUME IInv, StartServerTxn PROVE IInv'
    OBVIOUS
<1> DEFINE n == started + 1
<1>0. /\ TypeOK /\ LifeInv /\ BatchInv /\ TimerInv /\ GaugeExact
      /\ ~IsClient /\ table = 0 /\ started' = n /\ table' = n /\ gauge' = gauge + 1
      /\ UNCHANGED <<fsm, token, handles, tmr, acts, ent, sent, tuFinals, tuEnds, rx, sub, lphase,
                     got2xx, acked, inputs>>
    BY DEF IInv, StartServerTxn, timerVars, batchVars, lisVars
<1>1. n \in Incs /\ started \in Nat /\ 0 \notin Incs
    BY <1>0, MaxIncAssumption DEF StartServerTxn, TypeOK, Incs
<1>2. gauge = 0 /\ Kind' = Kind /\ ~IsClient'
    BY <1>0 DEF GaugeExact, IsClient, Kind
<1>3. TypeOK'
    BY <1>0, <1>1, <1>2 DEF TypeOK
<1>4. LifeInv'
    <2>1. tuEnds[n] = 0 /\ \A i \in Incs : i <= started => i # n
        BY <1>0, <1>1 DEF LifeInv, Incs
    <2>2. \A i \in Incs : i <= n => i <= started \/ i = n
        BY <1>1 DEF Incs
    <2>3. \A i \in Incs : i > n => i > started
        BY <1>1 DEF Incs
    <2>4. \A i \in Incs : i # table
        BY <1>0, <1>1
    <2>5. \A i \in Incs : token[i] => i <= n /\ n # i
        BY <1>0, <1>1 DEF LifeInv, Incs
    <2> QED
        BY <1>0, <1>1, <1>2, <2>1, <2>2, <2>3, <2>4, <2>5 DEF LifeInv
<1>5. fsm[n].state = InitialState(Kind) /\ fsm[n].kind \in {"SI", "SN"} /\ Kind = fsm[n].kind
    BY <1>0, <1>1, SMTT(30) DEF LifeInv, TypeOK, Machine, IsClient, Kinds, ClientKinds, ServerKinds, Incs
<1>6. fsm[n].state \in {"Proceeding", "Trying"} /\ Guardian(fsm[n]) = None
    BY <1>5 DEF InitialState, Guardian, GuardianOf
<1>7. BatchInv'
    <2>1. \A u \in Threads : ~Contains(acts[u], Terminated)
        BY <1>0, <1>1 DEF BatchInv, TypeOK
    <2>2. \A u \in Threads : ent[u] <= started => ent[u] <= n
        BY <1>0, <1>1 DEF TypeOK, Incs
    <2> QED
        BY <1>0, <1>6, <2>1, <2>2 DEF BatchInv
<1>8. TimerInv'
    <2>1. \A s \in Slots : ent[s] <= started => ent[s] <= n
        BY <1>0, <1>1 DEF TypeOK, Incs, Threads
    <2> QED
        BY <1>0, <2>1 DEF TimerInv
<1>9. GuardianPending'
    BY <1>0, <1>6 DEF GuardianPending
<1>10. GaugeExact'
    BY <1>0, <1>1, <1>2 DEF GaugeExact
<1> QED
    BY <1>3, <1>4, <1>7, <1>8, <1>9, <1>10 DEF IInv

-----------------------------------------------------------------------------
(* Timer tasks. *)

(* A step of timer task s alone: the rest of the invariant follows from    *)
(* what becomes of the task and of the handles.                            *)
LEMMA TimerStepInv ==
    ASSUME IInv, NEW s \in Slots, NEW task \in TimerTask, tmr[s].st # "free",
           tmr' = [tmr EXCEPT ![s] = task],
           UNCHANGED <<fsmVars, acts, outVars, lisVars>>,
           inputs' \in Nat, ent' \in [Threads -> Incs],
           \A u \in Threads : u # s => ent'[u] = ent[u],
           acts[s] = <<>>,
           task.st = "found" => ent'[s] <= started,
           handles' \in [Incs -> [TimerIds -> Slots \cup {None}]],
           \A i \in Incs, id \in TimerIds, u \in Slots :
               handles'[i][id] = u => handles[i][id] = u,
           \A i \in Incs, id \in TimerIds :
               handles'[i][id] = s => task.st # "free" /\ task.id = tmr[s].id /\ task.inc = tmr[s].inc,
           \A i \in Incs, id \in TimerIds : table = i /\ TaskFor(s, i, id) => TaskFor(s, i, id)'
    PROVE  IInv'
<1>0. /\ TypeOK /\ LifeInv /\ BatchInv /\ TimerInv /\ GuardianPending /\ GaugeExact
      /\ UNCHANGED <<fsm, table, started, token, acts, sent, tuFinals, tuEnds, gauge,
                     rx, sub, lphase, got2xx, acked>>
      /\ s \in Threads
    BY DEF IInv, fsmVars, outVars, lisVars, Threads
<1>1. \A u \in Slots : tmr'[u] = IF u = s THEN task ELSE tmr[u]
    BY <1>0 DEF TypeOK
<1>2. TypeOK'
    <2>1. tmr' \in [Slots -> TimerTask]
        BY <1>0 DEF TypeOK
    <2> QED
        BY <1>0, <2>1 DEF TypeOK, Kind
<1>3. LifeInv'
    BY <1>0 DEF LifeInv, IsClient, Kind
<1>4. \A u \in Threads : acts[u] # <<>> => ent'[u] = ent[u]
    BY <1>0
<1>5. BatchInv'
    <2>1. \A u \in Threads : \A x : Contains(acts[u], x) => ent'[u] = ent[u]
        BY <1>4, EmptyFacts
    <2>2. \A i \in Incs : table = i /\ fsm[i].state = "Terminated" =>
               \E th \in Threads : ent'[th] = i /\ Contains(acts[th], Terminated)
        BY <1>0, <2>1, ZenonT(60) DEF BatchInv
    <2>3. \A th \in Threads : \A g \in TimerIds :
              Contains(acts[th], Cancel(g)) => CancelOK(fsm[ent'[th]].state, g)
        BY <1>0, <2>1 DEF BatchInv
    <2>4. \A th \in Threads : Contains(acts[th], Terminated) =>
              table = ent'[th] /\ fsm[ent'[th]].state = "Terminated"
        BY <1>0, <2>1 DEF BatchInv
    <2>5. \A th \in Threads : BatchOK(acts[th]) /\ (acts[th] # <<>> => ent'[th] <= started)
        BY <1>0, <1>4 DEF BatchInv
    <2>6. \A th, u \in Threads :
              Contains(acts[th], Terminated) /\ Contains(acts[u], Terminated) => th = u
        BY <1>0 DEF BatchInv
    <2> QED
        BY <1>0, <2>2, <2>3, <2>4, <2>5, <2>6 DEF BatchInv
<1>6. TimerInv'
    <2>1. ASSUME NEW i \in Incs, NEW id \in TimerIds, NEW u \in Slots, handles'[i][id] = u
          PROVE  tmr'[u].st # "free" /\ tmr'[u].id = id /\ tmr'[u].inc = i
        <3>0. handles[i][id] = u
            BY <2>1
        <3>1. tmr[u].st # "free" /\ tmr[u].id = id /\ tmr[u].inc = i
            BY <1>0, <3>0 DEF TimerInv
        <3>2. CASE u = s
            BY <1>1, <2>1, <3>1, <3>2
        <3>3. CASE u # s
            BY <1>1, <3>1, <3>3
        <3> QED
            BY <3>2, <3>3
    <2>2. \A u \in Slots : tmr'[u].st # "exec" => acts'[u] = <<>>
        BY <1>0, <1>1 DEF TimerInv
    <2>3. \A u \in Slots : tmr'[u].st = "found" => ent'[u] <= started'
        BY <1>0, <1>1 DEF TimerInv, Threads
    <2> QED
        BY <2>1, <2>2, <2>3 DEF TimerInv
<1>7. GuardianPending'
    <2> SUFFICES ASSUME NEW i \in Incs, table = i, NEW g, g = Guardian(fsm[i]), g # None
                 PROVE  Pending(i, g)'
        BY <1>0 DEF GuardianPending
    <2>1. Pending(i, g) /\ g \in TimerIds
        BY <1>0, GuardianFacts DEF GuardianPending
    <2>2. ASSUME NEW u \in Slots, TaskFor(u, i, g) PROVE TaskFor(u, i, g)'
        <3>1. CASE u = s
            BY <2>1, <2>2, <3>1
        <3>2. CASE u # s
            BY <1>1, <2>2, <3>2 DEF TaskFor, Threads
        <3> QED
            BY <3>1, <3>2
    <2>3. ASSUME NEW u \in Threads, ent[u] = i, Contains(acts[u], Arm(g))
          PROVE  ent'[u] = i /\ Contains(acts'[u], Arm(g))
        BY <1>0, <1>4, <2>3, EmptyFacts
    <2> QED
        BY <2>1, <2>2, <2>3 DEF Pending
<1>8. GaugeExact'
    BY <1>0 DEF GaugeExact, IsClient, Kind
<1> QED
    BY <1>2, <1>3, <1>5, <1>6, <1>7, <1>8 DEF IInv

(* Forgetting the handles of a task that is gone. *)
LEMMA ForgetFacts ==
    ASSUME NEW s \in Slots, handles \in [Incs -> [TimerIds -> Slots \cup {None}]],
           handles' = Forget(handles, s)
    PROVE  /\ handles' \in [Incs -> [TimerIds -> Slots \cup {None}]]
           /\ \A i \in Incs, id \in TimerIds, u \in Slots :
                  handles'[i][id] = u => handles[i][id] = u
           /\ \A i \in Incs, id \in TimerIds : handles'[i][id] # s
<1>1. None \notin Slots
    BY SlotsAssumption
<1> QED
    BY <1>1 DEF Forget

(* What a timer task may rely on. *)
LEMMA TimerFacts ==
    ASSUME IInv, NEW s \in Slots
    PROVE  /\ tmr[s] \in TimerTask /\ Free \in TimerTask
           /\ tmr[s].st # "exec" => acts[s] = <<>>
           /\ handles \in [Incs -> [TimerIds -> Slots \cup {None}]]
           /\ ent \in [Threads -> Incs] /\ inputs \in Nat
<1>1. Free \in TimerTask
    BY MaxIncAssumption DEF Free, TimerTask, TimerIds, Incs
<1>2. tmr[s].st # "exec" => acts[s] = <<>>
    BY DEF IInv, TimerInv
<1> QED
    BY <1>1, <1>2 DEF IInv, TypeOK

(* A task that goes away while it does not guard the live entry. *)
LEMMA TimerGoneInv ==
    ASSUME IInv, NEW s \in Slots, tmr[s].st # "free", acts[s] = <<>>,
           tmr' = [tmr EXCEPT ![s] = Free], handles' = Forget(handles, s),
           UNCHANGED <<fsmVars, batchVars, outVars, lisVars, inputs>>,
           \A i \in Incs, id \in TimerIds : ~(table = i /\ TaskFor(s, i, id))
    PROVE  IInv'
<1>1. /\ Free \in TimerTask /\ Free.st = "free" /\ inputs' \in Nat
      /\ ent' \in [Threads -> Incs] /\ \A u \in Threads : u # s => ent'[u] = ent[u]
      /\ UNCHANGED <<fsmVars, acts, outVars, lisVars>>
    BY TimerFacts DEF batchVars, Free
<1>2. /\ handles' \in [Incs -> [TimerIds -> Slots \cup {None}]]
      /\ \A i \in Incs, id \in TimerIds, u \in Slots :
             handles'[i][id] = u => handles[i][id] = u
      /\ \A i \in Incs, id \in TimerIds : handles'[i][id] # s
    BY TimerFacts, ForgetFacts
<1> DEFINE task == Free
<1>3. task \in TimerTask /\ tmr' = [tmr EXCEPT ![s] = task] /\ task.st # "found"
    BY <1>1
<1>4. \A i \in Incs, id \in TimerIds :
          handles'[i][id] = s => task.st # "free" /\ task.id = tmr[s].id /\ task.inc = tmr[s].inc
    BY <1>2
<1>5. \A i \in Incs, id \in TimerIds : table = i /\ TaskFor(s, i, id) => TaskFor(s, i, id)'
    OBVIOUS
<1> HIDE DEF task
<1> QED
    BY <1>1, <1>2, <1>3, <1>4, <1>5, TimerStepInv

(* An expiring task is still there to fire. *)
LEMMA TimerExpiresInv == \A s \in Slots : IInv /\ TimerExpires(s) => IInv'
<1> SUFFICES ASSUME NEW s \in Slots, IInv, TimerExpires(s) PROVE IInv'
    OBVIOUS
<1> DEFINE task == [tmr[s] EXCEPT !.st = "fired"]
<1>1. tmr[s] \in TimerTask /\ tmr[s].st = "sleep" /\ acts[s] = <<>>
    BY TimerFacts DEF TimerExpires
<1>2. /\ task \in TimerTask /\ tmr' = [tmr EXCEPT ![s] = task] /\ task.st = "fired"
      /\ task.id = tmr[s].id /\ task.inc = tmr[s].inc
    BY <1>1 DEF TimerExpires, TimerTask
<1>3. inputs' \in Nat /\ handles' = handles /\ ent' = ent /\ UNCHANGED <<fsmVars, acts, outVars, lisVars>>
    BY TimerFacts DEF TimerExpires, UseInput, batchVars
<1>4. \A i \in Incs, id \in TimerIds : TaskFor(s, i, id) => TaskFor(s, i, id)'
    BY <1>1, <1>2, <1>3 DEF TaskFor, IInv, TypeOK
<1> HIDE DEF task
<1> QED
    BY <1>1, <1>2, <1>3, <1>4, TimerStepInv, TimerFacts

(* A task whose token was flipped was armed by an entry already released. *)
LEMMA TimerBowsOutInv == \A s \in Slots : IInv /\ TimerBowsOut(s) => IInv'
<1> SUFFICES ASSUME NEW s \in Slots, IInv, TimerBowsOut(s) PROVE IInv'
    OBVIOUS
<1>1. tmr[s] \in TimerTask /\ tmr[s].st = "sleep" /\ acts[s] = <<>>
    BY TimerFacts DEF TimerBowsOut
<1>2. token[tmr[s].inc] /\ tmr[s].inc \in Incs
    BY <1>1 DEF TimerBowsOut, TimerTask
<1>3. \A i \in Incs, id \in TimerIds : ~(table = i /\ TaskFor(s, i, id))
    BY <1>1, <1>2 DEF TaskFor, IInv, LifeInv
<1> QED
    BY <1>1, <1>3, TimerGoneInv DEF TimerBowsOut

(* A task that executed its batch guards nothing. *)
LEMMA TimerDoneInv == \A s \in Slots : IInv /\ TimerDone(s) => IInv'
<1> SUFFICES ASSUME NEW s \in Slots, IInv, TimerDone(s) PROVE IInv'
    OBVIOUS
<1>1. tmr[s].st = "exec" /\ acts[s] = <<>>
    BY DEF TimerDone, Idle
<1>2. \A i \in Incs, id \in TimerIds : ~TaskFor(s, i, id)
    BY <1>1 DEF TaskFor
<1> QED
    BY <1>1, <1>2, TimerGoneInv DEF TimerDone

(* fire_timer keeps the task for the entry it finds, or finds none. *)
LEMMA FireTimerInv == \A s \in Slots : IInv /\ FireTimer(s) => IInv'
<1> SUFFICES ASSUME NEW s \in Slots, IInv, FireTimer(s) PROVE IInv'
    OBVIOUS
<1>0. table \in {0} \cup Incs /\ 0 \notin Incs /\ table <= started
    BY DEF IInv, TypeOK, LifeInv, Incs
<1>1. tmr[s].st = "fired" /\ tmr[s] \in TimerTask /\ Free \in TimerTask /\ acts[s] = <<>>
    BY TimerFacts DEF FireTimer
<1>2. inputs' = inputs /\ UNCHANGED <<fsmVars, acts, outVars, lisVars>>
    BY DEF FireTimer
<1>3. CASE table = 0
    <2>1. tmr' = [tmr EXCEPT ![s] = Free] /\ handles' = Forget(handles, s) /\ ent' = ent
        BY <1>3 DEF FireTimer
    <2>2. \A i \in Incs, id \in TimerIds : ~(table = i /\ TaskFor(s, i, id))
        BY <1>0, <1>3
    <2> QED
        BY <1>1, <1>2, <2>1, <2>2, TimerGoneInv DEF batchVars
<1>4. CASE table # 0
    <2> DEFINE task == [tmr[s] EXCEPT !.st = "found"]
    <2>1. /\ tmr' = [tmr EXCEPT ![s] = task]
          /\ task \in TimerTask /\ task.st = "found" /\ task.id = tmr[s].id /\ task.inc = tmr[s].inc
        BY <1>1, <1>4 DEF FireTimer, TimerTask
    <2>2. ent' = [ent EXCEPT ![s] = table] /\ table \in Incs
        BY <1>0, <1>4 DEF FireTimer
    <2>3. /\ ent' \in [Threads -> Incs] /\ ent'[s] = table
          /\ \A u \in Threads : u # s => ent'[u] = ent[u]
        BY <2>2, TimerFacts DEF Threads
    <2>4. /\ handles' \in [Incs -> [TimerIds -> Slots \cup {None}]]
          /\ \A i \in Incs, id \in TimerIds, u \in Slots :
                 handles'[i][id] = u => handles[i][id] = u
        <3>1. handles' = [handles EXCEPT ![table][tmr[s].id] = None] /\ None \notin Slots
            BY <1>4, SlotsAssumption DEF FireTimer
        <3> QED
            BY <1>1, <2>2, <3>1, TimerFacts DEF TimerTask
    <2>5. \A i \in Incs, id \in TimerIds : table = i /\ TaskFor(s, i, id) => TaskFor(s, i, id)'
        <3>1. tmr'[s] = task
            BY <2>1 DEF IInv, TypeOK
        <3> QED
            BY <1>1, <2>1, <2>3, <3>1 DEF TaskFor
    <2> HIDE DEF task
    <2>6. inputs' \in Nat /\ acts[s] = <<>> /\ tmr[s].st # "free"
        BY <1>1, <1>2, TimerFacts
    <2> QED
        BY <1>0, <1>2, <2>1, <2>3, <2>4, <2>5, <2>6, TimerStepInv
<1> QED
    BY <1>3, <1>4

(* A guardian that fires ends the state it guards. *)
LEMMA FireFeedsInv == \A s \in Slots : IInv /\ FireFeeds(s) => IInv'
<1> SUFFICES ASSUME NEW s \in Slots, IInv, FireFeeds(s) PROVE IInv'
    OBVIOUS
<1>0. /\ TypeOK /\ TimerInv /\ GaugeExact
      /\ UNCHANGED <<table, started, token, handles, sent, tuFinals, tuEnds, gauge,
                     rx, sub, lphase, got2xx, acked, inputs>>
      /\ s \in Threads /\ tmr[s].st = "found" /\ Feed(s, ent[s], TimerFired(tmr[s].id))
    BY DEF IInv, FireFeeds, outVars, lisVars, Threads
<1>1. tmr[s] \in TimerTask /\ ent[s] \in Incs /\ ent[s] <= started
    BY <1>0 DEF TypeOK, TimerInv
<1> DEFINE task == [tmr[s] EXCEPT !.st = "exec"]
<1>2. /\ tmr' = [tmr EXCEPT ![s] = task] /\ task \in TimerTask
      /\ task.st = "exec" /\ task.id = tmr[s].id /\ task.inc = tmr[s].inc
    BY <1>1 DEF FireFeeds, TimerTask
<1> HIDE DEF task
<1>3. \A u \in Slots : tmr'[u] = IF u = s THEN task ELSE tmr[u]
    BY <1>0, <1>2 DEF TypeOK
<1>4. \A u \in Threads : u # s => acts'[u] = acts[u] /\ ent'[u] = ent[u]
    BY <1>0 DEF Feed, TypeOK
<1>5. /\ fsm' \in [Incs -> Machine] /\ Kind' = Kind
      /\ \A j \in Incs : fsm'[j].kind = Kind
      /\ acts' \in [Threads -> Seq(ActionSet)] /\ ent' \in [Threads -> Incs]
      /\ LifeInv' /\ BatchInv'
    BY <1>0, <1>1, FeedInv
<1>6. TypeOK'
    <2>1. tmr' \in [Slots -> TimerTask]
        BY <1>0, <1>2 DEF TypeOK
    <2> QED
        BY <1>0, <1>5, <2>1 DEF TypeOK
<1>7. TimerInv'
    <2>1. \A i \in Incs, id \in TimerIds, u \in Slots :
              handles'[i][id] = u => tmr'[u].st # "free" /\ tmr'[u].id = id /\ tmr'[u].inc = i
        BY <1>0, <1>2, <1>3 DEF TimerInv
    <2>2. \A u \in Slots : tmr'[u].st # "exec" => acts'[u] = <<>>
        BY <1>0, <1>2, <1>3, <1>4 DEF TimerInv, Threads
    <2>3. \A u \in Slots : tmr'[u].st = "found" => ent'[u] <= started'
        BY <1>0, <1>2, <1>3, <1>4 DEF TimerInv, Threads
    <2> QED
        BY <2>1, <2>2, <2>3 DEF TimerInv
<1>8. GuardianPending'
    <2>1. \A u \in Slots, j \in Incs, id \in TimerIds :
              TaskFor(u, j, id) => TaskFor(u, j, id)' \/ (j = ent[s] /\ TimerFired(tmr[s].id) = TimerFired(id))
        BY <1>0, <1>3, <1>4 DEF TaskFor, Threads
    <2> QED
        BY <1>0, <1>1, <2>1, FeedGuardian
<1>9. GaugeExact'
    BY <1>0, <1>5 DEF GaugeExact, IsClient
<1> QED
    BY <1>5, <1>6, <1>7, <1>8, <1>9 DEF IInv

-----------------------------------------------------------------------------
(* Executing a batch. *)

(* The action a task is about to execute, read back from its tag. *)
LEMMA HeadFacts ==
    ASSUME IInv, NEW th \in Threads, acts[th] # <<>>
    PROVE  /\ Head(acts[th]) \in ActionSet /\ BatchOK(acts[th])
           /\ Head(acts[th]).do = "send" => Arg(th) \in Messages
           /\ Head(acts[th]).do = "arm" => Arg(th) \in TimerIds /\ Head(acts[th]) = Arm(Arg(th))
           /\ Head(acts[th]).do = "cancel" => Arg(th) \in TimerIds /\ Head(acts[th]) = Cancel(Arg(th))
           /\ Head(acts[th]).do = "terminated" => Head(acts[th]) = Terminated
           /\ Head(acts[th]).do # "terminated" => Head(acts[th]) # Terminated
           /\ Head(acts[th]).do # "arm" => \A id : Head(acts[th]) # Arm(id)
<1>1. BatchOK(acts[th])
    BY DEF IInv, BatchInv
<1>2. Head(acts[th]) \in ActionSet
    BY <1>1, PopFacts
<1> QED
    BY <1>1, <1>2 DEF ActionSet, Arm, Cancel, Terminated, Arg, Messages

(* Executing any action but Terminated keeps the machines and the batches  *)
(* consistent.                                                             *)
LEMMA PopInv ==
    ASSUME IInv, NEW th \in Threads, acts[th] # <<>>, Head(acts[th]) # Terminated, Pop(th),
           UNCHANGED <<fsm, table, started, token, ent, tuEnds>>
    PROVE  /\ acts' \in [Threads -> Seq(ActionSet)]
           /\ LifeInv' /\ BatchInv'
           /\ \A s \in Slots : acts[s] = <<>> => acts'[s] = <<>>
           /\ \A u \in Threads : \A x :
                  Contains(acts[u], x) => Contains(acts'[u], x) \/ (u = th /\ x = Head(acts[th]))
<1>0. TypeOK /\ LifeInv /\ BatchInv /\ BatchOK(acts[th])
    BY DEF IInv, BatchInv
<1>1. /\ BatchOK(Tail(acts[th]))
      /\ \A x : Contains(Tail(acts[th]), x) => Contains(acts[th], x)
      /\ \A x : Contains(acts[th], x) => x = Head(acts[th]) \/ Contains(Tail(acts[th]), x)
    BY <1>0, PopFacts
<1>2. \A u \in Threads : acts'[u] = IF u = th THEN Tail(acts[th]) ELSE acts[u]
    BY <1>0 DEF Pop, TypeOK
<1>3. acts' \in [Threads -> Seq(ActionSet)]
    BY <1>0, <1>1 DEF Pop, TypeOK, BatchOK
<1>4. \A u \in Threads : \A x :
          Contains(acts[u], x) => Contains(acts'[u], x) \/ (u = th /\ x = Head(acts[th]))
    BY <1>1, <1>2
<1>5. \A u \in Threads : \A x : Contains(acts'[u], x) => Contains(acts[u], x)
    BY <1>1, <1>2
<1>6. \A u \in Threads : (acts'[u] # <<>> => acts[u] # <<>>) /\ BatchOK(acts'[u])
    BY <1>0, <1>1, <1>2 DEF BatchInv
<1>7. LifeInv'
    BY <1>0 DEF LifeInv, IsClient, Kind
<1>8. BatchInv'
    <2>1. \A u \in Threads : BatchOK(acts'[u]) /\ (acts'[u] # <<>> => ent[u] <= started)
        BY <1>0, <1>6 DEF BatchInv
    <2>2. \A u \in Threads : Contains(acts'[u], Terminated) =>
              table = ent[u] /\ fsm[ent[u]].state = "Terminated"
        BY <1>0, <1>5 DEF BatchInv
    <2>3. \A u, v \in Threads :
              Contains(acts'[u], Terminated) /\ Contains(acts'[v], Terminated) => u = v
        BY <1>0, <1>5 DEF BatchInv
    <2>4. ASSUME NEW i \in Incs, table = i, fsm[i].state = "Terminated"
          PROVE  \E u \in Threads : ent[u] = i /\ Contains(acts'[u], Terminated)
        BY <1>0, <1>4, <2>4 DEF BatchInv
    <2>5. \A u \in Threads : \A g \in TimerIds :
              Contains(acts'[u], Cancel(g)) => CancelOK(fsm[ent[u]].state, g)
        BY <1>0, <1>5 DEF BatchInv
    <2> QED
        BY <2>1, <2>2, <2>3, <2>4, <2>5 DEF BatchInv
<1>9. \A s \in Slots : acts[s] = <<>> => acts'[s] = <<>>
    BY <1>6 DEF Threads
<1> QED
    BY <1>3, <1>4, <1>7, <1>8, <1>9

(* Executing an action that touches no timer. *)
LEMMA PopQuietInv ==
    ASSUME IInv, NEW th \in Threads, acts[th] # <<>>, Pop(th),
           Head(acts[th]).do \in {"send", "deliver"},
           UNCHANGED <<fsm, table, started, token, ent, tuEnds, gauge, handles, tmr>>
    PROVE  /\ acts' \in [Threads -> Seq(ActionSet)]
           /\ LifeInv' /\ BatchInv' /\ TimerInv' /\ GuardianPending' /\ GaugeExact'
<1>0. TypeOK /\ TimerInv /\ GuardianPending /\ GaugeExact
    BY DEF IInv
<1>1. Head(acts[th]) # Terminated /\ \A id : Head(acts[th]) # Arm(id)
    BY HeadFacts
<1>2. /\ acts' \in [Threads -> Seq(ActionSet)] /\ LifeInv' /\ BatchInv'
      /\ \A s \in Slots : acts[s] = <<>> => acts'[s] = <<>>
      /\ \A u \in Threads : \A x :
             Contains(acts[u], x) => Contains(acts'[u], x) \/ (u = th /\ x = Head(acts[th]))
    BY <1>1, PopInv
<1>3. TimerInv'
    BY <1>0, <1>2 DEF TimerInv
<1>4. GuardianPending'
    <2> SUFFICES ASSUME NEW i \in Incs, table = i, NEW g, g = Guardian(fsm[i]), g # None
                 PROVE  Pending(i, g)'
        BY DEF GuardianPending
    <2>1. Pending(i, g)
        BY <1>0 DEF GuardianPending
    <2>2. \A u \in Slots : TaskFor(u, i, g) => TaskFor(u, i, g)'
        BY DEF TaskFor
    <2>3. \A u \in Threads : Contains(acts[u], Arm(g)) => Contains(acts'[u], Arm(g))
        BY <1>1, <1>2
    <2> QED
        BY <2>1, <2>2, <2>3 DEF Pending
<1>5. GaugeExact'
    BY <1>0 DEF GaugeExact, IsClient, Kind
<1> QED
    BY <1>2, <1>3, <1>4, <1>5

(* Sending preserves the invariant. *)
LEMMA ExecSendInv == \A th \in Threads : IInv /\ ExecSend(th) => IInv'
<1> SUFFICES ASSUME NEW th \in Threads, IInv, ExecSend(th) PROVE IInv'
    OBVIOUS
<1>1. /\ acts[th] # <<>> /\ Head(acts[th]).do = "send" /\ Pop(th)
      /\ UNCHANGED <<fsm, table, started, token, ent, tuFinals, tuEnds, gauge, handles, tmr,
                     rx, sub, lphase, got2xx, acked, inputs>>
    BY DEF ExecSend, NextIs, fsmVars, timerVars, lisVars
<1>2. /\ acts' \in [Threads -> Seq(ActionSet)]
      /\ LifeInv' /\ BatchInv' /\ TimerInv' /\ GuardianPending' /\ GaugeExact'
    BY <1>1, PopQuietInv
<1>3. sent' \in [Incs -> SUBSET Messages]
    <2>1. Arg(th) \in Messages /\ ent[th] \in Incs /\ sent \in [Incs -> SUBSET Messages]
        BY <1>1, HeadFacts DEF IInv, TypeOK
    <2> QED
        BY <2>1, SentType DEF ExecSend
<1>4. TypeOK'
    BY <1>1, <1>2, <1>3 DEF IInv, TypeOK, Kind
<1> QED
    BY <1>2, <1>4 DEF IInv

(* Delivering to the TU preserves the invariant. *)
LEMMA ExecDeliverInv == \A th \in Threads : IInv /\ ExecDeliver(th) => IInv'
<1> SUFFICES ASSUME NEW th \in Threads, IInv, ExecDeliver(th) PROVE IInv'
    OBVIOUS
<1>1. /\ acts[th] # <<>> /\ Head(acts[th]).do = "deliver" /\ Pop(th)
      /\ UNCHANGED <<fsm, table, started, token, ent, sent, tuEnds, gauge, handles, tmr,
                     rx, sub, lphase, acked, inputs>>
    BY DEF ExecDeliver, NextIs, fsmVars, timerVars
<1>2. /\ acts' \in [Threads -> Seq(ActionSet)]
      /\ LifeInv' /\ BatchInv' /\ TimerInv' /\ GuardianPending' /\ GaugeExact'
    BY <1>1, PopQuietInv
<1>3. tuFinals' \in [Incs -> Nat]
    BY DEF ExecDeliver, IInv, TypeOK
<1>4. got2xx' \in BOOLEAN
    BY DEF ExecDeliver
<1>5. TypeOK'
    BY <1>1, <1>2, <1>3, <1>4 DEF IInv, TypeOK, Kind
<1> QED
    BY <1>2, <1>5 DEF IInv

(* A timer with an outstanding cancel guards nothing. *)
LEMMA CancelSpares ==
    ASSUME NEW f, GoodMachine(f), NEW g \in TimerIds, CancelOK(f.state, g)
    PROVE  Guardian(f) # g
BY DEF GoodMachine, Machine, KindStates, Kinds, ClientKinds, ServerKinds, CancelOK, Guardian,
       GuardianOf, None, TimerIds

(* Aborting the task a handle names stops that sleeping task and no other. *)
LEMMA AbortFacts ==
    ASSUME IInv, NEW i \in Incs, NEW id \in TimerIds, NEW old, old = handles[i][id]
    PROVE  /\ Abort(tmr, old) \in [Slots -> TimerTask]
           /\ old \in Slots => tmr[old].st # "free" /\ tmr[old].id = id /\ tmr[old].inc = i
           /\ \A s \in Slots : Abort(tmr, old)[s] =
                  IF s = old /\ tmr[s].st = "sleep" THEN Free ELSE tmr[s]
<1>1. tmr \in [Slots -> TimerTask] /\ Free \in TimerTask
    <2>1. Free \in TimerTask
        BY MaxIncAssumption DEF Free, TimerTask, TimerIds, Incs
    <2> QED
        BY <2>1 DEF IInv, TypeOK
<1>2. old \in Slots => tmr[old].st # "free" /\ tmr[old].id = id /\ tmr[old].inc = i
    BY DEF IInv, TimerInv
<1> QED
    BY <1>1, <1>2 DEF Abort

(* Arming replaces a task by one for the same entry and timer. *)
LEMMA ExecArmInv == \A th \in Threads : IInv /\ ExecArm(th) => IInv'
<1> SUFFICES ASSUME NEW th \in Threads, IInv, ExecArm(th) PROVE IInv'
    OBVIOUS
<1> DEFINE i == ent[th]
           id == Arg(th)
           old == handles[i][id]
           new == [st |-> "sleep", id |-> id, inc |-> i]
<1>0. /\ TypeOK /\ LifeInv /\ BatchInv /\ TimerInv /\ GuardianPending /\ GaugeExact
      /\ acts[th] # <<>> /\ Pop(th)
      /\ UNCHANGED <<fsm, table, started, token, ent, sent, tuFinals, tuEnds, gauge,
                     rx, sub, lphase, got2xx, acked, inputs>>
    BY DEF IInv, ExecArm, NextIs, fsmVars, outVars, lisVars
<1>1. /\ i \in Incs /\ id \in TimerIds
      /\ Head(acts[th]) = Arm(id) /\ Head(acts[th]) # Terminated
    BY <1>0, HeadFacts DEF ExecArm, NextIs, TypeOK
<1>2. PICK s \in FreeSlots : /\ tmr' = [Abort(tmr, old) EXCEPT ![s] = new]
                             /\ handles' = [handles EXCEPT ![i][id] = s]
    BY DEF ExecArm
<1>3. s \in Slots /\ tmr[s].st = "free" /\ acts[s] = <<>>
    BY <1>0, <1>2 DEF FreeSlots, TimerInv
<1>4. /\ Abort(tmr, old) \in [Slots -> TimerTask]
      /\ old \in Slots => tmr[old].st # "free" /\ tmr[old].id = id /\ tmr[old].inc = i
      /\ \A u \in Slots : Abort(tmr, old)[u] =
             IF u = old /\ tmr[u].st = "sleep" THEN Free ELSE tmr[u]
    BY <1>1, AbortFacts
<1>5. new \in TimerTask /\ new.st = "sleep" /\ new.id = id /\ new.inc = i
    BY <1>1 DEF TimerTask
<1>6. /\ acts' \in [Threads -> Seq(ActionSet)] /\ LifeInv' /\ BatchInv'
      /\ \A u \in Slots : acts[u] = <<>> => acts'[u] = <<>>
      /\ \A u \in Threads : \A x :
             Contains(acts[u], x) => Contains(acts'[u], x) \/ (u = th /\ x = Head(acts[th]))
    BY <1>0, <1>1, PopInv
<1> HIDE DEF new
<1>7. tmr' \in [Slots -> TimerTask]
    BY <1>2, <1>4, <1>5
<1>8. /\ tmr'[s] = new
      /\ \A u \in Slots : u # s => tmr'[u] = IF u = old /\ tmr[u].st = "sleep" THEN Free ELSE tmr[u]
    BY <1>2, <1>3, <1>4
<1>9. TypeOK'
    <2>1. handles' \in [Incs -> [TimerIds -> Slots \cup {None}]]
        BY <1>0, <1>1, <1>2, <1>3 DEF TypeOK
    <2> QED
        BY <1>0, <1>6, <1>7, <2>1 DEF TypeOK, Kind
<1>10. TimerInv'
    <2>1. ASSUME NEW j \in Incs, NEW k \in TimerIds, NEW u \in Slots, handles'[j][k] = u
          PROVE  tmr'[u].st # "free" /\ tmr'[u].id = k /\ tmr'[u].inc = j
        <3>1. CASE j = i /\ k = id
            <4>1. u = s
                BY <1>0, <1>1, <1>2, <2>1, <3>1 DEF TypeOK
            <4> QED
                BY <1>5, <1>8, <3>1, <4>1
        <3>2. CASE ~(j = i /\ k = id)
            <4>1. handles[j][k] = u
                BY <1>0, <1>1, <1>2, <2>1, <3>2 DEF TypeOK
            <4>2. tmr[u].st # "free" /\ tmr[u].id = k /\ tmr[u].inc = j
                BY <1>0, <4>1 DEF TimerInv
            <4>3. u # s /\ u # old
                BY <1>3, <1>4, <3>2, <4>2
            <4> QED
                BY <1>8, <4>2, <4>3
        <3> QED
            BY <3>1, <3>2
    <2>2. \A u \in Slots : tmr'[u].st # "exec" => tmr[u].st # "exec"
        BY <1>3, <1>8
    <2>3. \A u \in Slots : tmr'[u].st = "found" => tmr[u].st = "found"
        BY <1>5, <1>8 DEF Free
    <2> QED
        BY <1>0, <1>6, <2>1, <2>2, <2>3 DEF TimerInv
<1>11. GuardianPending'
    <2> SUFFICES ASSUME NEW j \in Incs, table = j, NEW g, g = Guardian(fsm[j]), g # None
                 PROVE  Pending(j, g)'
        BY <1>0 DEF GuardianPending
    <2>1. Pending(j, g)
        BY <1>0 DEF GuardianPending
    <2>2. j = i /\ g = id => TaskFor(s, j, g)'
        BY <1>5, <1>8 DEF TaskFor
    <2>3. ASSUME NEW u \in Slots, TaskFor(u, j, g)
          PROVE  TaskFor(u, j, g)' \/ (j = i /\ g = id)
        <3>1. u # s
            BY <1>3, <2>3 DEF TaskFor
        <3>2. CASE u = old /\ tmr[u].st = "sleep"
            BY <1>4, <2>3, <3>2 DEF TaskFor
        <3>3. CASE ~(u = old /\ tmr[u].st = "sleep")
            BY <1>0, <1>8, <2>3, <3>1, <3>3 DEF TaskFor
        <3> QED
            BY <3>2, <3>3
    <2>4. ASSUME NEW u \in Threads, ent[u] = j, Contains(acts[u], Arm(g))
          PROVE  (ent'[u] = j /\ Contains(acts'[u], Arm(g))) \/ (j = i /\ g = id)
        <3>1. Arm(g) = Arm(id) => g = id
            BY DEF Arm
        <3> QED
            BY <1>0, <1>1, <1>6, <2>4, <3>1
    <2>5. CASE j = i /\ g = id
        BY <1>3, <2>2, <2>5 DEF Pending
    <2>6. CASE ~(j = i /\ g = id)
        BY <2>1, <2>3, <2>4, <2>6 DEF Pending
    <2> QED
        BY <2>5, <2>6
<1>12. GaugeExact'
    BY <1>0 DEF GaugeExact, IsClient, Kind
<1> QED
    BY <1>6, <1>9, <1>10, <1>11, <1>12 DEF IInv

(* CancelTimer never stops the guardian of the live state. *)
LEMMA ExecCancelInv == \A th \in Threads : IInv /\ ExecCancel(th) => IInv'
<1> SUFFICES ASSUME NEW th \in Threads, IInv, ExecCancel(th) PROVE IInv'
    OBVIOUS
<1> DEFINE i == ent[th]
           id == Arg(th)
           old == handles[i][id]
<1>0. /\ TypeOK /\ LifeInv /\ BatchInv /\ TimerInv /\ GuardianPending /\ GaugeExact
      /\ acts[th] # <<>> /\ Head(acts[th]).do = "cancel" /\ Pop(th)
      /\ UNCHANGED <<fsm, table, started, token, ent, sent, tuFinals, tuEnds, gauge,
                     rx, sub, lphase, got2xx, acked, inputs>>
    BY DEF IInv, ExecCancel, NextIs, fsmVars, outVars, lisVars
<1>1. /\ i \in Incs /\ id \in TimerIds /\ BatchOK(acts[th])
      /\ Head(acts[th]) = Cancel(id) /\ Head(acts[th]) # Terminated
      /\ \A g : Head(acts[th]) # Arm(g)
    BY <1>0, HeadFacts DEF TypeOK
<1>2. Contains(acts[th], Cancel(id))
    BY <1>0, <1>1, PopFacts
<1>3. Guardian(fsm[i]) # id
    <2>1. GoodMachine(fsm[i]) /\ CancelOK(fsm[i].state, id)
        BY <1>0, <1>1, <1>2 DEF BatchInv, LifeInv
    <2> QED
        BY <1>1, <2>1, CancelSpares
<1>4. /\ Abort(tmr, old) \in [Slots -> TimerTask]
      /\ old \in Slots => tmr[old].st # "free" /\ tmr[old].id = id /\ tmr[old].inc = i
      /\ \A u \in Slots : Abort(tmr, old)[u] =
             IF u = old /\ tmr[u].st = "sleep" THEN Free ELSE tmr[u]
    BY <1>1, AbortFacts
<1>5. tmr' = Abort(tmr, old) /\ handles' = [handles EXCEPT ![i][id] = None] /\ None \notin Slots
    BY SlotsAssumption DEF ExecCancel
<1>6. /\ acts' \in [Threads -> Seq(ActionSet)] /\ LifeInv' /\ BatchInv'
      /\ \A u \in Slots : acts[u] = <<>> => acts'[u] = <<>>
      /\ \A u \in Threads : \A x :
             Contains(acts[u], x) => Contains(acts'[u], x) \/ (u = th /\ x = Head(acts[th]))
    BY <1>0, <1>1, PopInv
<1>7. TypeOK'
    <2>1. handles' \in [Incs -> [TimerIds -> Slots \cup {None}]]
        BY <1>0, <1>1, <1>5 DEF TypeOK
    <2> QED
        BY <1>0, <1>4, <1>5, <1>6, <2>1 DEF TypeOK, Kind
<1>8. TimerInv'
    <2>1. ASSUME NEW j \in Incs, NEW k \in TimerIds, NEW u \in Slots, handles'[j][k] = u
          PROVE  tmr'[u].st # "free" /\ tmr'[u].id = k /\ tmr'[u].inc = j
        <3>1. handles[j][k] = u /\ ~(j = i /\ k = id)
            BY <1>0, <1>1, <1>5, <2>1 DEF TypeOK
        <3>2. tmr[u].st # "free" /\ tmr[u].id = k /\ tmr[u].inc = j
            BY <1>0, <3>1 DEF TimerInv
        <3> QED
            BY <1>4, <1>5, <3>1, <3>2
    <2>2. \A u \in Slots : tmr'[u].st # "exec" => tmr[u].st # "exec"
        BY <1>4, <1>5
    <2>3. \A u \in Slots : tmr'[u].st = "found" => tmr[u].st = "found"
        BY <1>4, <1>5 DEF Free
    <2> QED
        BY <1>0, <1>6, <2>1, <2>2, <2>3 DEF TimerInv
<1>9. GuardianPending'
    <2> SUFFICES ASSUME NEW j \in Incs, table = j, NEW g, g = Guardian(fsm[j]), g # None
                 PROVE  Pending(j, g)'
        BY <1>0 DEF GuardianPending
    <2>1. Pending(j, g) /\ ~(j = i /\ g = id)
        BY <1>0, <1>3 DEF GuardianPending
    <2>2. ASSUME NEW u \in Slots, TaskFor(u, j, g) PROVE TaskFor(u, j, g)'
        <3>1. CASE u = old /\ tmr[u].st = "sleep"
            BY <1>4, <2>1, <2>2, <3>1 DEF TaskFor
        <3>2. CASE ~(u = old /\ tmr[u].st = "sleep")
            BY <1>0, <1>4, <1>5, <2>2, <3>2 DEF TaskFor
        <3> QED
            BY <3>1, <3>2
    <2>3. \A u \in Threads : Contains(acts[u], Arm(g)) => Contains(acts'[u], Arm(g))
        BY <1>1, <1>6
    <2> QED
        BY <1>0, <2>1, <2>2, <2>3 DEF Pending
<1>10. GaugeExact'
    BY <1>0 DEF GaugeExact, IsClient, Kind
<1> QED
    BY <1>6, <1>7, <1>8, <1>9, <1>10 DEF IInv

(* terminate releases the entry the table holds, and it alone. *)
LEMMA ExecTerminateInv == \A th \in Threads : IInv /\ ExecTerminate(th) => IInv'
<1> SUFFICES ASSUME NEW th \in Threads, IInv, ExecTerminate(th) PROVE IInv'
    OBVIOUS
<1> DEFINE i == ent[th]
<1>0. /\ TypeOK /\ LifeInv /\ BatchInv /\ TimerInv /\ GaugeExact
      /\ acts[th] # <<>> /\ Head(acts[th]) = Terminated /\ BatchOK(acts[th]) /\ Pop(th)
      /\ table' = 0 /\ i \in Incs /\ 0 \notin Incs
      /\ UNCHANGED <<fsm, started, ent, sent, tuFinals, rx, sub, lphase, got2xx, acked, inputs>>
    <2>1. acts[th] # <<>> /\ Head(acts[th]).do = "terminated"
        BY DEF ExecTerminate, NextIs
    <2> QED
        BY <2>1, HeadFacts, SMTT(30) DEF IInv, TypeOK, ExecTerminate, lisVars, Incs
<1>1. Contains(acts[th], Terminated) /\ Tail(acts[th]) = <<>>
    BY <1>0, PopFacts
<1>2. table = i /\ fsm[i].state = "Terminated" /\ i <= started /\ started \in Nat
    BY <1>0, <1>1 DEF BatchInv, TypeOK, Incs
<1>3. /\ token' = [token EXCEPT ![i] = TRUE]
      /\ tmr' = [s \in Slots |-> IF s \in Drained(i) THEN Abort(tmr, s)[s] ELSE tmr[s]]
      /\ handles' = [handles EXCEPT ![i] = [id \in TimerIds |-> None]]
      /\ tuEnds' = [tuEnds EXCEPT ![i] = @ + 1]
      /\ gauge' = IF ~IsClient THEN gauge - 1 ELSE gauge
    BY <1>0, <1>2 DEF ExecTerminate, Counted
<1>4. gauge' = 0 /\ GaugeExact'
    BY <1>0, <1>2, <1>3 DEF GaugeExact
<1>5. /\ acts'[th] = <<>>
      /\ \A u \in Threads : u # th => acts'[u] = acts[u] /\ ~Contains(acts[u], Terminated)
      /\ acts' \in [Threads -> Seq(ActionSet)]
    <2>1. \A u \in Threads : acts'[u] = IF u = th THEN <<>> ELSE acts[u]
        BY <1>0, <1>1 DEF Pop, TypeOK
    <2>2. acts' \in [Threads -> Seq(ActionSet)]
        BY <1>0, <1>1, EmptyFacts DEF Pop, TypeOK, BatchOK
    <2> QED
        BY <1>0, <1>1, <2>1, <2>2 DEF BatchInv
<1>6. \A s \in Slots : tmr'[s] = IF s \in Drained(i) /\ tmr[s].st = "sleep" THEN Free ELSE tmr[s]
    BY <1>0, <1>3 DEF Abort, TypeOK
<1>7. TypeOK'
    <2>1. Free \in TimerTask
        BY MaxIncAssumption DEF Free, TimerTask, TimerIds, Incs
    <2>2. tmr' \in [Slots -> TimerTask]
        <3>1. \A s \in Slots : tmr'[s] \in TimerTask
            BY <1>0, <1>6, <2>1 DEF TypeOK
        <3> QED
            BY <1>3, <3>1
    <2>3. handles' \in [Incs -> [TimerIds -> Slots \cup {None}]]
        BY <1>0, <1>3 DEF TypeOK
    <2>4. token' \in [Incs -> BOOLEAN]
        BY <1>0, <1>3 DEF TypeOK
    <2>5. tuEnds' \in [Incs -> Nat]
        BY <1>0, <1>3 DEF TypeOK
    <2> QED
        BY <1>0, <1>4, <1>5, <2>2, <2>3, <2>4, <2>5 DEF TypeOK, Kind
<1>8. LifeInv'
    <2>1. \A j \in Incs : tuEnds'[j] = IF j = i THEN 1 ELSE tuEnds[j]
        BY <1>0, <1>2, <1>3 DEF TypeOK, LifeInv
    <2>2. \A j \in Incs : j # i => token'[j] = token[j]
        BY <1>0, <1>3 DEF TypeOK
    <2>3. ASSUME NEW j \in Incs, token'[j] PROVE j <= started
        <3>1. CASE j = i
            BY <1>2, <3>1
        <3>2. CASE j # i
            BY <1>0, <2>2, <2>3, <3>2 DEF LifeInv
        <3> QED
            BY <3>1, <3>2
    <2>4. \A j \in Incs : j > started => j # i
        BY <1>2 DEF Incs
    <2>5. \A j \in Incs : j <= started => tuEnds'[j] = 1
        BY <1>0, <1>2, <2>1 DEF LifeInv
    <2>6. \A j \in Incs : j <= started => fsm[j].state = "Terminated"
        BY <1>0, <1>2 DEF LifeInv
    <2>7. \A j \in Incs : j > started => fsm[j].state = InitialState(Kind) /\ tuEnds'[j] = 0
        BY <1>0, <2>1, <2>4 DEF LifeInv
    <2>8. \A j \in Incs : table' # j
        BY <1>0
    <2>9. 0 <= started /\ (IsClient' => started <= 1) /\ Kind' = Kind
        BY <1>0, <1>2 DEF LifeInv, IsClient, Kind
    <2>10. \A j \in Incs : GoodMachine(fsm[j])
        BY <1>0 DEF LifeInv
    <2> QED
        BY <1>0, <2>3, <2>5, <2>6, <2>7, <2>8, <2>9, <2>10 DEF LifeInv
<1>9. BatchInv'
    <2>1. \A u \in Threads : ~Contains(acts'[u], Terminated)
        BY <1>5, EmptyFacts
    <2>2. \A u \in Threads : BatchOK(acts'[u]) /\ (acts'[u] # <<>> => ent[u] <= started)
        BY <1>0, <1>5, EmptyFacts DEF BatchInv
    <2>3. \A u \in Threads : \A g \in TimerIds :
              Contains(acts'[u], Cancel(g)) => CancelOK(fsm[ent[u]].state, g)
        BY <1>0, <1>5, EmptyFacts DEF BatchInv
    <2> QED
        BY <1>0, <2>1, <2>2, <2>3 DEF BatchInv
<1>10. TimerInv'
    <2>1. ASSUME NEW j \in Incs, NEW k \in TimerIds, NEW u \in Slots, handles'[j][k] = u
          PROVE  tmr'[u].st # "free" /\ tmr'[u].id = k /\ tmr'[u].inc = j
        <3>1. handles[j][k] = u /\ j # i
            BY <1>0, <1>3, <2>1, SlotsAssumption DEF TypeOK
        <3>2. tmr[u].st # "free" /\ tmr[u].id = k /\ tmr[u].inc = j
            BY <1>0, <3>1 DEF TimerInv
        <3>3. u \notin Drained(i)
            BY <1>0, <3>1, <3>2 DEF Drained, TimerInv
        <3> QED
            BY <1>6, <3>2, <3>3
    <2>2. \A u \in Slots : tmr'[u].st # "exec" => acts'[u] = <<>>
        <3>1. \A u \in Slots : acts[u] = <<>> => acts'[u] = <<>>
            BY <1>5 DEF Threads
        <3>2. \A u \in Slots : tmr'[u].st # "exec" => tmr[u].st # "exec"
            BY <1>6
        <3> QED
            BY <1>0, <3>1, <3>2 DEF TimerInv
    <2>3. \A u \in Slots : tmr'[u].st = "found" => tmr[u].st = "found"
        BY <1>6 DEF Free
    <2> QED
        BY <1>0, <2>1, <2>2, <2>3 DEF TimerInv
<1>11. GuardianPending'
    BY <1>0 DEF GuardianPending
<1> QED
    BY <1>4, <1>7, <1>8, <1>9, <1>10, <1>11 DEF IInv

-----------------------------------------------------------------------------
(* The invariant is inductive. *)
LEMMA NextInv == IInv /\ [Next]_vars => IInv'
<1> SUFFICES ASSUME IInv, [Next]_vars PROVE IInv'
    OBVIOUS
<1>1. CASE Environment
    BY <1>1, StartClientTxnInv, StartServerTxnInv, TuSendsInv, PeerRetransmitsInv, PeerAcksInv,
       PeerRespondsInv, TuRegistersAckInv DEF Environment
<1>2. CASE Listener
    BY <1>2, ListenerRecvInv, ListenerCancelledInv, AbsorbRecvInv, WindowClosesInv DEF Listener
<1>3. ASSUME NEW s \in Slots, Timer(s) PROVE IInv'
    BY <1>3, TimerExpiresInv, TimerBowsOutInv, FireTimerInv, FireFeedsInv, TimerDoneInv DEF Timer
<1>4. ASSUME NEW th \in Threads, Exec(th) PROVE IInv'
    BY <1>4, ExecSendInv, ExecDeliverInv, ExecArmInv, ExecCancelInv, ExecTerminateInv DEF Exec
<1>5. CASE UNCHANGED vars
    <2>1. UNCHANGED <<fsmVars, timerVars, batchVars, tuEnds, gauge>>
        BY <1>5 DEF vars, fsmVars, timerVars, batchVars
    <2>2. TypeOK'
        BY <1>5 DEF IInv, TypeOK, vars, Kind
    <2> QED
        BY <2>1, <2>2, QuietInv DEF IInv
<1> QED
    BY <1>1, <1>2, <1>3, <1>4, <1>5 DEF Next

(* The inductive invariant holds in every reachable state. *)
LEMMA SpecInv == Spec => []IInv
BY InitInv, NextInv, PTL DEF Spec

(* The driver's state is well typed whatever tasks run and however their   *)
(* batches interleave.                                                     *)
THEOREM TypeCorrect == Spec => []TypeOK
<1>1. IInv => TypeOK
    BY DEF IInv
<1> QED
    BY <1>1, SpecInv, PTL

(* No live transaction is forgotten: in every state a registered machine   *)
(* must leave by itself, the timer that ends that state is sleeping,       *)
(* firing or about to be armed (txn/driver.rs, arm_timer, fire_timer and   *)
(* CancelTimer).                                                           *)
THEOREM NoTransactionForgotten == Spec => []GuardianPending
<1>1. IInv => GuardianPending
    BY DEF IInv
<1> QED
    BY <1>1, SpecInv, PTL

(* terminate runs exactly once for every registered transaction, and only  *)
(* for machines that have ended (txn/driver.rs, terminate).                *)
THEOREM TransactionReleasedOnce == Spec => []ReleasedOnce
<1>1. ASSUME IInv PROVE ReleasedOnce
    <2>1. TypeOK /\ LifeInv /\ BatchInv
        BY <1>1 DEF IInv
    <2>2. \A i \in 1 .. started : i \in Incs /\ i <= started
        BY <2>1, MaxIncAssumption DEF TypeOK, Incs
    <2> QED
        BY <2>1, <2>2 DEF LifeInv, BatchInv, ReleasedOnce
<1> QED
    BY <1>1, SpecInv, PTL

(* sip_server_txns_active is exact in every state (txn/driver.rs,          *)
(* start_server_inner and terminate).                                      *)
THEOREM GaugeIsExact == Spec => []GaugeExact
<1>1. IInv => GaugeExact
    BY DEF IInv
<1> QED
    BY <1>1, SpecInv, PTL

-----------------------------------------------------------------------------
(* What the TU and the peer see: final responses and the subscription. *)

(* Task th has yet to deliver a final response to the TU. *)
HoldsFinal(th) == \E m \in Finals : Contains(acts[th], Deliver(m))

(* Final m of entry i is on the wire, or a task has yet to send it. *)
Issued(i, m) == m \in sent[i] \/ \E th \in Threads : ent[th] = i /\ Contains(acts[th], Send(m))

LastingTask(s) == tmr[s].st # "free" /\ tmr[s].id \in Lasting

(* The listener is in its live phase while the transaction is registered. *)
SubInv ==
    /\ sub <=> lphase \in {"live", "absorb"}
    /\ IsClient /\ table # 0 => lphase = "live"

(* All finals issued for an entry are the one its machine has cached. *)
SendInv ==
    /\ \A i \in Incs : CachedOK(fsm[i])
    /\ \A i \in Incs, m \in Finals : Issued(i, m) =>
           /\ fsm[i].state \notin Awaiting
           /\ fsm[i].state = "Completed" => fsm[i].cached = m
    /\ \A i \in Incs, m, n \in Finals : Issued(i, m) /\ Issued(i, n) => m = n

(* A final to be delivered is the first action of its batch, the only one, *)
(* and comes before whatever ends the transaction: Terminated and timers D *)
(* and K are later in the same batch, or do not exist yet.                 *)
HolderInv ==
    \A th \in Threads : HoldsFinal(th) =>
        /\ IsClient /\ table = ent[th]
        /\ tuFinals[ent[th]] = 0
        /\ fsm[ent[th]].state \notin Awaiting
        /\ \A s \in Slots : ~LastingTask(s)
        /\ \A u \in Threads : HoldsFinal(u) => u = th
        /\ \A u \in Threads : Contains(acts[u], Terminated) => u = th
        /\ \A u \in Threads, g \in Lasting : Contains(acts[u], Arm(g)) => u = th

DeliverInv ==
    /\ \A th \in Threads : \A k \in DOMAIN acts[th] : \A m \in Finals :
           acts[th][k] = Deliver(m) => k = 1
    /\ HolderInv
    /\ \A u \in Threads, g \in Lasting :
           Contains(acts[u], Arm(g)) => IsClient /\ fsm[1].state \notin Awaiting
    /\ \A s \in Slots : LastingTask(s) => IsClient /\ fsm[1].state \notin Awaiting
    /\ \A i \in Incs : tuFinals[i] <= 1 /\ (tuFinals[i] # 0 => fsm[i].state \notin Awaiting)

ViewInv == SubInv /\ SendInv /\ DeliverInv

(* Nothing was sent or delivered in a fresh driver. *)
LEMMA ViewInit == Init => ViewInv
<1> SUFFICES ASSUME Init PROVE ViewInv
    OBVIOUS
<1>1. PICK kind \in Kinds, reliable \in BOOLEAN : fsm = [i \in Incs |-> NewMachine(kind, reliable)]
    BY DEF Init
<1>2. \A i \in Incs : CachedOK(fsm[i])
    BY <1>1 DEF NewMachine, CachedOK, Finals, None
<1>3. /\ \A th \in Threads : \A x : ~Contains(acts[th], x)
      /\ \A th \in Threads : acts[th] = <<>>
    BY EmptyFacts DEF Init
<1>4. \A i \in Incs : sent[i] = {} /\ tuFinals[i] = 0
    BY DEF Init
<1>5. \A s \in Slots : ~LastingTask(s)
    BY DEF Init, LastingTask, Free
<1>6. SubInv
    <2>1. lphase \notin {"live", "absorb"} /\ table = 0
        BY DEF Init
    <2>2. ~sub
        BY DEF Init
    <2> QED
        BY <2>1, <2>2 DEF SubInv
<1>7. SendInv
    BY <1>2, <1>3, <1>4 DEF SendInv, Issued
<1>8. DeliverInv
    <2>1. \A th \in Threads : DOMAIN acts[th] = {}
        BY <1>3
    <2>2. HolderInv
        BY <1>3 DEF HolderInv, HoldsFinal
    <2> QED
        BY <1>3, <1>4, <1>5, <2>1, <2>2 DEF DeliverInv
<1> QED
    BY <1>6, <1>7, <1>8 DEF ViewInv

(* Of a client there is one entry. *)
LEMMA OneEntry ==
    ASSUME IInv
    PROVE  /\ 1 \in Incs
           /\ \A i \in Incs : IsClient /\ i <= started => i = 1
           /\ IsClient => table \in {0, 1}
<1>1. TypeOK /\ LifeInv /\ MaxInc \in Nat \ {0}
    BY MaxIncAssumption DEF IInv
<1> QED
    BY <1>1 DEF TypeOK, LifeInv, Incs

-----------------------------------------------------------------------------
(* Feeding an event to a registered machine. *)
LEMMA FeedView ==
    ASSUME IInv, SendInv, DeliverInv, NEW th \in Threads, NEW i \in Incs, NEW e,
           Feed(th, i, e), sent' = sent, tuFinals' = tuFinals,
           IsClient => i = 1,
           table' = table \/ table = 0, table' = i \/ fsm[i].state = "Terminated",
           \A s \in Slots : LastingTask(s)' => LastingTask(s),
           e \in {TimerFired("D"), TimerFired("K")} => \E s \in Slots : LastingTask(s)
    PROVE  SendInv' /\ DeliverInv'
<1>0. TypeOK /\ LifeInv /\ BatchInv /\ acts[th] = <<>> /\ 1 \in Incs
    BY OneEntry DEF IInv, Feed, Idle
<1> DEFINE Out(ackOk) == OnEvent(fsm[i], e, ackOk)
<1>1. PICK ackOk \in BOOLEAN : /\ fsm' = [fsm EXCEPT ![i] = Out(ackOk).fsm]
                               /\ acts' = [acts EXCEPT ![th] = Out(ackOk).acts]
    BY DEF Feed
<1> DEFINE f == fsm[i]
           out == Out(ackOk)
<1>2. GoodMachine(f) /\ GoodStep(f, out) /\ FinalStep(f, e, out) /\ f.kind = Kind
    BY <1>0, OnEventStep, OnEventFinal DEF LifeInv, SendInv, TypeOK
<1> HIDE DEF Out
<1>3. ent' = [ent EXCEPT ![th] = i]
    BY DEF Feed
<1>4. \A j \in Incs : fsm'[j] = IF j = i THEN out.fsm ELSE fsm[j]
    BY <1>0, <1>1 DEF TypeOK
<1>5. \A u \in Threads : /\ acts'[u] = IF u = th THEN out.acts ELSE acts[u]
                         /\ ent'[u] = IF u = th THEN i ELSE ent[u]
                         /\ ent[u] \in Incs
    BY <1>0, <1>1, <1>3 DEF TypeOK
<1>6. \A x : ~Contains(acts[th], x)
    BY <1>0, EmptyFacts
<1>7. out.fsm.kind = f.kind /\ IsClient' = IsClient
    BY <1>0, <1>2, <1>4 DEF GoodStep, IsClient, Kind, TypeOK
<1>8. SendInv'
    <2>1. \A j \in Incs : CachedOK(fsm'[j])
        BY <1>2, <1>4 DEF SendInv, FinalStep
    <2>2. \A j \in Incs, m \in Finals :
              Issued(j, m)' => Issued(j, m) \/ (j = i /\ Contains(out.acts, Send(m)))
        BY <1>5, <1>6 DEF Issued
    <2>3. ASSUME NEW j \in Incs, NEW m \in Finals, Issued(j, m)'
          PROVE  fsm'[j].state \notin Awaiting /\ (fsm'[j].state = "Completed" => fsm'[j].cached = m)
        <3>1. CASE Issued(j, m) /\ j = i
            <4>1. f.state \notin Awaiting /\ (f.state = "Completed" => f.cached = m)
                BY <3>1 DEF SendInv
            <4> QED
                BY <1>2, <1>4, <3>1, <4>1 DEF FinalStep
        <3>2. CASE Issued(j, m) /\ j # i
            BY <1>4, <3>2 DEF SendInv
        <3>3. CASE j = i /\ Contains(out.acts, Send(m))
            BY <1>2, <1>4, <3>3 DEF FinalStep
        <3> QED
            BY <2>2, <2>3, <3>1, <3>2, <3>3
    <2>4. ASSUME NEW j \in Incs, NEW m \in Finals, NEW n \in Finals, Issued(j, m)', Issued(j, n)'
          PROVE  m = n
        <3>1. CASE Issued(j, m) /\ Issued(j, n)
            BY <3>1 DEF SendInv
        <3>2. ASSUME NEW x \in Finals, NEW y \in Finals, j = i, Contains(out.acts, Send(x)), Issued(i, y)
              PROVE  x = y
            <4>1. f.state \notin Awaiting /\ (f.state = "Completed" => f.cached = y)
                BY <3>2 DEF SendInv
            <4> QED
                BY <1>2, <3>2, <4>1 DEF FinalStep
        <3>3. CASE j = i /\ Contains(out.acts, Send(m)) /\ Contains(out.acts, Send(n))
            BY <1>2, <3>3 DEF FinalStep
        <3> QED
            BY <2>2, <2>4, <3>1, <3>2, <3>3
    <2> QED
        BY <2>1, <2>3, <2>4 DEF SendInv
<1>9. DeliverInv'
    <2>1. \A u \in Threads : \A k \in DOMAIN acts'[u] : \A m \in Finals :
              acts'[u][k] = Deliver(m) => k = 1
        BY <1>2, <1>5 DEF DeliverInv, FinalStep
    <2>2. \A j \in Incs : /\ tuFinals'[j] <= 1
                          /\ tuFinals'[j] # 0 => fsm'[j].state \notin Awaiting
        BY <1>2, <1>4 DEF DeliverInv, FinalStep
    <2>3. IsClient => i = 1
        OBVIOUS
    <2>4. fsm[1].state \notin Awaiting /\ IsClient => fsm'[1].state \notin Awaiting
        BY <1>0, <1>2, <1>4 DEF FinalStep
    <2>5. \A u \in Threads, g \in Lasting :
              Contains(acts'[u], Arm(g)) => IsClient /\ fsm'[1].state \notin Awaiting
        BY <1>0, <1>2, <1>4, <1>5, <2>3, <2>4 DEF DeliverInv, FinalStep, IsClient
    <2>6. \A s \in Slots : LastingTask(s)' => IsClient /\ fsm'[1].state \notin Awaiting
        BY <2>4 DEF DeliverInv
    <2>7. HolderInv'
        <3> SUFFICES ASSUME NEW h \in Threads, HoldsFinal(h)'
                     PROVE  /\ IsClient /\ table' = ent'[h]
                            /\ tuFinals'[ent'[h]] = 0
                            /\ fsm'[ent'[h]].state \notin Awaiting
                            /\ \A s \in Slots : ~LastingTask(s)'
                            /\ \A u \in Threads : HoldsFinal(u)' => u = h
                            /\ \A u \in Threads : Contains(acts'[u], Terminated) => u = h
                            /\ \A u \in Threads, g \in Lasting : Contains(acts'[u], Arm(g)) => u = h
            BY <1>7 DEF HolderInv
        <3>1. \A u \in Threads : HoldsFinal(u)' => IF u = th THEN f.state \in Awaiting ELSE HoldsFinal(u)
            BY <1>2, <1>5 DEF HoldsFinal, FinalStep
        <3>2. ~HoldsFinal(th)
            BY <1>6 DEF HoldsFinal
        <3>3. CASE h # th
            <4>1. HoldsFinal(h) /\ HolderInv
                BY <3>1, <3>3 DEF DeliverInv
            <4>2. /\ IsClient /\ table = ent[h] /\ tuFinals[ent[h]] = 0 /\ fsm[ent[h]].state \notin Awaiting
                  /\ \A s \in Slots : ~LastingTask(s)
                  /\ \A u \in Threads : HoldsFinal(u) => u = h
                  /\ \A u \in Threads : Contains(acts[u], Terminated) => u = h
                  /\ \A u \in Threads, g \in Lasting : Contains(acts[u], Arm(g)) => u = h
                BY <4>1 DEF HolderInv
            <4>3. i = 1 /\ ent[h] = i /\ table' = table /\ table = i
                BY <1>0, <1>5, <2>3, <4>2, OneEntry DEF Incs
            <4>4. f.state \notin Awaiting /\ e \notin {TimerFired("D"), TimerFired("K")}
                BY <4>2, <4>3
            <4>5. ~HoldsFinal(th)' /\ \A g \in Lasting : ~Contains(acts'[th], Arm(g))
                BY <1>2, <1>5, <3>1, <4>4 DEF FinalStep
            <4>6. ~Contains(acts'[th], Terminated)
                BY <1>2, <1>5, <4>2, <4>4 DEF FinalStep, IsClient
            <4>7. ent'[h] = ent[h] /\ fsm'[i].state \notin Awaiting
                BY <1>2, <1>4, <1>5, <3>3, <4>4 DEF FinalStep
            <4> QED
                BY <1>5, <3>1, <4>2, <4>3, <4>5, <4>6, <4>7
        <3>4. CASE h = th
            <4>1. f.state \in Awaiting /\ IsClient /\ out.fsm.state \notin Awaiting
                BY <1>2, <1>5, <3>4 DEF HoldsFinal, FinalStep, IsClient
            <4>2. i = 1 /\ fsm[1].state \in Awaiting
                BY <2>3, <4>1
            <4>3. /\ \A s \in Slots : ~LastingTask(s)
                  /\ \A u \in Threads, g \in Lasting : ~Contains(acts[u], Arm(g))
                  /\ tuFinals[i] = 0
                BY <4>1, <4>2 DEF DeliverInv
            <4>4. \A u \in Threads : ~HoldsFinal(u)
                <5>1. SUFFICES ASSUME NEW u \in Threads, HoldsFinal(u) PROVE FALSE
                    OBVIOUS
                <5>2. table = ent[u] /\ fsm[ent[u]].state \notin Awaiting /\ ent[u] \in Incs
                    BY <1>5, <5>1 DEF DeliverInv, HolderInv
                <5>3. ent[u] = 1
                    BY <4>1, <5>2, OneEntry DEF Incs
                <5> QED
                    BY <4>2, <5>2, <5>3
            <4>5. \A u \in Threads : ~Contains(acts[u], Terminated)
                <5>1. SUFFICES ASSUME NEW u \in Threads, Contains(acts[u], Terminated) PROVE FALSE
                    OBVIOUS
                <5>2. table = ent[u] /\ fsm[ent[u]].state = "Terminated" /\ ent[u] \in Incs
                    BY <1>0, <1>5, <5>1 DEF BatchInv
                <5>3. ent[u] = 1
                    BY <4>1, <5>2, OneEntry DEF Incs
                <5> QED
                    BY <4>2, <5>2, <5>3 DEF Awaiting
            <4>6. table' = i
                BY <4>1 DEF Awaiting
            <4>7. ent'[h] = i /\ fsm'[i].state \notin Awaiting
                BY <1>4, <1>5, <3>4, <4>1
            <4> QED
                BY <1>5, <3>1, <3>4, <4>1, <4>3, <4>4, <4>5, <4>6, <4>7
        <3> QED
            BY <3>3, <3>4
    <2> QED
        BY <1>7, <2>1, <2>2, <2>5, <2>6, <2>7 DEF DeliverInv
<1> QED
    BY <1>8, <1>9

(* A registered entry that may be fed. *)
LEMMA Registered ==
    ASSUME IInv, NEW i \in Incs, i <= started
    PROVE  (IsClient => i = 1) /\ (table = i \/ fsm[i].state = "Terminated")
<1>1. LifeInv
    BY DEF IInv
<1> QED
    BY <1>1, OneEntry DEF LifeInv

(* Steps that leave machines, batches and what was issued alone. *)
LEMMA QuietView ==
    ASSUME IInv, SendInv, DeliverInv, UNCHANGED <<fsm, acts, ent, tuFinals>>,
           table' = table \/ table = 0,
           \A i \in Incs : sent'[i] \subseteq sent[i] \cup {"ack2xx"},
           \A s \in Slots : LastingTask(s)' => LastingTask(s)
    PROVE  SendInv' /\ DeliverInv'
<1>0. TypeOK /\ IsClient' = IsClient
    BY DEF IInv, IsClient, Kind
<1>1. SendInv'
    <2>1. \A i \in Incs, m \in Finals : Issued(i, m)' => Issued(i, m)
        BY DEF Issued, Finals
    <2> QED
        BY <2>1 DEF SendInv
<1>2. \A th \in Threads : HoldsFinal(th)' = HoldsFinal(th)
    BY DEF HoldsFinal
<1>3. HolderInv'
    <2>1. \A th \in Threads : HoldsFinal(th) => table # 0
        BY <1>0 DEF DeliverInv, HolderInv, TypeOK, Incs
    <2> QED
        BY <1>0, <1>2, <2>1 DEF DeliverInv, HolderInv
<1>4. DeliverInv'
    BY <1>0, <1>3 DEF DeliverInv
<1> QED
    BY <1>1, <1>4

(* Executing the first action of a batch. *)
LEMMA PopView ==
    ASSUME IInv, SendInv, DeliverInv, NEW th \in Threads, acts[th] # <<>>, Pop(th),
           UNCHANGED <<fsm, ent>>,
           \/ table' = table
           \/ Head(acts[th]) = Terminated,
           \A i \in Incs : sent'[i] \subseteq
               sent[i] \cup {m \in Finals \cup (Messages \ Finals) : i = ent[th] /\ Head(acts[th]) = Send(m)},
           \A i \in Incs :
               \/ tuFinals'[i] = tuFinals[i]
               \/ /\ i = ent[th] /\ \E m \in Finals : Head(acts[th]) = Deliver(m)
                  /\ tuFinals'[i] = tuFinals[i] + 1,
           \A s \in Slots : LastingTask(s)' =>
               LastingTask(s) \/ \E g \in Lasting : Head(acts[th]) = Arm(g)
    PROVE  SendInv' /\ DeliverInv'
<1>0. TypeOK /\ BatchInv /\ IsClient' = IsClient
    BY DEF IInv, IsClient, Kind
<1>1. BatchOK(acts[th]) /\ ent[th] \in Incs
    BY <1>0 DEF BatchInv, TypeOK
<1> DEFINE b == acts[th]
<1>2. /\ \A x : Contains(Tail(b), x) => Contains(b, x)
      /\ Contains(b, Head(b))
      /\ Head(b) = Terminated => Tail(b) = <<>>
    BY <1>1, PopFacts
<1>3. \A u \in Threads : acts'[u] = IF u = th THEN Tail(b) ELSE acts[u]
    BY <1>0 DEF TypeOK, Pop
<1>4. \A u \in Threads : \A x : Contains(acts'[u], x) => Contains(acts[u], x)
    BY <1>2, <1>3
<1>5. SendInv'
    <2>1. \A i \in Incs, m \in Finals : Issued(i, m)' => Issued(i, m)
        <3> SUFFICES ASSUME NEW i \in Incs, NEW m \in Finals, Issued(i, m)' PROVE Issued(i, m)
            OBVIOUS
        <3>1. CASE m \in sent'[i]
            <4>1. m \in sent[i] \/ (i = ent[th] /\ Head(b) = Send(m))
                BY <3>1
            <4> QED
                BY <1>2, <4>1 DEF Issued
        <3>2. CASE \E u \in Threads : ent[u] = i /\ Contains(acts'[u], Send(m))
            BY <1>4, <3>2 DEF Issued
        <3> QED
            BY <3>1, <3>2 DEF Issued
    <2> QED
        BY <2>1 DEF SendInv
<1>6. \A m \in Finals : ~Contains(Tail(b), Deliver(m))
    <2>1. b \in Seq(ActionSet) /\ Len(b) \in Nat /\ Len(b) >= 1 /\ DOMAIN b = 1 .. Len(b)
        BY <1>1 DEF BatchOK
    <2>2. DOMAIN Tail(b) = 1 .. (Len(b) - 1) /\ \A k \in 1 .. (Len(b) - 1) : Tail(b)[k] = b[k + 1]
        BY <2>1
    <2> QED
        BY <2>1, <2>2 DEF DeliverInv, Contains
<1>7. ~HoldsFinal(th)' /\ \A u \in Threads : u # th => HoldsFinal(u)' = HoldsFinal(u)
    BY <1>3, <1>6 DEF HoldsFinal
<1>8. \A u \in Threads : \A k \in DOMAIN acts'[u] : \A m \in Finals : acts'[u][k] = Deliver(m) => k = 1
    <2>1. \A k \in DOMAIN Tail(b) : \A m \in Finals : Tail(b)[k] # Deliver(m)
        BY <1>6 DEF Contains
    <2>2. \A u \in Threads \ {th} : acts'[u] = acts[u]
        BY <1>3
    <2>3. acts'[th] = Tail(b)
        BY <1>3
    <2> SUFFICES ASSUME NEW u \in Threads, NEW k \in DOMAIN acts'[u], NEW m \in Finals,
                        acts'[u][k] = Deliver(m)
                 PROVE  k = 1
        OBVIOUS
    <2>4. CASE u = th
        BY <2>1, <2>3, <2>4
    <2>5. CASE u # th
        <3>1. acts'[u] = acts[u]
            BY <2>2, <2>5
        <3> QED
            BY <3>1 DEF DeliverInv
    <2> QED
        BY <2>4, <2>5
<1>9. \A s \in Slots : LastingTask(s)' =>
          IsClient /\ fsm[1].state \notin Awaiting /\ (LastingTask(s) \/ \E g \in Lasting : Contains(b, Arm(g)))
    BY <1>2 DEF DeliverInv
<1>10. \A i \in Incs : tuFinals'[i] <= 1 /\ (tuFinals'[i] # 0 => fsm[i].state \notin Awaiting)
    <2> SUFFICES ASSUME NEW i \in Incs, tuFinals'[i] # tuFinals[i]
                 PROVE  tuFinals'[i] <= 1 /\ fsm[i].state \notin Awaiting
        BY DEF DeliverInv
    <2>1. HoldsFinal(th) /\ i = ent[th] /\ tuFinals'[i] = tuFinals[i] + 1
        BY <1>2 DEF HoldsFinal
    <2>2. tuFinals[i] = 0 /\ fsm[i].state \notin Awaiting
        BY <2>1 DEF DeliverInv, HolderInv
    <2> QED
        BY <2>1, <2>2
<1>11. HolderInv'
    <2> SUFFICES ASSUME NEW h \in Threads, HoldsFinal(h)'
                 PROVE  /\ IsClient /\ table' = ent[h]
                        /\ tuFinals'[ent[h]] = 0
                        /\ fsm[ent[h]].state \notin Awaiting
                        /\ \A s \in Slots : ~LastingTask(s)'
                        /\ \A u \in Threads : HoldsFinal(u)' => u = h
                        /\ \A u \in Threads : Contains(acts'[u], Terminated) => u = h
                        /\ \A u \in Threads, g \in Lasting : Contains(acts'[u], Arm(g)) => u = h
        BY <1>0 DEF HolderInv
    <2>1. h # th /\ HoldsFinal(h)
        BY <1>7
    <2>2. /\ IsClient /\ table = ent[h] /\ tuFinals[ent[h]] = 0 /\ fsm[ent[h]].state \notin Awaiting
          /\ \A s \in Slots : ~LastingTask(s)
          /\ \A u \in Threads : HoldsFinal(u) => u = h
          /\ \A u \in Threads : Contains(acts[u], Terminated) => u = h
          /\ \A u \in Threads, g \in Lasting : Contains(acts[u], Arm(g)) => u = h
        BY <2>1 DEF DeliverInv, HolderInv
    <2>3. ~Contains(b, Terminated) /\ (\A g \in Lasting : ~Contains(b, Arm(g))) /\ ~HoldsFinal(th)
        BY <2>1, <2>2
    <2>4. table' = table /\ \A s \in Slots : ~LastingTask(s)'
        BY <1>2, <1>9, <2>2, <2>3
    <2>5. tuFinals'[ent[h]] = tuFinals[ent[h]]
        <3>1. \A m \in Finals : Head(b) # Deliver(m)
            BY <1>2, <2>3 DEF HoldsFinal
        <3>2. ent[h] \in Incs
            BY <1>0 DEF TypeOK
        <3> QED
            BY <3>1, <3>2
    <2> QED
        BY <1>4, <1>7, <2>1, <2>2, <2>4, <2>5
<1>12. \A u \in Threads, g \in Lasting :
           Contains(acts'[u], Arm(g)) => IsClient /\ fsm[1].state \notin Awaiting
    BY <1>4 DEF DeliverInv
<1>13. DeliverInv'
    BY <1>0, <1>8, <1>9, <1>10, <1>11, <1>12 DEF DeliverInv
<1> QED
    BY <1>5, <1>13

-----------------------------------------------------------------------------
(* A transaction keeps its kind. *)
LEMMA FeedKind ==
    ASSUME IInv, NEW th, NEW i \in Incs, NEW e, Feed(th, i, e)
    PROVE  Kind' = Kind
<1>0. TypeOK /\ LifeInv /\ 1 \in Incs
    BY OneEntry DEF IInv
<1>1. PICK ackOk \in BOOLEAN : fsm' = [fsm EXCEPT ![i] = OnEvent(fsm[i], e, ackOk).fsm]
    BY DEF Feed
<1>2. OnEvent(fsm[i], e, ackOk).fsm.kind = fsm[i].kind
    BY <1>0, OnEventStep DEF LifeInv, GoodStep
<1> QED
    BY <1>0, <1>1, <1>2 DEF Kind, TypeOK

(* A transaction keeps its kind, whatever step is taken. *)
LEMMA KindStable == IInv /\ [Next]_vars => IsClient' = IsClient
<1> SUFFICES ASSUME IInv, [Next]_vars PROVE IsClient' = IsClient
    OBVIOUS
<1>0. /\ TypeOK /\ 1 \in Incs /\ (table # 0 => table \in Incs)
      /\ \A s \in Slots : ent[s] \in Incs
    BY OneEntry DEF IInv, TypeOK, Threads
<1>1. fsm' = fsm => IsClient' = IsClient
    BY DEF IsClient, Kind
<1>2. (\E th, e : \E i \in Incs : Feed(th, i, e)) => IsClient' = IsClient
    BY FeedKind DEF IsClient
<1>3. ASSUME NEW s \in Slots, Timer(s)
      PROVE  fsm' = fsm \/ \E th, e : \E i \in Incs : Feed(th, i, e)
    BY <1>0, <1>3 DEF Timer, TimerExpires, TimerBowsOut, FireTimer, FireFeeds, TimerDone, fsmVars
<1>4. ASSUME NEW th \in Threads, Exec(th) PROVE fsm' = fsm
    BY <1>4 DEF Exec, ExecSend, ExecDeliver, ExecArm, ExecCancel, ExecTerminate, fsmVars
<1>5. ASSUME Environment PROVE fsm' = fsm \/ \E th, e : \E i \in Incs : Feed(th, i, e)
    <2>1. CASE StartClientTxn \/ PeerRetransmits \/ PeerAcks
        BY <1>0, <2>1 DEF StartClientTxn, PeerRetransmits, PeerAcks
    <2>2. CASE TuSends
        BY <1>0, <2>2 DEF TuSends
    <2>3. CASE StartServerTxn \/ PeerResponds \/ TuRegistersAck
        BY <2>3 DEF StartServerTxn, PeerResponds, TuRegistersAck, fsmVars
    <2> QED
        BY <1>5, <2>1, <2>2, <2>3 DEF Environment
<1>6. ASSUME Listener PROVE fsm' = fsm \/ \E th, e : \E i \in Incs : Feed(th, i, e)
    BY <1>0, <1>6 DEF Listener, ListenerRecv, ListenerCancelled, AbsorbRecv, WindowCloses, fsmVars
<1>7. CASE UNCHANGED vars
    BY <1>1, <1>7 DEF vars
<1> QED
    BY <1>1, <1>2, <1>3, <1>4, <1>5, <1>6, <1>7 DEF Next

-----------------------------------------------------------------------------
(* The subscription: the listener leaves its live phase only after the     *)
(* token was flipped, when the entry was released.                         *)
LEMMA SubStep == IInv /\ SubInv /\ [Next]_vars => SubInv'
<1> SUFFICES ASSUME IInv, SubInv, [Next]_vars PROVE SubInv'
    OBVIOUS
<1> USE DEF SubInv
<1>0. TypeOK /\ LifeInv /\ (IsClient => table \in {0, 1}) /\ IInv' /\ IsClient' = IsClient
    BY OneEntry, NextInv, KindStable DEF IInv
<1>1. CASE StartClientTxn
    <2>1. sub' /\ lphase' = "live"
        BY <1>1 DEF StartClientTxn
    <2> QED
        BY <2>1
<1>2. CASE StartServerTxn
    BY <1>0, <1>2 DEF StartServerTxn, lisVars
<1>3. CASE ListenerCancelled
    <2>1. IsClient => table = 0
        BY <1>0, <1>3, OneEntry DEF ListenerCancelled, LifeInv
    <2>2. lphase = "live" /\ sub /\ table' = table
        BY <1>3 DEF ListenerCancelled, fsmVars
    <2>3. \/ lphase' = "absorb" /\ sub' = sub
          \/ lphase' = "exit" /\ sub' = FALSE
        BY <1>3 DEF ListenerCancelled, ListenerExit
    <2> QED
        BY <1>0, <2>1, <2>2, <2>3
<1>4. CASE WindowCloses
    <2>1. lphase' = "exit" /\ sub' = FALSE /\ lphase = "absorb" /\ table' = table
        BY <1>4 DEF WindowCloses, ListenerExit, fsmVars
    <2> QED
        BY <1>0, <2>1
<1>5. CASE UNCHANGED <<sub, lphase>> /\ table' \in {table, 0}
    BY <1>0, <1>5
<1> QED
    <2>1. ASSUME NEW s \in Slots, Timer(s) PROVE UNCHANGED <<sub, lphase, table>>
        BY <2>1 DEF Timer, TimerExpires, TimerBowsOut, FireTimer, FireFeeds, TimerDone, lisVars, fsmVars
    <2>2. ASSUME NEW th \in Threads, Exec(th) PROVE UNCHANGED <<sub, lphase>> /\ table' \in {table, 0}
        BY <2>2 DEF Exec, ExecSend, ExecDeliver, ExecArm, ExecCancel, ExecTerminate, lisVars, fsmVars
    <2>3. TuSends \/ PeerRetransmits \/ PeerAcks \/ PeerResponds \/ TuRegistersAck \/ ListenerRecv \/ AbsorbRecv
          => UNCHANGED <<sub, lphase, table>>
        BY DEF TuSends, PeerRetransmits, PeerAcks, PeerResponds, TuRegistersAck, ListenerRecv, AbsorbRecv,
               lisVars, fsmVars
    <2>4. CASE UNCHANGED vars
        BY <1>5, <2>4 DEF vars
    <2> QED
        BY <1>1, <1>2, <1>3, <1>4, <1>5, <2>1, <2>2, <2>3, <2>4 DEF Next, Environment, Listener

-----------------------------------------------------------------------------
(* Final responses, one action at a time. *)
LEMMA FinalStepEnvironment == IInv /\ SendInv /\ DeliverInv /\ Environment => SendInv' /\ DeliverInv'
<1> SUFFICES ASSUME IInv, SendInv, DeliverInv, Environment PROVE SendInv' /\ DeliverInv'
    OBVIOUS
<1>0. /\ TypeOK /\ LifeInv /\ 1 \in Incs /\ (table # 0 => table \in Incs /\ table <= started)
      /\ {"tu", "ingress", "listener"} \subseteq Threads
    BY OneEntry DEF IInv, TypeOK, LifeInv, Threads, Roles
<1>1. CASE StartClientTxn
    <2>1. /\ Feed("tu", 1, StartClient) /\ sent' = sent /\ tuFinals' = tuFinals /\ table' = 1 /\ tmr' = tmr
          /\ table <= started /\ started = 0
        BY <1>0, <1>1 DEF StartClientTxn, outVars, timerVars, LifeInv
    <2>2. table = 0
        BY <1>0, <2>1 DEF TypeOK, Incs
    <2>3. StartClient \notin {TimerFired("D"), TimerFired("K")}
        BY DEF StartClient, TimerFired
    <2>4. \A s \in Slots : LastingTask(s)' = LastingTask(s)
        BY <2>1 DEF LastingTask
    <2> QED
        BY <1>0, <2>1, <2>2, <2>3, <2>4, FeedView
<1>2. CASE TuSends \/ PeerRetransmits \/ PeerAcks
    <2>0. PICK th \in Threads :
              \E e : Feed(th, table, e) /\ e.ev # "timer" /\ table # 0
        <3>1. CASE TuSends
            BY <1>0, <3>1 DEF TuSends, TuResponse
        <3>2. CASE PeerRetransmits
            BY <1>0, <3>2 DEF PeerRetransmits, RequestRecv
        <3>3. CASE PeerAcks
            BY <1>0, <3>3 DEF PeerAcks, RequestRecv
        <3> QED
            BY <1>2, <3>1, <3>2, <3>3
    <2>1. PICK e : Feed(th, table, e) /\ e.ev # "timer" /\ table # 0
        BY <2>0
    <2>2. sent' = sent /\ tuFinals' = tuFinals /\ table' = table /\ tmr' = tmr
        BY <1>2 DEF TuSends, PeerRetransmits, PeerAcks, outVars, timerVars
    <2>3. e \notin {TimerFired("D"), TimerFired("K")}
        BY <2>1 DEF TimerFired
    <2>4. \A s \in Slots : LastingTask(s)' = LastingTask(s)
        BY <2>2 DEF LastingTask
    <2>5. (IsClient => table = 1) /\ table \in Incs
        BY <1>0, <2>1, Registered
    <2> QED
        BY <2>1, <2>2, <2>3, <2>4, <2>5, FeedView
<1>3. CASE StartServerTxn \/ PeerResponds \/ TuRegistersAck
    <2>1. UNCHANGED <<fsm, acts, ent, tuFinals, tmr>> /\ (table' = table \/ table = 0)
        BY <1>3 DEF StartServerTxn, PeerResponds, TuRegistersAck, fsmVars, batchVars, outVars, timerVars
    <2>2. \A i \in Incs : sent'[i] \subseteq sent[i] \cup {"ack2xx"}
        BY <1>0, <1>3, ZenonT(60) DEF StartServerTxn, PeerResponds, TuRegistersAck, outVars, TypeOK
    <2>3. \A s \in Slots : LastingTask(s)' = LastingTask(s)
        BY <2>1 DEF LastingTask
    <2> QED
        BY <2>1, <2>2, <2>3, QuietView
<1> QED
    BY <1>1, <1>2, <1>3 DEF Environment

(* Final responses in the steps of the listener. *)
LEMMA FinalStepListener == IInv /\ SendInv /\ DeliverInv /\ Listener => SendInv' /\ DeliverInv'
<1> SUFFICES ASSUME IInv, SendInv, DeliverInv, Listener PROVE SendInv' /\ DeliverInv'
    OBVIOUS
<1>0. /\ TypeOK /\ LifeInv /\ (table # 0 => table \in Incs /\ table <= started) /\ "listener" \in Threads
    BY DEF IInv, TypeOK, LifeInv, Threads, Roles
<1>1. CASE ListenerRecv /\ Head(rx) # "cseq" /\ table # 0
    <2>1. /\ Feed("listener", table, ResponseRecv(Head(rx)))
          /\ sent' = sent /\ tuFinals' = tuFinals /\ table' = table /\ tmr' = tmr
        BY <1>1 DEF ListenerRecv, outVars, timerVars
    <2>2. ResponseRecv(Head(rx)) \notin {TimerFired("D"), TimerFired("K")}
        BY DEF ResponseRecv, TimerFired
    <2>3. \A s \in Slots : LastingTask(s)' = LastingTask(s)
        BY <2>1 DEF LastingTask
    <2>4. (IsClient => table = 1) /\ table \in Incs
        BY <1>0, <1>1, Registered
    <2> QED
        BY <1>0, <2>1, <2>2, <2>3, <2>4, FeedView
<1>2. CASE \/ ListenerRecv /\ ~(Head(rx) # "cseq" /\ table # 0)
           \/ ListenerCancelled \/ AbsorbRecv \/ WindowCloses
    <2>1. UNCHANGED <<fsm, acts, ent, tuFinals, tmr, table>>
        BY <1>2 DEF ListenerRecv, ListenerCancelled, AbsorbRecv, WindowCloses, fsmVars, batchVars, outVars,
                    timerVars
    <2>2. \A i \in Incs : sent'[i] \subseteq sent[i] \cup {"ack2xx"}
        BY <1>0, <1>2, ZenonT(60) DEF ListenerRecv, ListenerCancelled, AbsorbRecv, WindowCloses, outVars, TypeOK
    <2>3. \A s \in Slots : LastingTask(s)' = LastingTask(s)
        BY <2>1 DEF LastingTask
    <2> QED
        BY <2>1, <2>2, <2>3, QuietView
<1> QED
    BY <1>1, <1>2 DEF Listener

(* Final responses in the steps of a timer task. *)
LEMMA FinalStepTimer ==
    ASSUME IInv, SendInv, DeliverInv, NEW s \in Slots, Timer(s)
    PROVE  SendInv' /\ DeliverInv'
<1>0. TypeOK /\ TimerInv /\ s \in Threads
    BY DEF IInv, Threads
<1>1. \A u \in Slots : LastingTask(u)' => LastingTask(u)
    <2>1. \A u \in Slots : tmr'[u] = tmr[u] \/ tmr'[u].st = "free" \/
                            (tmr[u].st # "free" /\ tmr'[u].id = tmr[u].id)
        BY <1>0 DEF Timer, TimerExpires, TimerBowsOut, FireTimer, FireFeeds, TimerDone, TypeOK, TimerTask, Free
    <2> QED
        BY <2>1 DEF LastingTask
<1>2. CASE FireFeeds(s)
    <2>1. /\ Feed(s, ent[s], TimerFired(tmr[s].id)) /\ tmr[s].st = "found"
          /\ sent' = sent /\ tuFinals' = tuFinals /\ table' = table
        BY <1>2 DEF FireFeeds, outVars
    <2>2. ent[s] \in Incs /\ ent[s] <= started
        BY <1>0, <2>1 DEF TypeOK, TimerInv
    <2>3. TimerFired(tmr[s].id) \in {TimerFired("D"), TimerFired("K")} => LastingTask(s)
        BY <2>1 DEF TimerFired, LastingTask, Lasting
    <2>4. (IsClient => ent[s] = 1) /\ (table = ent[s] \/ fsm[ent[s]].state = "Terminated")
        BY <2>2, Registered
    <2> QED
        BY <1>0, <1>1, <2>1, <2>2, <2>3, <2>4, FeedView
<1>3. CASE FireTimer(s)
    <2>1. UNCHANGED <<fsm, acts, sent, tuFinals, table>> /\ \A u \in Threads : u # s => ent'[u] = ent[u]
        BY <1>0, <1>3 DEF FireTimer, fsmVars, outVars, TypeOK
    <2>2. acts[s] = <<>> /\ \A x : ~Contains(acts[s], x)
        BY <1>0, <1>3, EmptyFacts DEF TimerInv, FireTimer
    <2>3. IsClient' = IsClient
        BY <2>1 DEF IsClient, Kind
    <2>4. SendInv'
        <3>1. \A i \in Incs, m \in Finals : Issued(i, m)' => Issued(i, m)
            BY <2>1, <2>2 DEF Issued
        <3> QED
            BY <2>1, <3>1 DEF SendInv
    <2>5. \A u \in Threads : HoldsFinal(u)' = HoldsFinal(u) /\ (HoldsFinal(u) => u # s)
        BY <2>1, <2>2 DEF HoldsFinal
    <2>6. HolderInv'
        BY <1>1, <2>1, <2>3, <2>5 DEF HolderInv, DeliverInv
    <2> QED
        BY <1>1, <2>1, <2>3, <2>4, <2>6 DEF DeliverInv
<1>4. CASE TimerExpires(s) \/ TimerBowsOut(s) \/ TimerDone(s)
    <2>1. UNCHANGED <<fsm, acts, ent, tuFinals, sent, table>>
        BY <1>4 DEF TimerExpires, TimerBowsOut, TimerDone, fsmVars, batchVars, outVars
    <2> QED
        BY <1>1, <2>1, QuietView
<1> QED
    BY <1>2, <1>3, <1>4 DEF Timer

(* Final responses when a task executes an action. *)
LEMMA FinalStepExec ==
    ASSUME IInv, SendInv, DeliverInv, NEW th \in Threads, Exec(th)
    PROVE  SendInv' /\ DeliverInv'
<1>0. TypeOK /\ BatchInv /\ ent[th] \in Incs /\ acts[th] # <<>> /\ Pop(th) /\ UNCHANGED <<fsm, ent>>
    BY DEF IInv, TypeOK, Exec, ExecSend, ExecDeliver, ExecArm, ExecCancel, ExecTerminate, NextIs, fsmVars
<1> DEFINE a == Head(acts[th])
<1>1. a \in ActionSet /\ BatchOK(acts[th])
    BY <1>0, PopFacts DEF BatchInv
<1>2. /\ a.do = "send" => a = Send(a.arg) /\ a.arg \in Messages
      /\ a.do = "deliver" => a = Deliver(a.arg)
      /\ a.do = "arm" => a = Arm(a.arg)
      /\ a.do = "terminated" => a = Terminated
    BY <1>1 DEF ActionSet, Send, Deliver, Arm, Terminated, Messages, None
<1>3. CASE ExecSend(th)
    <2>1. a.do = "send" /\ sent' = [sent EXCEPT ![ent[th]] = @ \cup {a.arg}]
          /\ UNCHANGED <<table, tmr, tuFinals>>
        BY <1>3 DEF ExecSend, NextIs, Arg, fsmVars, timerVars
    <2>2. \A i \in Incs : sent'[i] \subseteq
              sent[i] \cup {m \in Finals \cup (Messages \ Finals) : i = ent[th] /\ a = Send(m)}
        BY <1>0, <1>2, <2>1 DEF TypeOK
    <2>3. \A s \in Slots : LastingTask(s)' = LastingTask(s)
        BY <2>1 DEF LastingTask
    <2> QED
        BY <1>0, <2>1, <2>2, <2>3, PopView
<1>4. CASE ExecDeliver(th)
    <2>1. a.do = "deliver" /\ UNCHANGED <<table, tmr, sent>>
          /\ tuFinals' = [tuFinals EXCEPT ![ent[th]] = IF a.arg \in Finals THEN @ + 1 ELSE @]
        BY <1>4 DEF ExecDeliver, NextIs, Arg, fsmVars, timerVars
    <2>2. \A i \in Incs :
              \/ tuFinals'[i] = tuFinals[i]
              \/ /\ i = ent[th] /\ \E m \in Finals : a = Deliver(m)
                 /\ tuFinals'[i] = tuFinals[i] + 1
        BY <1>0, <1>2, <2>1 DEF TypeOK
    <2>3. \A s \in Slots : LastingTask(s)' = LastingTask(s)
        BY <2>1 DEF LastingTask
    <2> QED
        BY <1>0, <2>1, <2>2, <2>3, PopView
<1>5. CASE ExecArm(th)
    <2>1. a.do = "arm" /\ UNCHANGED <<table, sent, tuFinals>>
        BY <1>5 DEF ExecArm, NextIs, fsmVars, outVars
    <2>2. \A s \in Slots : LastingTask(s)' => LastingTask(s) \/ \E g \in Lasting : a = Arm(g)
        <3>0. PICK s0 \in Slots : \E old :
                  tmr' = [Abort(tmr, old) EXCEPT ![s0] = [st |-> "sleep", id |-> a.arg, inc |-> ent[th]]]
            <4>1. FreeSlots \subseteq Slots /\ FreeSlots # {}
                BY <1>5 DEF ExecArm, FreeSlots
            <4>2. (CHOOSE s \in FreeSlots : TRUE) \in FreeSlots
                BY <4>1
            <4> QED
                BY <1>5, <4>1, <4>2 DEF ExecArm, Arg
        <3>1. PICK old :
                  tmr' = [Abort(tmr, old) EXCEPT ![s0] = [st |-> "sleep", id |-> a.arg, inc |-> ent[th]]]
            BY <3>0
        <3>2. \A s \in Slots : Abort(tmr, old)[s] \in {tmr[s], Free}
            BY <1>0 DEF Abort, TypeOK
        <3>3. Abort(tmr, old) \in [Slots -> TimerTask \cup {Free}]
            BY <1>0 DEF Abort, TypeOK
        <3>4. \A s \in Slots : tmr'[s] = IF s = s0 THEN [st |-> "sleep", id |-> a.arg, inc |-> ent[th]]
                                                   ELSE Abort(tmr, old)[s]
            BY <3>1, <3>3
        <3> QED
            BY <1>2, <2>1, <3>2, <3>4, SMTT(30) DEF LastingTask, Free
    <2> QED
        BY <1>0, <2>1, <2>2, PopView
<1>6. CASE ExecCancel(th)
    <2>1. UNCHANGED <<table, sent, tuFinals>>
        BY <1>6 DEF ExecCancel, fsmVars, outVars
    <2>2. \A s \in Slots : tmr'[s] \in {tmr[s], Free}
        BY <1>0, <1>6 DEF ExecCancel, Abort, TypeOK
    <2>3. \A s \in Slots : LastingTask(s)' => LastingTask(s)
        BY <2>2 DEF LastingTask, Free
    <2> QED
        BY <1>0, <2>1, <2>3, PopView
<1>7. CASE ExecTerminate(th)
    <2>1. a = Terminated /\ UNCHANGED <<sent, tuFinals>>
        BY <1>2, <1>7 DEF ExecTerminate, NextIs
    <2>2. \A s \in Slots : tmr'[s] \in {tmr[s], Free}
        BY <1>0, <1>7 DEF ExecTerminate, Abort, TypeOK
    <2>3. \A s \in Slots : LastingTask(s)' => LastingTask(s)
        BY <2>2 DEF LastingTask, Free
    <2> QED
        BY <1>0, <2>1, <2>3, PopView
<1> QED
    BY <1>3, <1>4, <1>5, <1>6, <1>7 DEF Exec

(* Every step preserves the invariant about what is seen of a transaction. *)
LEMMA ViewStep == IInv /\ ViewInv /\ [Next]_vars => ViewInv'
<1> SUFFICES ASSUME IInv, ViewInv, [Next]_vars PROVE ViewInv'
    OBVIOUS
<1>1. SubInv'
    BY SubStep DEF ViewInv
<1>2. CASE Next
    BY <1>1, <1>2, FinalStepEnvironment, FinalStepListener, FinalStepTimer, FinalStepExec DEF Next, ViewInv
<1>3. CASE UNCHANGED vars
    <2>1. UNCHANGED <<fsm, acts, ent, tuFinals, sent, table, tmr>>
        BY <1>3 DEF vars
    <2>2. \A s \in Slots : LastingTask(s)' = LastingTask(s)
        BY <2>1 DEF LastingTask
    <2> QED
        BY <1>1, <2>1, <2>2, QuietView DEF ViewInv
<1> QED
    BY <1>2, <1>3

(* Both invariants hold for ever. *)
LEMMA SpecView == Spec => [](IInv /\ ViewInv)
BY InitInv, NextInv, ViewInit, ViewStep, PTL DEF Spec

(* However many finals the peer sends, whatever order the batches of the   *)
(* listener, of the timers and of the TU interleave in: the client TU is   *)
(* given one final at most, a server never puts two different finals of a  *)
(* transaction on the wire, and the branch stays subscribed for as long as *)
(* the transaction or its 2xx window lives (driver.rs: execute_actions,    *)
(* spawn_response_listener).                                               *)
THEOREM ClientViewIsSound == Spec => []ClientViewSound
<1>1. IInv /\ ViewInv => ClientViewSound
    <2> SUFFICES ASSUME IInv, ViewInv PROVE ClientViewSound
        OBVIOUS
    <2>1. OneFinal
        <3>1. \A i \in Incs : ~(Finals \subseteq sent[i])
            BY DEF ViewInv, SendInv, Issued, Finals
        <3> QED
            BY <3>1 DEF OneFinal, ViewInv, DeliverInv
    <2>2. SubscriptionTracksListener
        BY DEF ViewInv, SubInv, SubscriptionTracksListener
    <2> QED
        BY <2>1, <2>2 DEF ClientViewSound
<1> QED
    BY <1>1, SpecView, PTL

(* A final response reaches the TU before Terminated does, whichever tasks *)
(* hold the two batches: UacClient never takes an answered call for one    *)
(* that timed out (driver.rs: execute_actions, terminate).                 *)
THEOREM FinalComesBeforeEnd == Spec => FinalBeforeEnd
<1>1. ASSUME IInv, ViewInv, [Next]_vars
      PROVE  [\A i \in Incs : tuFinals'[i] # tuFinals[i] => tuEnds[i] = 0]_vars
    <2>1. CASE UNCHANGED vars
        BY <2>1
    <2>2. CASE \E th \in Threads : ExecDeliver(th)
        <3>1. PICK th \in Threads : ExecDeliver(th)
            BY <2>2
        <3>2. SUFFICES ASSUME NEW i \in Incs, tuFinals'[i] # tuFinals[i] PROVE tuEnds[i] = 0
            OBVIOUS
        <3>3. TypeOK /\ LifeInv /\ BatchInv /\ acts[th] # <<>>
            BY <1>1, <3>1 DEF IInv, ExecDeliver, NextIs
        <3>4. i = ent[th] /\ Head(acts[th]).arg \in Finals /\ Head(acts[th]).do = "deliver"
            BY <3>1, <3>2, <3>3 DEF ExecDeliver, NextIs, Arg, TypeOK
        <3>5. Head(acts[th]) \in ActionSet /\ Contains(acts[th], Head(acts[th]))
            BY <3>3, PopFacts DEF BatchInv
        <3>6. Head(acts[th]) = Deliver(Head(acts[th]).arg)
            BY <3>4, <3>5 DEF ActionSet, Deliver, Terminated
        <3>7. HoldsFinal(th)
            BY <3>4, <3>5, <3>6 DEF HoldsFinal
        <3>8. table = i /\ i <= started
            BY <1>1, <3>3, <3>4, <3>7 DEF ViewInv, DeliverInv, HolderInv, BatchInv
        <3> QED
            BY <3>3, <3>8 DEF LifeInv
    <2>3. CASE Next /\ ~\E th \in Threads : ExecDeliver(th)
        <3>1. tuFinals' = tuFinals
            <4>1. CASE Environment
                BY <4>1 DEF Environment, StartClientTxn, StartServerTxn, TuSends, PeerRetransmits, PeerAcks,
                            PeerResponds, TuRegistersAck, outVars
            <4>2. CASE Listener
                BY <4>2 DEF Listener, ListenerRecv, ListenerCancelled, AbsorbRecv, WindowCloses, outVars
            <4>3. CASE \E s \in Slots : Timer(s)
                BY <4>3 DEF Timer, TimerExpires, TimerBowsOut, FireTimer, FireFeeds, TimerDone, outVars
            <4>4. CASE \E th \in Threads : Exec(th)
                BY <2>3, <4>4 DEF Exec, ExecSend, ExecArm, ExecCancel, ExecTerminate, outVars
            <4> QED
                BY <2>3, <4>1, <4>2, <4>3, <4>4 DEF Next
        <3> QED
            BY <3>1
    <2> QED
        BY <1>1, <2>1, <2>2, <2>3
<1> QED
    BY <1>1, SpecView, PTL DEF Spec, FinalBeforeEnd
=============================================================================
