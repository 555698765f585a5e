------------------------------ MODULE IceAgent ------------------------------
(***************************************************************************)
(* Two ICE agents (crates/smiths-ice/src/agent.rs), each driven by         *)
(* run_to_completion (crates/smiths-cli/src/ice_driver.rs), and the        *)
(* network between them.                                                   *)
(*                                                                         *)
(* Every agent has one socket.  It is known under its own address (Host)   *)
(* and, behind a NAT, under the address the NAT gives it (Mapped).  A pair *)
(* is a local and a remote address.  The network is a function: what x     *)
(* sends to an address of its peer arrives from one of the addresses of x, *)
(* or nowhere.  Datagrams are lost, delayed, reordered and duplicated:     *)
(* whatever was sent may be delivered at any time and again.  This covers  *)
(* the retransmissions, which repeat the same bytes.                       *)
(*                                                                         *)
(* Priorities only order the checks of an agent and are abstracted to any  *)
(* order; the credentials are the right ones on both sides.                *)
(***************************************************************************)
EXTENDS Naturals, Sequences, FiniteSets

CONSTANTS
    Small, Large,  \* the agents, with the smaller and the larger tie-breaker
    MaxChecks,     \* checks an agent sends (bound)
    MaxTriggered,  \* length of the queue of triggered checks (bound)
    Conflict,      \* whether the negotiated roles may conflict
    Topologies     \* the networks between the agents: [net |-> as the variable,
                   \*   nat |-> the agents that can learn their Mapped address]

ASSUME AgentsAssumption == Small # Large
ASSUME BoundsAssumption ==
    MaxChecks \in Nat /\ MaxTriggered \in Nat \ {0} /\ Conflict \in BOOLEAN

Agents == {Small, Large}
Peer(x) == IF x = Small THEN Large ELSE Small
Host == 1
Mapped == 2
Addrs == {Host, Mapped}

ASSUME TopologiesAssumption ==
    Topologies \subseteq [net : [Agents -> [Addrs -> Addrs \cup {0}]], nat : SUBSET Agents]

Pairs == Addrs \X Addrs
Roles == {"controlling", "controlled"}
Other(r) == IF r = "controlling" THEN "controlled" ELSE "controlling"

VARIABLES
    net,         \* [Agents -> [Addrs -> address it arrives from, or 0]]
    gathered,    \* agents that know and advertise their Mapped address
    driver,      \* [Agents -> run_to_completion: running, or how it returned]
    agent,       \* [Agents -> IceAgent]
    checksSent,  \* checks sent
    answersSent  \* answers sent

iceVars == <<net, gathered, driver, agent, checksSent, answersSent>>

Checks == [src : Agents, id : 1 .. MaxChecks, pair : Pairs, role : Roles, nominating : BOOLEAN]
Replies == [to : Agents, id : 1 .. MaxChecks, kind : {"success", "conflict"}, from : Addrs,
            mapped : Addrs]
Trigger(p, nominate) == [pair |-> p, nominate |-> nominate]
NoPair == <<>>

IceAgents ==
    [role : Roles, state : {"Checking", "Completed", "Failed"},
     locals : SUBSET Addrs, remotes : SUBSET Addrs,
     pair : [Pairs -> {"none", "Waiting", "InProgress", "Succeeded", "Failed"}],
     asked : SUBSET Pairs,              \* nominate_requested
     selected : Pairs \cup {NoPair},
     inflight : BOOLEAN,                \* nomination_in_flight
     triggered : UNION {[1 .. n -> [pair : Pairs, nominate : BOOLEAN]] : n \in 0 .. MaxTriggered},
     pending : SUBSET Checks]

-----------------------------------------------------------------------------
(* The methods of IceAgent, on an agent a *)

(* form_pair of a remote candidate with every local one. *)
Form(pairs, ls, r) ==
    [p \in Pairs |-> IF pairs[p] = "none" /\ p[1] \in ls /\ p[2] = r THEN "Waiting" ELSE pairs[p]]

AddRemoteCandidate(a, r) ==
    IF r \in a.remotes THEN a
    ELSE [a EXCEPT !.remotes = @ \cup {r}, !.pair = Form(@, a.locals, r),
                   !.state = IF @ = "Failed" THEN "Checking" ELSE @]

NewAgent(role, ls) ==
    AddRemoteCandidate(
        [role |-> role, state |-> "Checking", locals |-> ls, remotes |-> {},
         pair |-> [p \in Pairs |-> "none"], asked |-> {}, selected |-> NoPair, inflight |-> FALSE,
         triggered |-> <<>>, pending |-> {}], Host)

UpdateFailure(a) ==
    IF /\ a.state = "Checking"
       /\ a.pending = {}
       /\ a.triggered = <<>>
       /\ \A p \in Pairs : a.pair[p] \in {"none", "Failed"}
    THEN [a EXCEPT !.state = "Failed"]
    ELSE a

Nominate(a, p) ==
    IF a.state = "Completed" THEN a
    ELSE [a EXCEPT !.selected = p, !.state = "Completed", !.pending = {}, !.triggered = <<>>]

(* A check of a pair ended without a success. *)
CheckFails(a, c) ==
    [a EXCEPT !.pair[c.pair] = "Failed", !.inflight = @ /\ ~c.nominating]

-----------------------------------------------------------------------------
(* Nothing has been negotiated yet. *)
IceInit ==
    /\ net = [x \in Agents |-> [r \in Addrs |-> 0]]
    /\ gathered = {}
    /\ driver = [x \in Agents |-> "new"]
    /\ agent = [x \in Agents |-> NewAgent("controlled", {Host})]
    /\ checksSent = {}
    /\ answersSent = {}

(* gather_all: a host candidate for the socket and, when a STUN server answered, the *)
(* mapped address as a server-reflexive one *)
Gathered(x, knows) == IF x \in knows THEN Addrs ELSE {Host}

(* build_agent and run_to_completion on both sides *)
Start(topology, knows, roles) ==
    /\ \A x \in Agents : driver[x] = "new"
    /\ knows \subseteq topology.nat
    /\ Conflict \/ roles[Small] # roles[Large]
    /\ net' = topology.net
    /\ gathered' = knows
    /\ driver' = [x \in Agents |-> "running"]
    /\ agent' = [x \in Agents |-> NewAgent(roles[x], Gathered(x, knows))]
    /\ UNCHANGED <<checksSent, answersSent>>

Becomes(x, a) == agent' = [agent EXCEPT ![x] = a]
Checking(x) == driver[x] = "running" /\ agent[x].state = "Checking"

(* tick: the last retransmission of a check has gone unanswered. *)
CheckTimesOut(x) ==
    /\ Checking(x)
    /\ \E c \in agent[x].pending :
          LET a == [agent[x] EXCEPT !.pending = @ \ {c}] IN
          Becomes(x, UpdateFailure(
              IF a.pair[c.pair] = "Succeeded" THEN [a EXCEPT !.inflight = @ /\ ~c.nominating]
              ELSE CheckFails(a, c)))
    /\ UNCHANGED <<net, gathered, driver, checksSent, answersSent>>

(* A pair of a local candidate without a socket is not sent, and stays as  *)
(* it is.                                                                  *)
HasSocket(x, p) == p[1] = Host \/ x \in gathered

SendCheck(x, a, p, nominate) ==
    LET c == [src |-> x, id |-> Cardinality({q \in checksSent : q.src = x}) + 1, pair |-> p,
              role |-> a.role, nominating |-> nominate]
    IN  IF HasSocket(x, p)
        THEN /\ c.id <= MaxChecks
             /\ checksSent' = checksSent \cup {c}
             /\ Becomes(x, [a EXCEPT !.pending = @ \cup {c},
                                     !.pair[p] = IF @ = "Succeeded" THEN @ ELSE "InProgress"])
        ELSE Becomes(x, UpdateFailure(a)) /\ UNCHANGED checksSent

(* next_triggered throws away what is being checked or has failed. *)
Eligible(a) ==
    {i \in DOMAIN a.triggered : a.pair[a.triggered[i].pair] \in {"Waiting", "Succeeded"}}

(* tick: a triggered check. *)
TickTriggered(x) ==
    /\ Checking(x)
    /\ \E i \in Eligible(agent[x]) :
          /\ \A j \in Eligible(agent[x]) : i <= j
          /\ SendCheck(x, [agent[x] EXCEPT !.triggered = SubSeq(@, i + 1, Len(@))],
                       agent[x].triggered[i].pair, agent[x].triggered[i].nominate)
    /\ UNCHANGED <<net, gathered, driver, answersSent>>

(* tick: an ordinary one, when there is none. *)
TickOrdinary(x) ==
    /\ Checking(x)
    /\ Eligible(agent[x]) = {}
    /\ \E p \in Pairs :
          /\ agent[x].pair[p] = "Waiting"
          /\ SendCheck(x, [agent[x] EXCEPT !.triggered = <<>>], p, FALSE)
    /\ UNCHANGED <<net, gathered, driver, answersSent>>

(* tick with nothing to send. *)
TickIdle(x) ==
    /\ Checking(x)
    /\ Eligible(agent[x]) = {}
    /\ \A p \in Pairs : agent[x].pair[p] # "Waiting"
    /\ Becomes(x, UpdateFailure([agent[x] EXCEPT !.triggered = <<>>]))
    /\ UNCHANGED <<net, gathered, driver, checksSent, answersSent>>

-----------------------------------------------------------------------------
(* Inbound *)

Reply(x, c, kind, from) ==
    answersSent' = IF net[x][from] = 0 THEN answersSent
               ELSE answersSent \cup {[to |-> c.src, id |-> c.id, kind |-> kind,
                                   from |-> net[x][from], mapped |-> from]}

(* A check on the pair of this socket and the address it came from. *)
Checked(a, p) ==
    CASE a.pair[p] = "Succeeded"  -> IF p \in a.asked THEN Nominate(a, p) ELSE a
      [] a.pair[p] = "InProgress" -> a
      [] OTHER -> [a EXCEPT !.pair[p] = "Waiting", !.triggered = Append(@, Trigger(p, FALSE))]

(* handle_request: on a conflict the larger tie-breaker decides who is     *)
(* controlling.                                                            *)
HandleRequest(x) ==
    /\ Checking(x)
    /\ \E c \in checksSent :
          LET a == agent[x]
              from == net[c.src][c.pair[2]]
              p == <<Host, from>>
              conflict == c.role = a.role
              keeps == conflict /\ (a.role = "controlling" <=> x = Large)
              b == AddRemoteCandidate([a EXCEPT !.role = IF conflict THEN Other(@) ELSE @], from)
              nominates == c.nominating /\ c.role = "controlling" /\ b.role = "controlled"
          IN  /\ c.src = Peer(x)
              /\ from # 0
              /\ IF keeps
                 THEN Reply(x, c, "conflict", from) /\ UNCHANGED agent
                 ELSE /\ Reply(x, c, "success", from)
                      /\ Len(a.triggered) < MaxTriggered
                      /\ Becomes(x, Checked(IF nominates THEN [b EXCEPT !.asked = @ \cup {p}] ELSE b, p))
    /\ UNCHANGED <<net, gathered, driver, checksSent>>

SymmetricMut(c, m) == TRUE

(* The answer must come from where the check went, to the address it left from: the   *)
(* driver always names its socket's own address.                                      *)
Symmetric(c, m) == m.from = c.pair[2] /\ c.pair[1] = Host

(* handle_success *)
Succeeds(a, c, m) ==
    LET b == [a EXCEPT !.pair[c.pair] = "Succeeded", !.locals = @ \cup {m.mapped}] IN
    IF ~Symmetric(c, m) THEN UpdateFailure(CheckFails(a, c))
    ELSE IF c.nominating \/ c.pair \in a.asked THEN Nominate(b, c.pair)
    ELSE IF a.role = "controlling" /\ ~a.inflight /\ a.selected = NoPair
         THEN [b EXCEPT !.inflight = TRUE, !.triggered = <<Trigger(c.pair, TRUE)>> \o @]
    ELSE b

HandleSuccess(x) ==
    /\ Checking(x)
    /\ \E c \in agent[x].pending, m \in answersSent :
          /\ m.to = x /\ m.id = c.id /\ m.kind = "success"
          /\ Becomes(x, Succeeds([agent[x] EXCEPT !.pending = @ \ {c}], c, m))
    /\ UNCHANGED <<net, gathered, driver, checksSent, answersSent>>

(* handle_error, 487: the role is flipped and the check repeated. *)
HandleConflict(x) ==
    /\ Checking(x)
    /\ \E c \in agent[x].pending, m \in answersSent :
          /\ m.to = x /\ m.id = c.id /\ m.kind = "conflict"
          /\ Becomes(x, [agent[x] EXCEPT !.pending = @ \ {c}, !.role = Other(@),
                                         !.pair[c.pair] = "Waiting", !.inflight = FALSE,
                                         !.triggered = Append(@, Trigger(c.pair, FALSE))])
    /\ UNCHANGED <<net, gathered, driver, checksSent, answersSent>>

(* A trickled candidate, at any time. *)
Trickle(x) ==
    /\ Peer(x) \in gathered
    /\ Mapped \notin agent[x].remotes
    /\ Becomes(x, AddRemoteCandidate(agent[x], Mapped))
    /\ UNCHANGED <<net, gathered, driver, checksSent, answersSent>>

-----------------------------------------------------------------------------
(* run_to_completion returns: the socket is not read any more. *)
DriverReturns(x) ==
    /\ driver[x] = "running"
    /\ agent[x].state # "Checking"
    /\ driver' = [driver EXCEPT ![x] = IF agent[x].state = "Completed" THEN "selected" ELSE "failed"]
    /\ UNCHANGED <<net, gathered, agent, checksSent, answersSent>>

DriverTimesOut(x) ==
    /\ Checking(x)
    /\ driver' = [driver EXCEPT ![x] = "timeout"]
    /\ UNCHANGED <<net, gathered, agent, checksSent, answersSent>>

AgentStep(x) ==
    \/ CheckTimesOut(x)
    \/ TickTriggered(x)
    \/ TickOrdinary(x)
    \/ TickIdle(x)
    \/ HandleRequest(x)
    \/ HandleSuccess(x)
    \/ HandleConflict(x)
    \/ Trickle(x)
    \/ DriverReturns(x)
    \/ DriverTimesOut(x)

IceNext ==
    \/ \E topology \in Topologies, knows \in SUBSET Agents, roles \in [Agents -> Roles] :
          Start(topology, knows, roles)
    \/ \E x \in Agents : AgentStep(x)

IceSpec == IceInit /\ [][IceNext]_iceVars
-----------------------------------------------------------------------------
Works(x, p) ==
    LET seen == net[x][p[2]] IN seen # 0 /\ net[Peer(x)][seen] = p[2]

(* The addresses of Small and of Large on the path of a pair of x. *)
Ends(x, p) == IF x = Small THEN <<net[x][p[2]], p[2]>> ELSE <<p[2], net[x][p[2]]>>
Nominations == {c \in checksSent : c.nominating}

(* A selected pair carries media both ways: what is sent to it arrives, and what is    *)
(* sent back to where it came from arrives from the selected address, whatever checks, *)
(* retransmissions and role changes preceded; and one of the two agents nominated that *)
(* path (agent.rs: handle_success, handle_request, nominate).  It does not say that    *)
(* the two agents select the same path: a nomination that times out is followed by one *)
(* of another pair, and the peer may still complete on the first.                      *)
SelectedPathWorks ==
    \A x \in Agents : agent[x].state = "Completed" =>
        /\ Works(x, agent[x].selected)
        /\ \E c \in Nominations : Ends(c.src, c.pair) = Ends(x, agent[x].selected)
=============================================================================
