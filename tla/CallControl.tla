---------------------------- MODULE CallControl ----------------------------
(***************************************************************************)
(* Outbound calls and the control plane over them: UacClient               *)
(* (crates/smiths-sip/src/uac.rs), the registry of calls the control tools *)
(* read (crates/smiths-mcp/src/control.rs, tools/call.rs), and the drain   *)
(* at shutdown (crates/smiths-cli/src/shutdown.rs).                        *)
(*                                                                         *)
(* Calls are placed and hung up by concurrent tool calls and by the drain. *)
(* The registry learns of them only through the event bus, whose buffer is *)
(* bounded: a subscriber that lags loses the oldest events.  The client    *)
(* transactions (TxnDriver) appear as what they report: a final response,  *)
(* or none before the deadline.                                            *)
(***************************************************************************)
EXTENDS Naturals, Sequences, FiniteSets

CONSTANTS
    Calls,       \* outbound calls
    Clients,     \* concurrent callers of the control tools
    Drainer,     \* the shutdown task
    BusDepth,    \* capacity of the event bus
    MaxTools,    \* end_call, bridge_calls and unbridge_call requests (bound)
    MaxBridges   \* bridges created (bound)

ASSUME DrainerAssumption == Drainer \notin Clients
ASSUME CallBoundsAssumption ==
    BusDepth \in Nat \ {0} /\ MaxTools \in Nat /\ MaxBridges \in Nat

Users == Clients \cup {Drainer}

VARIABLES
    place,      \* [Calls -> progress of place_call]
    peer,       \* [Calls -> the dialog at the remote end]
    endpoints,  \* calls whose media endpoint is allocated
    dialogs,    \* UacClient::dialogs
    bus,        \* events ControlState has not received
    lagged,     \* whether it has lost any
    phase,      \* [Calls -> CallPhase in the registry, "unknown" when absent]
    bridgeOf,   \* [Calls -> bridge_id in the registry, 0 for none]
    bridges,    \* UdpMediaFabric::bridges
    bridgesMade,       \* bridges created so far, against MaxBridges
    tool,       \* [Users -> what the tool call, or the drain's hangup, does]
    tools,      \* tool requests so far, against MaxTools
    overlap,    \* history: two bridge or unbridge requests ran at once
    drain       \* the drain: pc, calls to hang up, those listed, those it could not end

callVars == <<place, peer, endpoints, dialogs>>
busVars == <<bus, lagged, phase>>
bridgeVars == <<bridgeOf, bridges, bridgesMade, overlap>>
controlVars == <<callVars, busVars, bridgeVars, tool, tools, drain>>

CallEvent(k, c) == [kind |-> k, call |-> c]
IdleUser == [pc |-> "idle"]
Hanging(pc, c) == [pc |-> pc, call |-> c]
Bridging(pc, a, b, old, new) == [pc |-> pc, call |-> a, other |-> b, old |-> old, new |-> new]

CallsTypeOK ==
    /\ place \in [Calls -> {"new", "ringing", "acked", "inserted", "up", "failed", "tagless"}]
    /\ peer \in [Calls -> {"idle", "answered", "confirmed", "over"}]
    /\ endpoints \subseteq Calls
    /\ dialogs \subseteq endpoints
    /\ bus \in Seq([kind : {"created", "terminated"}, call : Calls]) /\ Len(bus) <= BusDepth
    /\ lagged \in BOOLEAN
    /\ phase \in [Calls -> {"unknown", "Live", "Terminated"}]
    /\ bridgeOf \in [Calls -> 0 .. MaxBridges]
    /\ bridges \subseteq 1 .. bridgesMade
    /\ bridgesMade \in 0 .. MaxBridges
    /\ \A u \in Users :
          \/ tool[u] = IdleUser
          \/ tool[u] \in [pc : {"bye", "ok", "removed"}, call : Calls]
          \/ tool[u] \in [pc : {"release", "unbridge", "bridge", "record"}, call : Calls,
                          other : Calls, old : SUBSET (1 .. MaxBridges), new : 0 .. MaxBridges]
    /\ tools \in 0 .. MaxTools
    /\ overlap \in BOOLEAN
    /\ drain \in [pc : {"off", "on", "down"}, todo : SUBSET Calls, listed : SUBSET Calls,
                  unended : SUBSET Calls]

CallsInit ==
    /\ place = [c \in Calls |-> "new"]
    /\ peer = [c \in Calls |-> "idle"]
    /\ endpoints = {}
    /\ dialogs = {}
    /\ bus = <<>>
    /\ lagged = FALSE
    /\ phase = [c \in Calls |-> "unknown"]
    /\ bridgeOf = [c \in Calls |-> 0]
    /\ bridges = {}
    /\ bridgesMade = 0
    /\ tool = [u \in Users |-> IdleUser]
    /\ tools = 0
    /\ overlap = FALSE
    /\ drain = [pc |-> "off", todo |-> {}, listed |-> {}, unended |-> {}]

Running == drain.pc # "down"
Placed(c, pc) == place' = [place EXCEPT ![c] = pc]
Does(u, t) == tool' = [tool EXCEPT ![u] = t]

(* EventBus::publish: a full buffer overwrites the oldest event. *)
Publish(e) ==
    /\ bus' = IF Len(bus) < BusDepth THEN Append(bus, e) ELSE Append(Tail(bus), e)
    /\ lagged' = (lagged \/ Len(bus) = BusDepth)

-----------------------------------------------------------------------------
(* UacClient::place_call *)

(* The media endpoint is allocated and the INVITE goes out. *)
PlaceCall(c) ==
    /\ Running
    /\ place[c] = "new"
    /\ endpoints' = endpoints \cup {c}
    /\ Placed(c, "ringing")
    /\ UNCHANGED <<peer, dialogs, busVars, bridgeVars, tool, tools, drain>>

(* The remote party accepts; its 2xx may still be on its way, or come too  *)
(* late.                                                                   *)
PeerAnswers(c) ==
    /\ place[c] \in {"ringing", "failed"}
    /\ peer[c] = "idle"
    /\ peer' = [peer EXCEPT ![c] = "answered"]
    /\ UNCHANGED <<place, endpoints, dialogs, busVars, bridgeVars, tool, tools, drain>>

(* It refuses, and the UAC releases the endpoint. *)
Rejected(c) ==
    /\ place[c] = "ringing"
    /\ peer[c] = "idle"
    /\ peer' = [peer EXCEPT ![c] = "over"]
    /\ endpoints' = endpoints \ {c}
    /\ Placed(c, "failed")
    /\ UNCHANGED <<dialogs, busVars, bridgeVars, tool, tools, drain>>

(* Mutant: the endpoint of a call that was never answered is kept. *)
GivesUpMut(c) ==
    /\ place[c] = "ringing"
    /\ Placed(c, "failed")
    /\ UNCHANGED <<peer, endpoints, dialogs, busVars, bridgeVars, tool, tools, drain>>

(* Timer B, or the deadline before it. *)
GivesUp(c) ==
    /\ place[c] = "ringing"
    /\ endpoints' = endpoints \ {c}
    /\ Placed(c, "failed")
    /\ UNCHANGED <<peer, dialogs, busVars, bridgeVars, tool, tools, drain>>

(* A 200 without a To tag: neither ACK nor release. *)
TaglessOk(c) ==
    /\ place[c] = "ringing"
    /\ peer[c] = "answered"
    /\ Placed(c, "tagless")
    /\ UNCHANGED <<peer, endpoints, dialogs, busVars, bridgeVars, tool, tools, drain>>

(* The ACK is registered with the driver, which repeats it, and sent. *)
Acks(c) ==
    /\ place[c] = "ringing"
    /\ peer[c] = "answered"
    /\ Placed(c, "acked")
    /\ UNCHANGED <<peer, endpoints, dialogs, busVars, bridgeVars, tool, tools, drain>>

AckArrives(c) ==
    /\ place[c] \in {"acked", "inserted", "up"}
    /\ peer[c] = "answered"
    /\ peer' = [peer EXCEPT ![c] = "confirmed"]
    /\ UNCHANGED <<place, endpoints, dialogs, busVars, bridgeVars, tool, tools, drain>>

(* The remote party hangs up, or gives up waiting for the ACK.  Its BYE    *)
(* reaches the UAS, which does not know the dialog and answers 481.        *)
PeerHangsUp(c) ==
    /\ peer[c] \in {"answered", "confirmed"}
    /\ peer' = [peer EXCEPT ![c] = "over"]
    /\ UNCHANGED <<place, endpoints, dialogs, busVars, bridgeVars, tool, tools, drain>>

InsertsDialog(c) ==
    /\ place[c] = "acked"
    /\ dialogs' = dialogs \cup {c}
    /\ Placed(c, "inserted")
    /\ UNCHANGED <<peer, endpoints, busVars, bridgeVars, tool, tools, drain>>

PublishesCreated(c) ==
    /\ place[c] = "inserted"
    /\ Publish(CallEvent("created", c))
    /\ Placed(c, "up")
    /\ UNCHANGED <<peer, endpoints, dialogs, phase, bridgeVars, tool, tools, drain>>

-----------------------------------------------------------------------------
(* UacClient::hangup, called by end_call and by the drain *)

Unended(u) ==
    drain' = IF u = Drainer THEN [drain EXCEPT !.unended = @ \cup {tool[u].call}] ELSE drain

(* The BYE arrives and is answered 200. *)
ByeOk(u) ==
    /\ tool[u].pc = "bye"
    /\ peer[tool[u].call] \in {"answered", "confirmed"}
    /\ peer' = [peer EXCEPT ![tool[u].call] = "over"]
    /\ Does(u, [tool[u] EXCEPT !.pc = "ok"])
    /\ UNCHANGED <<place, endpoints, dialogs, busVars, bridgeVars, tools, drain>>

(* The remote end has no such dialog any more: 481, and nothing changes. *)
ByeRejected(u) ==
    /\ tool[u].pc = "bye"
    /\ peer[tool[u].call] = "over"
    /\ Unended(u)
    /\ Does(u, IdleUser)
    /\ UNCHANGED <<callVars, busVars, bridgeVars, tools>>

(* No answer before the deadline; the BYE may have arrived all the same.   *)
(* The dialog stays, for another attempt.                                  *)
ByeTimesOut(u) ==
    /\ tool[u].pc = "bye"
    /\ \E arrived \in BOOLEAN :
          peer' = IF arrived THEN [peer EXCEPT ![tool[u].call] = "over"] ELSE peer
    /\ Unended(u)
    /\ Does(u, IdleUser)
    /\ UNCHANGED <<place, endpoints, dialogs, busVars, bridgeVars, tools>>

HangupRemoves(u) ==
    /\ tool[u].pc = "ok"
    /\ dialogs' = dialogs \ {tool[u].call}
    /\ Does(u, [tool[u] EXCEPT !.pc = "removed"])
    /\ UNCHANGED <<place, peer, endpoints, busVars, bridgeVars, tools, drain>>

HangupEnds(u) ==
    /\ tool[u].pc = "removed"
    /\ endpoints' = endpoints \ {tool[u].call}
    /\ Publish(CallEvent("terminated", tool[u].call))
    /\ Does(u, IdleUser)
    /\ UNCHANGED <<place, peer, dialogs, phase, bridgeVars, tools, drain>>

-----------------------------------------------------------------------------
(* ControlState: the registry follows the bus.  DialogCreated replaces the *)
(* entry, DialogTerminated keeps it.                                       *)
ControlHandles ==
    /\ bus # <<>>
    /\ bus' = Tail(bus)
    /\ LET e == Head(bus) IN
         IF e.kind = "created"
         THEN /\ phase' = [phase EXCEPT ![e.call] = "Live"]
              /\ bridgeOf' = [bridgeOf EXCEPT ![e.call] = 0]
         ELSE /\ phase' = [phase EXCEPT ![e.call] = IF @ = "Live" THEN "Terminated" ELSE @]
              /\ UNCHANGED bridgeOf
    /\ UNCHANGED <<callVars, lagged, bridges, bridgesMade, overlap, tool, tools, drain>>

-----------------------------------------------------------------------------
(* The control tools *)

ToolRequest(u) ==
    /\ Running
    /\ u \in Clients
    /\ tool[u] = IdleUser
    /\ tools < MaxTools
    /\ tools' = tools + 1

(* end_call, with a Call-ID make_call returned; one the UAC does not know  *)
(* any more is NotFound.                                                   *)
EndCall(u, c) ==
    /\ ToolRequest(u)
    /\ place[c] = "up"
    /\ c \in dialogs
    /\ Does(u, Hanging("bye", c))
    /\ UNCHANGED <<callVars, busVars, bridgeVars, drain>>

BridgeBusy == \E u \in Clients : tool[u].pc \in {"release", "unbridge", "bridge", "record"}

(* bridge_calls: both legs must be live in the registry, and the bridges   *)
(* they have are noted.                                                    *)
BridgeCalls(u, a, b) ==
    /\ ToolRequest(u)
    /\ a # b
    /\ phase[a] = "Live" /\ phase[b] = "Live"
    /\ Does(u, Bridging("release", a, b, {bridgeOf[a], bridgeOf[b]} \ {0}, 0))
    /\ overlap' = (overlap \/ BridgeBusy)
    /\ UNCHANGED <<callVars, busVars, bridgeOf, bridges, bridgesMade, drain>>

(* unbridge_call reads the bridge of its call, live or not. *)
UnbridgeCall(u, c) ==
    /\ ToolRequest(u)
    /\ bridgeOf[c] # 0
    /\ Does(u, Bridging("unbridge", c, c, {bridgeOf[c]}, 0))
    /\ overlap' = (overlap \/ BridgeBusy)
    /\ UNCHANGED <<callVars, busVars, bridgeOf, bridges, bridgesMade, drain>>

(* release_bridge: off the fabric, and off every leg that has it. *)
Releases(old) ==
    /\ bridges' = bridges \ {old}
    /\ bridgeOf' = [c \in Calls |-> IF bridgeOf[c] = old THEN 0 ELSE bridgeOf[c]]

ReleasesOld(u) ==
    /\ tool[u].pc \in {"release", "unbridge"}
    /\ \E old \in tool[u].old :
          /\ Releases(old)
          /\ Does(u, IF tool[u].pc = "unbridge" THEN IdleUser
                     ELSE [tool[u] EXCEPT !.old = @ \ {old}])
    /\ UNCHANGED <<callVars, busVars, bridgesMade, overlap, tools, drain>>

(* MediaFabric::bridge: an endpoint that is gone is an error. *)
CreatesBridge(u) ==
    /\ tool[u].pc = "release"
    /\ tool[u].old = {}
    /\ IF {tool[u].call, tool[u].other} \subseteq endpoints
       THEN /\ bridgesMade < MaxBridges
            /\ bridgesMade' = bridgesMade + 1
            /\ bridges' = bridges \cup {bridgesMade'}
            /\ Does(u, [tool[u] EXCEPT !.pc = "record", !.new = bridgesMade'])
       ELSE Does(u, IdleUser) /\ UNCHANGED <<bridgesMade, bridges>>
    /\ UNCHANGED <<callVars, busVars, bridgeOf, overlap, tools, drain>>

RecordsBridge(u) ==
    /\ tool[u].pc = "record"
    /\ bridgeOf' = [c \in Calls |-> IF c \in {tool[u].call, tool[u].other}
                                    THEN tool[u].new ELSE bridgeOf[c]]
    /\ Does(u, IdleUser)
    /\ UNCHANGED <<callVars, busVars, bridges, bridgesMade, overlap, tools, drain>>

-----------------------------------------------------------------------------
(* teardown and hang_up_everything.  Only inbound INVITEs are refused      *)
(* while draining.                                                         *)
DrainStarts ==
    /\ drain.pc = "off"
    /\ LET live == {c \in Calls : phase[c] = "Live"} IN
         drain' = [drain EXCEPT !.pc = "on", !.todo = live, !.listed = live]
    /\ UNCHANGED <<callVars, busVars, bridgeVars, tool, tools>>

(* One call after the other; NotFound is skipped. *)
DrainNext(c) ==
    /\ drain.pc = "on"
    /\ c \in drain.todo
    /\ tool[Drainer] = IdleUser
    /\ drain' = [drain EXCEPT !.todo = @ \ {c}]
    /\ Does(Drainer, IF c \in dialogs THEN Hanging("bye", c) ELSE IdleUser)
    /\ UNCHANGED <<callVars, busVars, bridgeVars, tools>>

(* The inbound dialogs are hung up next (UasDialog), the window passes and *)
(* every task is cancelled.                                                *)
DrainEnds ==
    /\ drain.pc = "on"
    /\ drain.todo = {}
    /\ tool[Drainer] = IdleUser
    /\ drain' = [drain EXCEPT !.pc = "down"]
    /\ UNCHANGED <<callVars, busVars, bridgeVars, tool, tools>>

-----------------------------------------------------------------------------
PeerStep ==
    \/ \E c \in Calls : PeerAnswers(c) \/ AckArrives(c) \/ PeerHangsUp(c)
    \/ \E c \in Calls : Rejected(c) \/ TaglessOk(c) \/ Acks(c)
    \/ \E u \in Users : ByeOk(u) \/ ByeRejected(u)

PlaceStep(c) ==
    \/ GivesUp(c)
    \/ InsertsDialog(c)
    \/ PublishesCreated(c)

ToolStep(u) ==
    \/ ByeTimesOut(u)
    \/ HangupRemoves(u)
    \/ HangupEnds(u)
    \/ ReleasesOld(u)
    \/ CreatesBridge(u)
    \/ RecordsBridge(u)

DrainStep ==
    \/ \E c \in Calls : DrainNext(c)
    \/ DrainEnds

CallsNext ==
    \/ \E c \in Calls : PlaceCall(c) \/ PlaceStep(c)
    \/ PeerStep
    \/ \E u \in Users : ToolStep(u)
    \/ \E u \in Clients, c \in Calls : EndCall(u, c) \/ UnbridgeCall(u, c)
    \/ \E u \in Clients, a, b \in Calls : BridgeCalls(u, a, b)
    \/ ControlHandles
    \/ DrainStarts
    \/ DrainStep

CallsSpec == CallsInit /\ [][CallsNext]_controlVars

(* Every task that can go on does, and the deadlines of place_call and     *)
(* hangup pass.  Nothing is assumed of the peers or of the clients.        *)
CallsFairness ==
    /\ \A c \in Calls : WF_controlVars(PlaceStep(c))
    /\ \A u \in Users : WF_controlVars(ToolStep(u))
    /\ WF_controlVars(ControlHandles)
    /\ WF_controlVars(DrainStep)

FairCallsSpec == CallsSpec /\ CallsFairness

-----------------------------------------------------------------------------
Removing(c) == \E u \in Users : tool[u].pc = "removed" /\ tool[u].call = c

(* No endpoint leaks: each one belongs to a call being placed, to a dialog *)
(* of the UAC or to a hangup about to release it, whatever the peer, the   *)
(* clients and the drain do at once.  (A 200 without a To tag keeps its    *)
(* endpoint for ever.)                                                     *)
UacEndpointsAccounted ==
    \A c \in endpoints :
        place[c] \in {"ringing", "acked", "tagless"} \/ c \in dialogs \/ Removing(c)

(* A call the remote party was sent an ACK for, and has not ended, is      *)
(* never forgotten: the UAC can still hang it up.  Late answers, lost and  *)
(* rejected BYEs and crossing hangups included.                            *)
NoCallForgotten ==
    \A c \in Calls : peer[c] = "confirmed" => c \in dialogs \/ place[c] = "acked"

(* Once its events are handled, the registry the tools and the drain read  *)
(* shows a call as live exactly when the UAC has a dialog for it, unless   *)
(* the bus overflowed.                                                     *)
RegistryTruthful ==
    bus = <<>> /\ ~lagged =>
        \A c \in Calls : place[c] # "inserted" /\ ~Removing(c) =>
            (phase[c] = "Live" <=> c \in dialogs)

(* "Any bridge either leg already belongs to is released first": a bridge  *)
(* of the fabric is recorded on a leg, so that unbridge_call can find it,  *)
(* as long as the bridge requests do not overlap.                          *)
BridgesReachable ==
    ~overlap =>
        \A b \in bridges :
            \/ \E c \in Calls : bridgeOf[c] = b
            \/ \E u \in Clients : tool[u].pc = "record" /\ tool[u].new = b

(* After the drain, every call the registry showed as live when it started *)
(* has been hung up, unless its BYE got no 200.                            *)
DrainComplete ==
    drain.pc = "down" => drain.listed \cap dialogs \subseteq drain.unended

(* Calls placed, hung up, bridged and drained at once: endpoints, dialogs, *)
(* registry, bridges and the drain agree (uac.rs, control.rs,              *)
(* tools/call.rs, shutdown.rs).                                            *)
CallsSound ==
    /\ UacEndpointsAccounted
    /\ NoCallForgotten
    /\ RegistryTruthful
    /\ BridgesReachable
    /\ DrainComplete
=============================================================================
