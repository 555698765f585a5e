----------------------------- MODULE MediaFabric -----------------------------
(***************************************************************************)
(* UdpMediaFabric (smiths-media fabric.rs, port_allocator.rs) and the      *)
(* media sessions that share its sockets: two-leg bridges, transcoded      *)
(* sessions admitted by the CPU budget (transcoded.rs, smiths-transcode    *)
(* budget.rs, smiths-cli transcode.rs), T.38 sessions (smiths-fax) and     *)
(* DTLS handshakes (dtls.rs, smiths-dtls).                                 *)
(*                                                                         *)
(* A socket is an Arc: `holders[p]` are the parties that hold port p, and  *)
(* the port is bound while there is one.  Parties run concurrently, so a   *)
(* lookup, an admission and a shutdown are steps of their own.             *)
(***************************************************************************)
EXTENDS Integers, FiniteSets

CONSTANTS
    Dialogs,      \* calls that own an endpoint each
    Drivers,      \* the dialogs that pair up with another one
    Handshakers,  \* the dialogs with a DTLS leg
    Others,       \* calls elsewhere that compete for the transcode budget
    MinPort, MaxPort,
    MaxAttempts,  \* DEFAULT_MAX_ATTEMPTS of the ephemeral search
    Caps,         \* values max_concurrent_calls takes
    MaxSessions,  \* bound: sessions created
    MaxAllocs,    \* bound: allocations begun by one dialog
    MaxStrangers  \* bound: ports other programs take

ASSUME FabricAssumption ==
    /\ Drivers \cup Handshakers \subseteq Dialogs
    /\ IsFiniteSet(Dialogs) /\ IsFiniteSet(Others) /\ Dialogs \cap Others = {}
    /\ MinPort \in Nat \ {0} /\ MaxPort \in Nat /\ MaxAttempts \in Nat
    /\ Caps \subseteq Nat /\ MaxSessions \in Nat /\ MaxAllocs \in Nat

Ports == MinPort .. (MaxPort + 1)
Ids == 1 .. MaxSessions
Kinds == {"bridge", "transcoded", "fax"}

VARIABLES
    ranged,     \* whether an RTP port range is configured; "unset" before start
    holders,    \* the parties that hold each port's socket
    alloc,      \* allocations under way
    endpoints,  \* the port of each dialog's endpoint, 0 when it has none
    pairing,    \* the pairing each dialog drives
    sessions,   \* every session created
    gauge,      \* bridges_active, sessions_active of fax
    active,     \* CpuBudget::active
    cap,        \* CpuBudget::max_concurrent
    top,        \* the highest cap so far
    admit,      \* try_admit under way, and the lease it produced
    dtls        \* the DTLS leg of each dialog

fabricVars == <<ranged, holders, alloc, endpoints, pairing, sessions, gauge,
                active, cap, top, admit, dtls>>

IdleAlloc == [phase |-> "idle", port |-> 0, tries |-> 0, begun |-> 0]
NoPairing == [phase |-> "none", with |-> "none", kind |-> "none"]
NoAdmission == [phase |-> "none", cur |-> 0]
Unmade == [kind |-> "none", legs |-> {}, state |-> "unmade", handles |-> {}, counted |-> FALSE]

FabricInit ==
    /\ ranged = "unset"
    /\ holders = [p \in Ports |-> {}]
    /\ alloc = [c \in Dialogs |-> IdleAlloc]
    /\ endpoints = [c \in Dialogs |-> 0]
    /\ pairing = [c \in Dialogs |-> NoPairing]
    /\ sessions = [s \in Ids |-> Unmade]
    /\ gauge = [bridge |-> 0, fax |-> 0]
    /\ active = 0 /\ cap = 1 /\ top = 1
    /\ admit = [q \in Dialogs \cup Others |-> NoAdmission]
    /\ dtls = [c \in Dialogs |-> "idle"]

(* with_rtp_port_range: engine start chooses how ports are found. *)
StartFabric ==
    /\ ranged = "unset" /\ ranged' \in {"range", "ephemeral"}
    /\ UNCHANGED <<holders, alloc, endpoints, pairing, sessions, gauge, active, cap, top, admit, dtls>>

Free(p) == holders[p] = {}
Take(h, ps, who) == [p \in Ports |-> IF p \in ps THEN h[p] \cup {who} ELSE h[p]]
Drop(h, who) == [p \in Ports |-> h[p] \ {who}]
Pair(p) == {p, p + 1}

(* Another program binds a port of the range. *)
StrangerBinds(p) ==
    /\ ranged # "unset" /\ Free(p)
    /\ Cardinality({q \in Ports : <<"stranger">> \in holders[q]}) < MaxStrangers
    /\ holders' = Take(holders, {p}, <<"stranger">>)
    /\ UNCHANGED <<ranged, alloc, endpoints, pairing, sessions, gauge, active, cap, top, admit, dtls>>

-----------------------------------------------------------------------------
(***************************************************************************)
(* allocate: an even RTP port and the odd RTCP port above it.              *)
(***************************************************************************)
FirstEven == IF MinPort % 2 = 0 THEN MinPort ELSE MinPort + 1

BeginAllocate(c) ==
    /\ ranged # "unset" /\ alloc[c].phase = "idle" /\ endpoints[c] = 0
    /\ alloc[c].begun < MaxAllocs
    /\ alloc' = [alloc EXCEPT ![c].phase = "rtp", ![c].port = FirstEven,
                              ![c].tries = 0, ![c].begun = @ + 1]
    /\ UNCHANGED <<ranged, holders, endpoints, pairing, sessions, gauge, active, cap, top, admit, dtls>>

(* The RTP half: the next even port of the range, or whatever even port    *)
(* the system hands out within the attempts.                               *)
BindRtp(c) ==
    /\ alloc[c].phase = "rtp"
    /\ \/ /\ ranged = "range" /\ alloc[c].port < MaxPort
          /\ IF Free(alloc[c].port)
             THEN /\ holders' = Take(holders, {alloc[c].port}, <<"alloc", c>>)
                  /\ alloc' = [alloc EXCEPT ![c].phase = "rtcp"]
             ELSE alloc' = [alloc EXCEPT ![c].port = @ + 2] /\ UNCHANGED holders
       \/ /\ ranged = "ephemeral" /\ alloc[c].tries < MaxAttempts
          /\ \E p \in {q \in MinPort .. MaxPort : Free(q)} :
               IF p % 2 = 0
               THEN /\ holders' = Take(holders, {p}, <<"alloc", c>>)
                    /\ alloc' = [alloc EXCEPT ![c].phase = "rtcp", ![c].port = p]
               ELSE alloc' = [alloc EXCEPT ![c].tries = @ + 1] /\ UNCHANGED holders
       \/ /\ \/ ranged = "range" /\ alloc[c].port >= MaxPort
             \/ ranged = "ephemeral" /\ alloc[c].tries = MaxAttempts
          /\ alloc' = [alloc EXCEPT ![c].phase = "idle"] /\ UNCHANGED holders
    /\ UNCHANGED <<ranged, endpoints, pairing, sessions, gauge, active, cap, top, admit, dtls>>

(* allocate: the bound pair becomes a registered endpoint. *)
Register(c, p) ==
    /\ holders' = Take(Drop(holders, <<"alloc", c>>), Pair(p), <<"endpoint", c>>)
    /\ endpoints' = [endpoints EXCEPT ![c] = p]
    /\ alloc' = [alloc EXCEPT ![c].phase = "idle"]

BindRtcpMut(c) ==
    /\ alloc[c].phase = "rtcp"
    /\ LET p == alloc[c].port IN
       IF Free(p + 1) THEN Register(c, p)
       ELSE /\ alloc' = [alloc EXCEPT ![c].phase = "rtp", ![c].port = @ + 2, ![c].tries = @ + 1]
            /\ UNCHANGED <<endpoints, holders>>
    /\ UNCHANGED <<ranged, pairing, sessions, gauge, active, cap, top, admit, dtls>>

(* The RTCP half; when it is taken the RTP socket is dropped again. *)
BindRtcp(c) ==
    /\ alloc[c].phase = "rtcp"
    /\ LET p == alloc[c].port IN
       IF Free(p + 1) THEN Register(c, p)
       ELSE /\ holders' = Drop(holders, <<"alloc", c>>)
            /\ alloc' = [alloc EXCEPT ![c].phase = "rtp", ![c].port = @ + 2, ![c].tries = @ + 1]
            /\ UNCHANGED endpoints
    /\ UNCHANGED <<ranged, pairing, sessions, gauge, active, cap, top, admit, dtls>>

ReleaseEndpoint(c) ==
    /\ endpoints[c] # 0
    /\ endpoints' = [endpoints EXCEPT ![c] = 0]
    /\ holders' = Drop(holders, <<"endpoint", c>>)
    /\ UNCHANGED <<ranged, alloc, pairing, sessions, gauge, active, cap, top, admit, dtls>>

-----------------------------------------------------------------------------
(***************************************************************************)
(* try_admit: read the cap and the count, then compare-and-exchange.       *)
(***************************************************************************)
LoadBudget(q) ==
    IF active >= cap THEN [phase |-> "refused", cur |-> 0]
    ELSE [phase |-> "loaded", cur |-> active]

Exchange(q) ==
    IF active = admit[q].cur
    THEN active' = active + 1 /\ admit' = [admit EXCEPT ![q] = [phase |-> "leased", cur |-> 0]]
    ELSE admit' = [admit EXCEPT ![q] = LoadBudget(q)] /\ UNCHANGED active

OtherLoads(q) ==
    /\ q \in Others /\ ranged # "unset" /\ admit[q].phase \in {"none", "refused"}
    /\ admit' = [admit EXCEPT ![q] = LoadBudget(q)]
    /\ UNCHANGED <<ranged, holders, alloc, endpoints, pairing, sessions, gauge, active, cap, top, dtls>>

OtherExchanges(q) ==
    /\ q \in Others /\ admit[q].phase = "loaded"
    /\ Exchange(q)
    /\ UNCHANGED <<ranged, holders, alloc, endpoints, pairing, sessions, gauge, cap, top, dtls>>

(* Drop for TranscodeLease. *)
OtherDrops(q) ==
    /\ q \in Others /\ admit[q].phase = "leased"
    /\ active' = active - 1
    /\ admit' = [admit EXCEPT ![q] = NoAdmission]
    /\ UNCHANGED <<ranged, holders, alloc, endpoints, pairing, sessions, gauge, cap, top, dtls>>

(* set_max_concurrent, from a configuration reload. *)
SetMaxConcurrent(n) ==
    /\ ranged # "unset" /\ n # cap
    /\ cap' = n /\ top' = IF n > top THEN n ELSE top
    /\ UNCHANGED <<ranged, holders, alloc, endpoints, pairing, sessions, gauge, active, admit, dtls>>

-----------------------------------------------------------------------------
(***************************************************************************)
(* Pairing two legs: both sockets are looked up, then the session spawns.  *)
(***************************************************************************)
Fresh == {s \in Ids : sessions[s].state = "unmade"}
NextId == CHOOSE s \in Fresh : \A t \in Fresh : s <= t

BeginPair(c, d, kind) ==
    /\ c \in Drivers /\ c # d /\ ranged # "unset" /\ pairing[c].phase = "none" /\ Fresh # {}
    /\ pairing' = [pairing EXCEPT ![c] = [phase |-> "own leg", with |-> d, kind |-> kind]]
    /\ UNCHANGED <<ranged, holders, alloc, endpoints, sessions, gauge, active, cap, top, admit, dtls>>

(* The driver of a pairing gives up: what it looked up is dropped. *)
AbandonPairing(c) ==
    /\ holders' = Drop(holders, <<"pairing", c>>)
    /\ pairing' = [pairing EXCEPT ![c] = NoPairing]

LookUpLeg(c) ==
    /\ pairing[c].phase \in {"own leg", "peer leg"}
    /\ LET owner == IF pairing[c].phase = "own leg" THEN c ELSE pairing[c].with
           next == IF pairing[c].phase = "own leg" THEN "peer leg" ELSE "spawn"
       IN  IF endpoints[owner] = 0 THEN AbandonPairing(c)
           ELSE /\ holders' = Take(holders, Pair(endpoints[owner]), <<"pairing", c>>)
                /\ pairing' = [pairing EXCEPT ![c].phase = next]
    /\ UNCHANGED <<ranged, alloc, endpoints, sessions, gauge, active, cap, top, admit, dtls>>

(* BudgetedTranscodeOrchestrator asks for admission once it has sockets. *)
AskAdmission(c) ==
    /\ pairing[c].phase = "spawn" /\ pairing[c].kind = "transcoded" /\ admit[c] = NoAdmission
    /\ admit' = [admit EXCEPT ![c] = LoadBudget(c)]
    /\ UNCHANGED <<ranged, holders, alloc, endpoints, pairing, sessions, gauge, active, cap, top, dtls>>

PairExchanges(c) ==
    /\ c \in Dialogs /\ admit[c].phase = "loaded"
    /\ Exchange(c)
    /\ UNCHANGED <<ranged, holders, alloc, endpoints, pairing, sessions, gauge, cap, top, dtls>>

Refused(c) ==
    /\ c \in Dialogs /\ admit[c].phase = "refused"
    /\ AbandonPairing(c)
    /\ admit' = [admit EXCEPT ![c] = NoAdmission]
    /\ UNCHANGED <<ranged, alloc, endpoints, sessions, gauge, active, cap, top, dtls>>

(* What spawning leaves: running tasks and a handle for each dialog. *)
Running(kind, c, d) ==
    [kind |-> kind, legs |-> {c, d}, state |-> "running", handles |-> {c, d}, counted |-> TRUE]

(* The session takes the sockets over; the lease moves into a transcoded   *)
(* session; the handles are the dialogs' entries (bridges_by_dialog and    *)
(* the fabric's own map for a bridge, dialog_sessions for the others).     *)
SpawnSession(c) ==
    /\ pairing[c].phase = "spawn" /\ Fresh # {}
    /\ pairing[c].kind = "transcoded" => admit[c].phase = "leased"
    /\ LET s == NextId
           mine == {p \in Ports : <<"pairing", c>> \in holders[p]}
       IN  /\ sessions' = [sessions EXCEPT ![s] =
                Running(pairing[c].kind, c, pairing[c].with)]
           /\ holders' = Take(Drop(holders, <<"pairing", c>>), mine, <<"session", s>>)
    /\ pairing' = [pairing EXCEPT ![c] = NoPairing]
    /\ admit' = [admit EXCEPT ![c] = NoAdmission]
    /\ gauge' = [k \in DOMAIN gauge |-> IF k = pairing[c].kind THEN gauge[k] + 1 ELSE gauge[k]]
    /\ UNCHANGED <<ranged, alloc, endpoints, active, cap, top, dtls>>

-----------------------------------------------------------------------------
(***************************************************************************)
(* Stopping.  release_bridge removes the bridge from the map, so one       *)
(* caller shuts it down; MediaSession::stop may be called by both dialogs. *)
(***************************************************************************)
BeginStop(c, s) ==
    /\ c \in sessions[s].handles
    /\ sessions' = [sessions EXCEPT
         ![s].state = IF @ = "running" THEN "stopping" ELSE @,
         ![s].handles = IF sessions[s].kind = "bridge" THEN {} ELSE @ \ {c}]
    /\ IF sessions[s].kind = "transcoded" /\ sessions[s].handles = {c} /\ sessions[s].state = "stopped"
       THEN active' = active - 1 ELSE UNCHANGED active
    /\ UNCHANGED <<ranged, holders, alloc, endpoints, pairing, gauge, cap, top, admit, dtls>>

(* The tasks have exited and dropped their sockets; the gauge counts the   *)
(* session out, and the lease falls with the last handle.                  *)
StopCompletes(s) ==
    /\ sessions[s].state = "stopping"
    /\ sessions' = [sessions EXCEPT ![s].state = "stopped", ![s].counted = FALSE]
    /\ holders' = Drop(holders, <<"session", s>>)
    /\ active' = IF sessions[s].kind = "transcoded" /\ sessions[s].handles = {}
                 THEN active - 1 ELSE active
    /\ gauge' = [k \in DOMAIN gauge |-> IF k = sessions[s].kind THEN gauge[k] - 1 ELSE gauge[k]]
    /\ UNCHANGED <<ranged, alloc, endpoints, pairing, cap, top, admit, dtls>>

-----------------------------------------------------------------------------
(***************************************************************************)
(* run_dtls_handshake: the leg keeps the socket while it runs; the peer's  *)
(* certificate must match the fingerprint its SDP promised.                *)
(***************************************************************************)
HandshakeOutcome(peer) ==
    CASE ~peer.completes -> "closed"
      [] peer.completes /\ peer.cert = "none" -> "closed"
      [] peer.completes /\ peer.cert # "none" /\ peer.algorithm # "sha-256" -> "closed"
      [] peer.completes /\ peer.cert = "another" /\ peer.algorithm = "sha-256" -> "closed"
      [] peer.completes /\ peer.cert = "promised" /\ peer.algorithm = "sha-256" ->
           IF peer.profile = "AES_CM_128_HMAC_SHA1_80" THEN "active" ELSE "closed"

DtlsPeers ==
    [completes : BOOLEAN, cert : {"none", "another", "promised"},
     algorithm : {"sha-256", "sha-1"}, profile : {"AES_CM_128_HMAC_SHA1_80", "other"}]

BeginHandshake(c) ==
    /\ c \in Handshakers /\ endpoints[c] # 0 /\ dtls[c] = "idle"
    /\ dtls' = [dtls EXCEPT ![c] = "handshaking"]
    /\ holders' = Take(holders, {endpoints[c]}, <<"handshake", c>>)
    /\ UNCHANGED <<ranged, alloc, endpoints, pairing, sessions, gauge, active, cap, top, admit>>

FinishHandshake(c, peer) ==
    /\ dtls[c] = "handshaking"
    /\ dtls' = [dtls EXCEPT ![c] = HandshakeOutcome(peer)]
    /\ holders' = Drop(holders, <<"handshake", c>>)
    /\ UNCHANGED <<ranged, alloc, endpoints, pairing, sessions, gauge, active, cap, top, admit>>

-----------------------------------------------------------------------------
FabricNext ==
    \/ StartFabric
    \/ \E p \in Ports : StrangerBinds(p)
    \/ \E c \in Dialogs :
         \/ BeginAllocate(c) \/ BindRtp(c) \/ BindRtcp(c) \/ ReleaseEndpoint(c)
         \/ LookUpLeg(c) \/ AskAdmission(c) \/ PairExchanges(c) \/ Refused(c) \/ SpawnSession(c)
         \/ \E d \in Dialogs, kind \in Kinds : BeginPair(c, d, kind)
         \/ \E s \in Ids : BeginStop(c, s)
         \/ BeginHandshake(c)
         \/ \E peer \in DtlsPeers : FinishHandshake(c, peer)
    \/ \E s \in Ids : StopCompletes(s)
    \/ \E q \in Others : OtherLoads(q) \/ OtherExchanges(q) \/ OtherDrops(q)
    \/ \E n \in Caps : SetMaxConcurrent(n)

FabricSpec == FabricInit /\ [][FabricNext]_fabricVars

-----------------------------------------------------------------------------
(* A bound media port always belongs to something alive: an allocation     *)
(* that still needs it, a registered endpoint with that port, a pairing in *)
(* progress, a session that has not stopped or a handshake that has not    *)
(* finished; and every endpoint and running session still holds its ports. *)
(* No port leaks when a bind fails half-way or an endpoint is released     *)
(* under a running session, and no call is left without its sockets        *)
(* (allocate_in_range, allocate_ephemeral, release_endpoint, shutdown).    *)
PortsAccounted ==
    /\ \A p \in Ports, c \in Dialogs :
         /\ <<"alloc", c>> \in holders[p] => alloc[c].phase = "rtcp" /\ alloc[c].port = p
         /\ <<"endpoint", c>> \in holders[p] <=> endpoints[c] # 0 /\ p \in Pair(endpoints[c])
         /\ <<"pairing", c>> \in holders[p] => pairing[c].phase # "none"
         /\ <<"handshake", c>> \in holders[p] => dtls[c] = "handshaking"
    /\ \A s \in Ids :
         LET held == {p \in Ports : <<"session", s>> \in holders[p]}
         IN  IF sessions[s].state \in {"running", "stopping"}
             THEN held # {} /\ \A p \in held : <<"stranger">> \notin holders[p]
             ELSE held = {}

(* The counters the operator and the admission control read are the        *)
(* sessions that exist: bridges_active and the fax gauge count the         *)
(* sessions not yet stopped, CpuBudget's count is the leases alive, even   *)
(* when both dialogs stop a session at once, and admission never exceeds   *)
(* the highest cap configured so far however threads race (release_bridge, *)
(* UdptlSession::stop, try_admit, Drop for TranscodeLease).                *)
CountersExact ==
    /\ \A k \in DOMAIN gauge :
         gauge[k] = Cardinality({s \in Ids : sessions[s].kind = k /\ sessions[s].counted})
    /\ active = Cardinality({q \in DOMAIN admit : admit[q].phase = "leased"})
                + Cardinality({s \in Ids : /\ sessions[s].kind = "transcoded"
                                           /\ \/ sessions[s].handles # {}
                                              \/ sessions[s].state = "stopping"})
    /\ active <= top

(* Sockets, transcode slots and gauges are all accounted for: nothing is   *)
(* leaked or returned twice by failing allocations, sessions stopped       *)
(* from both legs or a cap that moves (port_allocator.rs, budget.rs).      *)
MediaAccounted == PortsAccounted /\ CountersExact
=============================================================================
