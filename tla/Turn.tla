-------------------------------- MODULE Turn --------------------------------
(***************************************************************************)
(* The embedded TURN server and the TURN client of smiths-ice              *)
(* (crates/smiths-ice/src/turn.rs).  The server's loop handles one         *)
(* datagram or one sweep at a time; every allocation has a relay task of   *)
(* its own that runs beside it.  A client sends one request, never         *)
(* retransmits it and gives up after its timeout.  The network (external)  *)
(* delays, loses, reorders and duplicates: a request once sent stays in    *)
(* `wire` and may reach the server at any time, any number of times.       *)
(* Instants are numbers, a live deadline is one that is later than now.    *)
(***************************************************************************)
EXTENDS Naturals, Sequences, FiniteSets

CONSTANTS Clients,          \* client transport addresses
          TurnUsers,        \* USERNAMEs with a credential
          Ips, Ports,       \* of the peers
          Channels,         \* channel numbers in 0x4000..0x7FFF
          AllocationLifetime, PermissionLifetime, ChannelLifetime, ChallengeLifetime,
          MaxTurnTime,      \* bound: instants
          MaxTx,            \* bound: requests sent
          MaxNonce          \* bound: nonces issued

ASSUME TurnAssumption ==
    /\ {AllocationLifetime, PermissionLifetime, ChannelLifetime, ChallengeLifetime} \subseteq Nat \ {0}
    /\ {MaxTurnTime, MaxTx, MaxNonce} \subseteq Nat
    /\ "none" \notin Ips /\ 0 \notin Channels

VARIABLES now,         \* the clock
          serving,     \* the loop of `run` has not ended
          allocs,      \* client address -> Allocation or NoAlloc
          challenges,  \* client address -> [nonce, exp] or NoChallenge
          nonces,      \* nonces issued so far
          relays,      \* sequence of relays: the request they were made for, whether their task runs
          gauge,       \* turn_active_allocations
          wire,        \* requests the clients have sent
          tc           \* client address -> the TurnClient on it

turnVars == <<now, serving, allocs, challenges, nonces, relays, gauge, wire, tc>>

Peers == Ips \X Ports
IpOf(peer) == peer[1]
NoPeer == <<"none", 0>>

(* A request as its sender means it: what refresh, create_permission and           *)
(* channel_bind hand to transact, and the two Allocates of `allocate`.  ParsedStun *)
(* on the wire adds the transaction id, the sender and its credentials.            *)
NoCall == [method |-> "none", signed |-> FALSE, lifetime |-> 0, peer |-> NoPeer, channel |-> 0]
Calls == {[NoCall EXCEPT !.method = "refresh", !.signed = TRUE, !.lifetime = t] : t \in {0, AllocationLifetime}}
         \cup {[NoCall EXCEPT !.method = "permission", !.signed = TRUE, !.peer = p] : p \in Peers}
         \cup {[NoCall EXCEPT !.method = "bind", !.signed = TRUE, !.peer = x[1], !.channel = x[2]] :
                 x \in Peers \X Channels}
AllocateCall(signed) ==
    [NoCall EXCEPT !.method = "allocate", !.signed = signed, !.lifetime = AllocationLifetime]

NoAlloc == [relay |-> 0]
NoChallenge == [nonce |-> 0, exp |-> 0]
NoClient == [call |-> NoCall, tx |-> 0, attempt |-> 0, user |-> CHOOSE u \in TurnUsers : TRUE,
             nonce |-> 0, relay |-> 0]

TurnInit ==
    /\ now = 0
    /\ serving = TRUE
    /\ allocs = [c \in Clients |-> NoAlloc]
    /\ challenges = [c \in Clients |-> NoChallenge]
    /\ nonces = 0
    /\ relays = << >>
    /\ gauge = 0
    /\ wire = {}
    /\ tc = [c \in Clients |-> NoClient]

-----------------------------------------------------------------------------
(* The server's reading of an allocation.  A lookup re-checks every deadline, *)
(* so that an entry no sweep has met yet is not used.                         *)

Present(c) == allocs[c].relay # 0
IsLive(c) == Present(c) /\ allocs[c].expires > now

PermissionLive(a, ip) == a.permissions[ip] > now

ChannelPeer(a, ch) == IF a.toPeer[ch].exp > now THEN a.toPeer[ch].peer ELSE NoPeer

PeerChannel(a, p) == IF a.toChannel[p] # 0 /\ ChannelPeer(a, a.toChannel[p]) # NoPeer
                     THEN a.toChannel[p] ELSE 0

(* prune: an absent permission or channel is one with deadline 0 *)
Prune(a) ==
    LET kept == {ch \in Channels : a.toPeer[ch].exp > now}
    IN  [a EXCEPT !.permissions = [ip \in Ips |-> IF @[ip] > now THEN @[ip] ELSE 0],
                  !.toPeer = [ch \in Channels |-> IF ch \in kept THEN @[ch]
                                                  ELSE [peer |-> NoPeer, exp |-> 0]],
                  !.toChannel = [p \in Peers |-> IF @[p] \in kept THEN @[p] ELSE 0]]

(* the relay task ends, its token cancelled or its socket failed *)
Cancelled(r) == [relays EXCEPT ![r].running = FALSE]

NonceValid(c, n) == \/ IsLive(c) /\ allocs[c].nonce = n
                    \/ challenges[c].nonce = n /\ challenges[c].exp > now

IssueChallenge(c) ==
    /\ nonces < MaxNonce
    /\ nonces' = nonces + 1
    /\ challenges' = [challenges EXCEPT ![c] = [nonce |-> nonces + 1, exp |-> now + ChallengeLifetime]]

(* authenticate: 401 for an unsigned request, 438 for a nonce that is not the one     *)
(* of the live allocation or of the pending challenge.  Every user of TurnUsers has a     *)
(* credential and signs with it; a bad signature changes nothing and is left out.     *)
Verdict(q) == CASE ~q.signed -> 401
                [] q.signed /\ ~NonceValid(q.from, q.nonce) -> 438
                [] OTHER -> 200

(* authenticate_on_allocation: the live allocation must be the same user's *)
VerdictOnAllocation(q) ==
    IF Verdict(q) # 200 THEN Verdict(q)
    ELSE IF ~IsLive(q.from) THEN 437
    ELSE IF allocs[q.from].user # q.user THEN 441
    ELSE 200

(* The reply reaches a client that still waits for it, or is lost or comes too late: *)
(* `exchange` ignores a transaction id it is not waiting for.                        *)
Awaits(q) == tc[q.from].call # NoCall /\ tc[q.from].tx = q.tx

Idle(client) == [client EXCEPT !.call = NoCall, !.tx = 0, !.attempt = 0]

(* An error reply ends the call, except that `allocate` goes on to its signed request *)
(* with the nonce of the 401, and transact adopts the one of a first 438 and repeats. *)
ClientAfterError(q, code) ==
    LET me == tc[q.from]
    IN  IF code = 401 THEN [me EXCEPT !.nonce = nonces + 1, !.tx = 0, !.call = AllocateCall(TRUE)]
        ELSE IF code = 438 /\ me.attempt = 0
        THEN [me EXCEPT !.nonce = nonces + 1, !.tx = 0, !.attempt = 1]
        ELSE Idle(me)

AnswerTo(q, client) == \/ Awaits(q) /\ tc' = [tc EXCEPT ![q.from] = client]
                     \/ UNCHANGED tc

(* What every handler does with a request it refuses. *)
Refuse(q, code) ==
    /\ \/ code \in {401, 438} /\ IssueChallenge(q.from)
       \/ code \notin {401, 438} /\ UNCHANGED <<nonces, challenges>>
    /\ AnswerTo(q, ClientAfterError(q, code))
    /\ UNCHANGED <<now, serving, allocs, relays, gauge, wire>>

LifetimeGranted(requested) == IF requested < AllocationLifetime THEN requested ELSE AllocationLifetime

ClosedOldMut(c) == relays
(* An entry that has expired and that no sweep has met is replaced; its task ends. *)
ClosedOld(c) == IF Present(c) THEN Cancelled(allocs[c].relay) ELSE relays

(* A nonce that opened an allocation leaves the challenges. *)
ChallengeSpent(c) == [challenges EXCEPT ![c] = NoChallenge]

HandleAllocate(q) ==
    /\ q.method = "allocate"
    /\ \/ Verdict(q) # 200 /\ Refuse(q, Verdict(q))
       \/ Verdict(q) = 200 /\ IsLive(q.from) /\ Refuse(q, 437)
       \/ Verdict(q) = 200 /\ ~IsLive(q.from) /\ Refuse(q, 508)      \* the relay socket cannot be bound
       \/ /\ Verdict(q) = 200 /\ ~IsLive(q.from)
          /\ LET old == allocs[q.from]
                 r == Len(relays) + 1
             IN  /\ relays' = ClosedOld(q.from) \o <<[tx |-> q.tx, running |-> TRUE]>>
                 /\ allocs' = [allocs EXCEPT ![q.from] =
                        [relay |-> r, user |-> q.user, nonce |-> q.nonce,
                         expires |-> now + LifetimeGranted(q.lifetime),
                         permissions |-> [ip \in Ips |-> 0],
                         toPeer |-> [ch \in Channels |-> [peer |-> NoPeer, exp |-> 0]],
                         toChannel |-> [p \in Peers |-> 0]]]
                 /\ gauge' = IF old.relay # 0 THEN gauge ELSE gauge + 1
                 /\ challenges' = ChallengeSpent(q.from)
                 /\ AnswerTo(q, [Idle(tc[q.from]) EXCEPT !.relay = r])
          /\ UNCHANGED <<now, serving, nonces, wire>>

HandleRefresh(q) ==
    /\ q.method = "refresh"
    /\ \/ VerdictOnAllocation(q) # 200 /\ Refuse(q, VerdictOnAllocation(q))
       \/ /\ VerdictOnAllocation(q) = 200
          /\ \/ /\ q.lifetime = 0
                /\ relays' = Cancelled(allocs[q.from].relay)
                /\ allocs' = [allocs EXCEPT ![q.from] = NoAlloc]
                /\ gauge' = gauge - 1
             \/ /\ q.lifetime > 0
                /\ allocs' = [allocs EXCEPT ![q.from].expires = now + LifetimeGranted(q.lifetime)]
                /\ UNCHANGED <<relays, gauge>>
          /\ AnswerTo(q, Idle(tc[q.from]))
          /\ UNCHANGED <<now, serving, challenges, nonces, wire>>

HandleCreatePermission(q) ==
    /\ q.method = "permission"
    /\ \/ VerdictOnAllocation(q) # 200 /\ Refuse(q, VerdictOnAllocation(q))
       \/ /\ VerdictOnAllocation(q) = 200
          /\ allocs' = [allocs EXCEPT ![q.from].permissions[IpOf(q.peer)] = now + PermissionLifetime]
          /\ AnswerTo(q, Idle(tc[q.from]))
          /\ UNCHANGED <<now, serving, challenges, nonces, relays, gauge, wire>>

(* A channel is only bound again to its own peer, and a peer holds one channel. *)
BindConflict(a, ch, p) == \/ ChannelPeer(a, ch) \notin {NoPeer, p}
                      \/ PeerChannel(a, p) \notin {0, ch}

HandleChannelBind(q) ==
    LET pruned == Prune(allocs[q.from])
    IN  /\ q.method = "bind"
        /\ \/ VerdictOnAllocation(q) # 200 /\ Refuse(q, VerdictOnAllocation(q))
           \/ /\ VerdictOnAllocation(q) = 200
              /\ allocs' = [allocs EXCEPT ![q.from] =
                     IF BindConflict(pruned, q.channel, q.peer) THEN pruned
                     ELSE [pruned EXCEPT
                             !.toPeer[q.channel] = [peer |-> q.peer, exp |-> now + ChannelLifetime],
                             !.toChannel[q.peer] = q.channel,
                             !.permissions[IpOf(q.peer)] = now + PermissionLifetime]]
              /\ AnswerTo(q, Idle(tc[q.from]))
              /\ UNCHANGED <<now, serving, challenges, nonces, relays, gauge, wire>>

(* sweep: once a second, at any time in between *)
Sweep ==
    LET expired == {c \in Clients : Present(c) /\ ~IsLive(c)}
    IN  /\ allocs' = [c \in Clients |-> IF c \in expired THEN NoAlloc
                                       ELSE IF Present(c) THEN Prune(allocs[c]) ELSE NoAlloc]
        /\ relays' = [r \in DOMAIN relays |->
                         [relays[r] EXCEPT !.running = @ /\ \A c \in expired : allocs[c].relay # r]]
        /\ gauge' = gauge - Cardinality(expired)
        /\ challenges' = [c \in Clients |-> IF challenges[c].exp > now THEN challenges[c] ELSE NoChallenge]
        /\ UNCHANGED <<now, serving, nonces, wire, tc>>

(* The relay task returns when its socket fails; the allocation stays and  *)
(* is answered as before, but nothing its peers send comes through.        *)
RelayFails(r) ==
    /\ relays[r].running
    /\ relays' = Cancelled(r)
    /\ UNCHANGED <<now, serving, allocs, challenges, nonces, gauge, wire, tc>>

(* shutdown_allocations, after the loop has ended *)
Shutdown ==
    /\ gauge' = gauge - Cardinality({c \in Clients : Present(c)})
    /\ allocs' = [c \in Clients |-> NoAlloc]
    /\ relays' = [r \in DOMAIN relays |->
                     [relays[r] EXCEPT !.running = @ /\ \A c \in Clients : allocs[c].relay # r]]
    /\ serving /\ serving' = FALSE
    /\ UNCHANGED <<now, challenges, nonces, wire, tc>>

(* relay_peer_to_client: whether a peer's datagram is forwarded, and the channel it  *)
(* is framed on (0: a Data indication).                                              *)
Forwards(c, p) == IsLive(c) /\ PermissionLive(allocs[c], IpOf(p))
FrameFor(c, p) == IF Forwards(c, p) THEN PeerChannel(allocs[c], p) ELSE 0

(* handle_channel_data: the peer a ChannelData frame goes to *)
PeerFor(c, ch) == IF IsLive(c) THEN ChannelPeer(allocs[c], ch) ELSE NoPeer

-----------------------------------------------------------------------------
(* TurnClient *)


(* allocate begins a new client with an unsigned request; the other calls need one *)
(* that `allocate` returned.                                                       *)
BeginAllocate(c, u) ==
    /\ tc[c].call = NoCall
    /\ tc' = [tc EXCEPT ![c] = [NoClient EXCEPT !.user = u, !.call = AllocateCall(FALSE)]]
    /\ UNCHANGED <<now, serving, allocs, challenges, nonces, relays, gauge, wire>>

BeginCall(c, call) ==
    /\ tc[c].call = NoCall /\ tc[c].relay # 0
    /\ tc' = [tc EXCEPT ![c].call = call]
    /\ UNCHANGED <<now, serving, allocs, challenges, nonces, relays, gauge, wire>>

(* exchange sends once under a fresh transaction id *)
Transmit(c) ==
    LET me == tc[c]
        tx == Cardinality(wire) + 1
    IN  /\ me.call # NoCall /\ me.tx = 0
        /\ tx <= MaxTx
        /\ wire' = wire \cup {[tx |-> tx, from |-> c, user |-> me.user, nonce |-> me.nonce,
                               method |-> me.call.method, signed |-> me.call.signed,
                               lifetime |-> me.call.lifetime, peer |-> me.call.peer,
                               channel |-> me.call.channel]}
        /\ tc' = [tc EXCEPT ![c].tx = tx]
        /\ UNCHANGED <<now, serving, allocs, challenges, nonces, relays, gauge>>

ClientTimesOut(c) ==
    /\ tc[c].tx # 0
    /\ tc' = [tc EXCEPT ![c] = Idle(@)]
    /\ UNCHANGED <<now, serving, allocs, challenges, nonces, relays, gauge, wire>>

TurnTimePasses ==
    /\ now < MaxTurnTime
    /\ now' = now + 1
    /\ UNCHANGED <<serving, allocs, challenges, nonces, relays, gauge, wire, tc>>

TurnNext ==
    \/ \E q \in wire : /\ serving
                       /\ \/ HandleAllocate(q)
                          \/ HandleRefresh(q)
                          \/ HandleCreatePermission(q)
                          \/ HandleChannelBind(q)
    \/ serving /\ Sweep
    \/ \E r \in DOMAIN relays : RelayFails(r)
    \/ Shutdown
    \/ \E c \in Clients : \/ \E u \in TurnUsers : BeginAllocate(c, u)
                          \/ \E call \in Calls : BeginCall(c, call)
                          \/ Transmit(c)
                          \/ ClientTimesOut(c)
    \/ TurnTimePasses

TurnSpec == TurnInit /\ [][TurnNext]_turnVars

-----------------------------------------------------------------------------
(* A relay task runs only as long as the table names it, so that none is leaked, and  *)
(* the gauge counts the table: whichever of a refresh to zero, the sweep, the         *)
(* replacement of an entry the sweep has not met and the shutdown takes an entry away. *)
(* (A task whose socket failed ends earlier than its entry.)                          *)
RelaysOwned ==
    /\ \A r \in DOMAIN relays : relays[r].running => \E c \in Clients : allocs[c].relay = r
    /\ gauge = Cardinality({c \in Clients : Present(c)})

(* What a peer sends is framed on a channel only if frames on that channel go to that  *)
(* peer, also when bindings expire one by one and numbers are used again.              *)
FramedForItsPeer ==
    \A c \in Clients, p \in Peers : FrameFor(c, p) # 0 => PeerFor(c, FrameFor(c, p)) = p

(* An Allocate opens at most one relay, however often and however late the datagram   *)
(* arrives: its nonce is spent.                                                       *)
OneRelayPerRequest ==
    \A r, s \in DOMAIN relays : relays[r].tx = relays[s].tx => r = s

(* What the TURN server promises its clients, whatever is lost, repeated,  *)
(* fails or expires meanwhile: relay tasks are neither leaked nor doubled, *)
(* and what a peer sends is framed for the right one (handle_allocate,     *)
(* prune and the sweep of turn.rs).                                        *)
RelaysSound == RelaysOwned /\ FramedForItsPeer /\ OneRelayPerRequest

=============================================================================
