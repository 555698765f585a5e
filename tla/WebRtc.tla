------------------------------- MODULE WebRtc -------------------------------
(***************************************************************************)
(* The WebRTC gateway: the signalling of smiths-sip webrtc.rs and the      *)
(* session handler of smiths-cli webrtc.rs with its tag-keyed rendezvous,  *)
(* which SIP legs join too.                                                *)
(*                                                                         *)
(* Frames of one WebSocket are handled in turn, those of different ones    *)
(* concurrently, and every await of an offer (checks, handshake, bridge,   *)
(* STUN) lets the others and the deadline evictors run.  A leg stands for  *)
(* the media endpoint an offer allocates; candidate lists are abstracted   *)
(* to whether they hold host or server-reflexive candidates.               *)
(***************************************************************************)
EXTENDS Integers, FiniteSets

CONSTANTS
    Sessions,    \* WebRTC signalling sessions
    SipCalls,    \* SIP INVITEs with X-Smiths-Webrtc-Tag
    Tags,        \* rendezvous tags
    Modes,       \* values of [webrtc.privacy] mode
    IceEnabled, StunServers,  \* [webrtc.ice]: enabled, and servers configured
    MaxOffers,   \* bound: offers of one session
    MaxReloads   \* bound: reloads of [webrtc.privacy]

ASSUME WebRtcAssumption ==
    /\ MaxOffers \in Nat /\ MaxReloads \in Nat
    /\ IceEnabled \in BOOLEAN /\ StunServers \in BOOLEAN
    /\ Modes \subseteq {"open", "relay_only", "strict"} /\ "open" \in Modes

NoTag == "untagged"
NoLeg == <<"nobody", 0>>
Legs == (Sessions \X (1 .. MaxOffers)) \cup (SipCalls \X {0})

ASSUME NoLegAssumption == NoLeg \notin Legs

VARIABLES
    mode,       \* the privacy mode
    privacyReloads,
    session,    \* the signalling state of each session
    sip,        \* each SIP call
    endpoints,  \* legs whose endpoint is allocated
    pending,    \* tag -> parked leg
    evictors,   \* legs whose deadline evictor is asleep
    active,     \* session -> its bridge
    webBridges, \* installed bridges: sets of legs
    keepalives, \* legs whose consent keepalive runs
    keepaliveOf,\* session -> the leg whose keepalive its entry cancels
    answers,    \* answers sent: the mode the offer saw, and direct candidates
    byes        \* sessions that said bye

webRtcVars == <<mode, privacyReloads, session, sip, endpoints, pending, evictors, active,
                webBridges, keepalives, keepaliveOf, answers, byes>>

Silent == [step |-> "closed"]

WebRtcInit ==
    /\ mode = "open" /\ privacyReloads = 0
    /\ session = [s \in Sessions |-> Silent]
    /\ sip = [c \in SipCalls |-> Silent]
    /\ endpoints = {} /\ pending = [t \in Tags |-> NoLeg] /\ evictors = {}
    /\ active = [s \in Sessions |-> {}] /\ webBridges = {}
    /\ keepalives = {} /\ keepaliveOf = [s \in Sessions |-> NoLeg]
    /\ answers = {} /\ byes = {}

ReloadPrivacy(to) ==
    /\ privacyReloads < MaxReloads /\ to # mode
    /\ mode' = to /\ privacyReloads' = privacyReloads + 1
    /\ UNCHANGED <<session, sip, endpoints, pending, evictors, active, webBridges, keepalives,
                   keepaliveOf, answers, byes>>

-----------------------------------------------------------------------------
(* session-init. *)
SessionInit(s, tag) ==
    /\ session[s].step = "closed" /\ s \notin byes
    /\ session' = [session EXCEPT ![s] = [step |-> "ready", tag |-> tag, offers |-> 0]]
    /\ UNCHANGED <<mode, privacyReloads, sip, endpoints, pending, evictors, active, webBridges,
                   keepalives, keepaliveOf, answers, byes>>

Leg(s) == <<s, session[s].offers>>
Goes(s, step) == session' = [session EXCEPT ![s].step = step]

(* An offer is rejected: its endpoint is released and an error frame sent. *)
Reject(s) ==
    /\ Goes(s, "ready")
    /\ endpoints' = endpoints \ {Leg(s)}

(* reject_direct_candidates: host and server-reflexive candidates are      *)
(* refused unless the mode is open.                                        *)
DirectRefused(direct) == mode # "open" /\ direct

(* An offer that passes the privacy filter is given its endpoint. *)
Offer(s, direct, dtls, ice) ==
    /\ session[s].step = "ready" /\ session[s].offers < MaxOffers
    /\ ~DirectRefused(direct)
    /\ session' = [session EXCEPT ![s] =
         [step |-> "negotiate", tag |-> @.tag, offers |-> @.offers + 1, mode |-> mode,
          dtls |-> dtls, ice |-> ice /\ IceEnabled]]
    /\ endpoints' = endpoints \cup {<<s, session[s].offers + 1>>}
    /\ UNCHANGED <<mode, privacyReloads, sip, pending, evictors, active, webBridges, keepalives,
                   keepaliveOf, answers, byes>>

NegotiateAnswer(s) ==
    /\ session[s].step = "negotiate"
    /\ \/ Goes(s, IF session[s].ice THEN "ice" ELSE IF session[s].dtls THEN "dtls" ELSE "rendezvous")
          /\ UNCHANGED endpoints
       \/ Reject(s)
    /\ UNCHANGED <<mode, privacyReloads, sip, pending, evictors, active, webBridges, keepalives,
                   keepaliveOf, answers, byes>>

(* run_ice: a validated pair starts the leg's keepalive. *)
RunIce(s) ==
    /\ session[s].step = "ice"
    /\ \/ /\ Goes(s, IF session[s].dtls THEN "dtls" ELSE "rendezvous")
          /\ keepalives' = keepalives \cup {Leg(s)}
          /\ keepaliveOf' = [keepaliveOf EXCEPT ![s] = Leg(s)]
          /\ UNCHANGED endpoints
       \/ Reject(s) /\ UNCHANGED <<keepalives, keepaliveOf>>
    /\ UNCHANGED <<mode, privacyReloads, sip, pending, evictors, active, webBridges, answers, byes>>

RunDtlsHandshake(s) ==
    /\ session[s].step = "dtls"
    /\ \/ Goes(s, "rendezvous") /\ UNCHANGED endpoints
       \/ Reject(s)
    /\ UNCHANGED <<mode, privacyReloads, sip, pending, evictors, active, webBridges, keepalives,
                   keepaliveOf, answers, byes>>

-----------------------------------------------------------------------------
(* rendezvous: the partner is taken out of the map in one step. *)
TakePartnerMut(s) ==
    LET t == session[s].tag
    IN  /\ session[s].step = "rendezvous" /\ t # NoTag /\ pending[t] # NoLeg
        /\ session' = [session EXCEPT ![s] = [step |-> "bridge", tag |-> t, offers |-> @.offers,
                                              mode |-> @.mode, partner |-> pending[t]]]
        /\ evictors' = evictors \ {pending[t]}
        /\ UNCHANGED <<mode, privacyReloads, sip, endpoints, pending, active, webBridges,
                       keepalives, keepaliveOf, answers, byes>>

TakePartner(s) ==
    LET t == session[s].tag
    IN  /\ session[s].step = "rendezvous" /\ t # NoTag /\ pending[t] # NoLeg
        /\ session' = [session EXCEPT ![s] = [step |-> "bridge", tag |-> t, offers |-> @.offers,
                                              mode |-> @.mode, partner |-> pending[t]]]
        /\ pending' = [pending EXCEPT ![t] = NoLeg]
        /\ evictors' = evictors \ {pending[t]}
        /\ UNCHANGED <<mode, privacyReloads, sip, endpoints, active, webBridges, keepalives,
                       keepaliveOf, answers, byes>>

NoPartner(s) ==
    /\ session[s].step = "rendezvous"
    /\ IF session[s].tag = NoTag THEN Goes(s, "answer") ELSE pending[session[s].tag] = NoLeg /\ Goes(s, "park")
    /\ UNCHANGED <<mode, privacyReloads, sip, endpoints, pending, evictors, active, webBridges,
                   keepalives, keepaliveOf, answers, byes>>

(* Parking overwrites what another leg has parked since. *)
Park(s) ==
    /\ session[s].step = "park"
    /\ pending' = [pending EXCEPT ![session[s].tag] = Leg(s)]
    /\ evictors' = evictors \cup {Leg(s)}
    /\ Goes(s, "answer")
    /\ UNCHANGED <<mode, privacyReloads, sip, endpoints, active, webBridges, keepalives,
                   keepaliveOf, answers, byes>>

(* The session of a parked leg; a SIP leg has a synthetic one. *)
Owner(leg) == leg[1]

(* fabric.bridge fails when an endpoint is gone, and the offer with it. *)
InstallBridge(s) ==
    LET partner == session[s].partner
        bridge  == {Leg(s), partner}
    IN  /\ session[s].step = "bridge"
        /\ IF {Leg(s), partner} \subseteq endpoints
           THEN /\ webBridges' = webBridges \cup {bridge}
                /\ active' = [x \in Sessions |-> IF x \in {s, Owner(partner)} THEN bridge ELSE active[x]]
                /\ Goes(s, "answer")
           ELSE Goes(s, "ready") /\ UNCHANGED <<webBridges, active>>
        /\ UNCHANGED <<mode, privacyReloads, sip, endpoints, pending, evictors, keepalives,
                       keepaliveOf, answers, byes>>

(* What the negotiator's answer lists: host candidates when ICE is on,     *)
(* stripped unless the mode was open; then server-reflexive ones, gathered *)
(* in open mode only.                                                      *)
DirectCandidates(s) == session[s].mode = "open" /\ (IceEnabled \/ StunServers)

Answer(s) ==
    /\ session[s].step = "answer"
    /\ answers' = answers \cup {[mode |-> session[s].mode, direct |-> DirectCandidates(s)]}
    /\ Goes(s, "ready")
    /\ UNCHANGED <<mode, privacyReloads, sip, endpoints, pending, evictors, active, webBridges,
                   keepalives, keepaliveOf, byes>>

-----------------------------------------------------------------------------
(* handle_bye: keepalive and agent, the bridge, then a leg still parked,   *)
(* which is found first and removed by its tag afterwards.                 *)
Bye(s) ==
    /\ session[s].step = "ready"
    /\ keepalives' = keepalives \ {keepaliveOf[s]}
    /\ keepaliveOf' = [keepaliveOf EXCEPT ![s] = NoLeg]
    /\ webBridges' = webBridges \ {active[s]}
    /\ active' = [active EXCEPT ![s] = {}]
    /\ byes' = byes \cup {s}
    /\ Goes(s, "find")
    /\ UNCHANGED <<mode, privacyReloads, sip, endpoints, pending, evictors, answers>>

ByeFinds(s) ==
    /\ session[s].step = "find"
    /\ \/ /\ \A t \in Tags : Owner(pending[t]) # s
          /\ session' = [session EXCEPT ![s] = Silent]
       \/ \E t \in Tags : /\ Owner(pending[t]) = s
                          /\ session' = [session EXCEPT ![s] = [step |-> "unpark", tag |-> t]]
    /\ UNCHANGED <<mode, privacyReloads, sip, endpoints, pending, evictors, active, webBridges,
                   keepalives, keepaliveOf, answers, byes>>

ByeUnparks(s) ==
    LET t == session[s].tag
    IN  /\ session[s].step = "unpark"
        /\ pending' = [pending EXCEPT ![t] = NoLeg]
        /\ evictors' = evictors \ {pending[t]}
        /\ endpoints' = endpoints \ {pending[t]}
        /\ session' = [session EXCEPT ![s] = Silent]
        /\ UNCHANGED <<mode, privacyReloads, sip, active, webBridges, keepalives, keepaliveOf,
                       answers, byes>>

(* The deadline evictor: remove_if the entry is still its session's. *)
Evict(leg) ==
    /\ leg \in evictors
    /\ evictors' = evictors \ {leg}
    /\ LET mine == {t \in Tags : Owner(pending[t]) = Owner(leg)}
       IN  /\ pending' = [t \in Tags |-> IF t \in mine THEN NoLeg ELSE pending[t]]
           /\ endpoints' = endpoints \ {pending[t] : t \in mine}
    /\ UNCHANGED <<mode, privacyReloads, session, sip, active, webBridges, keepalives,
                   keepaliveOf, answers, byes>>

-----------------------------------------------------------------------------
(* pair_sip_leg, called by the UAS with the endpoint of the INVITE. *)
SipInvite(c, tag) ==
    /\ sip[c].step = "closed"
    /\ sip' = [sip EXCEPT ![c] = IF pending[tag] # NoLeg
                                 THEN [step |-> "bridge", partner |-> pending[tag]]
                                 ELSE [step |-> "park", tag |-> tag]]
    /\ pending' = [pending EXCEPT ![tag] = NoLeg]
    /\ evictors' = evictors \ {pending[tag]}
    /\ endpoints' = endpoints \cup {<<c, 0>>}
    /\ UNCHANGED <<mode, privacyReloads, session, active, webBridges, keepalives, keepaliveOf,
                   answers, byes>>

SipBridge(c) ==
    LET partner == sip[c].partner
        ok      == {<<c, 0>>, partner} \subseteq endpoints
    IN  /\ sip[c].step = "bridge"
        /\ webBridges' = IF ok THEN webBridges \cup {{<<c, 0>>, partner}} ELSE webBridges
        /\ active' = [x \in Sessions |-> IF ok /\ x = Owner(partner) THEN {<<c, 0>>, partner} ELSE active[x]]
        /\ sip' = [sip EXCEPT ![c] = [step |-> "talking", installed |-> ok]]
        /\ UNCHANGED <<mode, privacyReloads, session, endpoints, pending, evictors, keepalives,
                       keepaliveOf, answers, byes>>

SipPark(c) ==
    /\ sip[c].step = "park"
    /\ pending' = [pending EXCEPT ![sip[c].tag] = <<c, 0>>]
    /\ evictors' = evictors \cup {<<c, 0>>}
    /\ sip' = [sip EXCEPT ![c] = [step |-> "talking", installed |-> FALSE]]
    /\ UNCHANGED <<mode, privacyReloads, session, endpoints, active, webBridges, keepalives,
                   keepaliveOf, answers, byes>>

(* The UAS ends the dialog: the bridge it was given, if any, and its       *)
(* endpoint; nothing takes a parked leg out of the map.                    *)
SipEnds(c) ==
    /\ sip[c].step = "talking"
    /\ webBridges' = {b \in webBridges : ~(sip[c].installed /\ <<c, 0>> \in b)}
    /\ endpoints' = endpoints \ {<<c, 0>>}
    /\ sip' = [sip EXCEPT ![c] = [step |-> "ended"]]
    /\ UNCHANGED <<mode, privacyReloads, session, pending, evictors, active, keepalives,
                   keepaliveOf, answers, byes>>

WebRtcNext ==
    \/ \E to \in Modes : ReloadPrivacy(to)
    \/ \E leg \in Legs : Evict(leg)
    \/ \E s \in Sessions :
         \/ \E tag \in Tags \cup {NoTag} : SessionInit(s, tag)
         \/ \E direct, dtls, ice \in BOOLEAN : Offer(s, direct, dtls, ice)
         \/ NegotiateAnswer(s) \/ RunIce(s) \/ RunDtlsHandshake(s)
         \/ TakePartner(s) \/ NoPartner(s) \/ Park(s) \/ InstallBridge(s) \/ Answer(s)
         \/ Bye(s) \/ ByeFinds(s) \/ ByeUnparks(s)
    \/ \E c \in SipCalls :
         \/ \E tag \in Tags : SipInvite(c, tag)
         \/ SipBridge(c) \/ SipPark(c) \/ SipEnds(c)

WebRtcSpec == WebRtcInit /\ [][WebRtcNext]_webRtcVars

-----------------------------------------------------------------------------
(* A leg is parked or bridged to one partner, never both and never to two, *)
(* however offers, SIP INVITEs, evictions and byes of one tag              *)
(* interleave, and a leg in a bridge still has its endpoint unless it is   *)
(* the leg of an ended SIP call: no deadline evictor or bye takes it away  *)
(* (rendezvous, pair_sip_leg, spawn_evictor, handle_bye).                  *)
PairedExclusively ==
    /\ \A a, b \in webBridges : a = b \/ a \cap b = {}
    /\ \A b \in webBridges : \A leg \in b :
         leg \in endpoints \/ (Owner(leg) \in SipCalls /\ sip[Owner(leg)].step = "ended")
    /\ \A b \in webBridges, t \in Tags : pending[t] \notin b

(* An offer made while the mode was relay_only or strict is never answered *)
(* with a host or server-reflexive candidate, although the mode may change *)
(* during its checks and handshake, and STUN candidates are added after    *)
(* the host ones were stripped (handle_offer_tagged).                      *)
AnswersPrivate == \A a \in answers : a.mode # "open" => ~a.direct

(* A leg is bridged with one partner at most, and an answer never shows    *)
(* an address its privacy mode hides (webrtc.rs: handle_offer_tagged).     *)
RendezvousSound == PairedExclusively /\ AnswersPrivate
=============================================================================
