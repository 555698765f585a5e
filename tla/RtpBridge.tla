------------------------------ MODULE RtpBridge ------------------------------
(***************************************************************************)
(* The data plane of one two-leg bridge: the forwarders with SRTP, stream  *)
(* statistics and DTMF detection (smiths-media bridge.rs, srtp.rs,         *)
(* rtp_stats.rs, smiths-core dtmf.rs), and the RTCP reports exchanged with *)
(* the peers (rtcp.rs).                                                    *)
(*                                                                         *)
(* A peer sends the packets of Script in order; the network loses, repeats *)
(* and reorders them within a window.  Stream state is kept per ingress    *)
(* leg.  Sequence numbers are modulo RtpModulus (2^16), NTP timestamps     *)
(* modulo NtpModulus (2^32).                                               *)
(***************************************************************************)
EXTENDS Integers, Sequences, FiniteSets

CONSTANTS
    Legs,          \* the two legs of the bridge
    Senders,       \* the legs whose peer sends RTP
    Reporting,     \* the legs whose RTCP is followed
    Script,        \* what a peer sends: audio, or packets of a keypress
    RtpFirst,      \* the first sequence number
    RtpModulus, NtpModulus,
    InbandDtmf,    \* whether the in-band tone detector is enabled
    Debounce,      \* frames of silence between two presses of one digit
    RtpReorder,    \* how many packets back the network still delivers
    MaxDeliveries, \* bound: RTP datagrams received on one leg
    FirstNow,      \* the clock when the bridge starts
    MaxNow,        \* bound: how far the clock runs
    MaxReports     \* bound: sender reports emitted to one peer

ASSUME RtpBridgeAssumption ==
    /\ Senders \cup Reporting \subseteq Legs /\ Cardinality(Legs) = 2
    /\ {RtpModulus, NtpModulus, RtpReorder} \subseteq Nat \ {0}
    /\ FirstNow \in Nat /\ 2 * MaxNow < NtpModulus

VARIABLES
    srtp,        \* whether each leg carries keys
    tasks,       \* the forwarder, emitter and listener tasks
    sentRtp,     \* packets each peer has sent
    stats,       \* StreamStats of the stream received on each leg
    received,    \* the packets received on each leg, and how many times in all
    accepted,    \* the SRTP replay detector of each leg: indices it accepted
    detector,    \* DtmfDetector of each direction
    presses,     \* keypresses delivered to the sink, per direction
    tones,       \* the in-band tone detector of each direction
    onWire,      \* the form of the last packet sent to each leg's peer
    now,
    reports      \* RTCP of each leg: in flight, at the peer, measured

bridgeVars == <<srtp, tasks, sentRtp, stats, received, accepted, detector,
                presses, tones, onWire, now, reports>>

Other(l) == CHOOSE k \in Legs : k # l
NoPress == <<>>
NoSr == -1

FreshStats == [packets |-> 0, base |-> 0, max_seq |-> 0, cycles |-> 0]
NoTone == 0
FreshTone == [frames |-> 0, held |-> NoTone, since |-> 0, last |-> NoTone, ended |-> 0,
              reported |-> <<>>]
FreshRtcp ==
    [emitted |-> 0, toPeer |-> {}, atPeer |-> {}, fromPeer |-> {},
     expected |-> 0, counted |-> 0, rtt |-> NoSr, trueRtt |-> NoSr]

RtpBridgeInit ==
    /\ srtp = [l \in Legs |-> FALSE] /\ tasks = "none"
    /\ sentRtp = [l \in Legs |-> 0]
    /\ stats = [l \in Legs |-> FreshStats]
    /\ received = [l \in Legs |-> [set |-> {}, count |-> 0]]
    /\ accepted = [l \in Legs |-> {}]
    /\ detector = [l \in Legs |-> [in_flight |-> NoPress, last_emitted |-> NoPress]]
    /\ presses = [l \in Legs |-> <<>>]
    /\ tones = [l \in Legs |-> FreshTone]
    /\ onWire = [l \in Legs |-> "nothing"]
    /\ now = FirstNow
    /\ reports = [l \in Legs |-> FreshRtcp]

(* The fabric builds each leg from what its SDP negotiated. *)
SpawnBridge(keyed) ==
    /\ tasks = "none"
    /\ srtp' = [l \in Legs |-> l \in keyed]
    /\ tasks' = "running"
    /\ UNCHANGED <<sentRtp, stats, received, accepted, detector, presses, tones, onWire, now, reports>>

StopBridge ==
    /\ tasks = "running"
    /\ tasks' = "stopped"
    /\ UNCHANGED <<srtp, sentRtp, stats, received, accepted, detector, presses, tones, onWire, now, reports>>

PeerSends(l) ==
    /\ l \in Senders /\ sentRtp[l] < Len(Script) /\ tasks # "none"
    /\ sentRtp' = [sentRtp EXCEPT ![l] = @ + 1]
    /\ UNCHANGED <<srtp, tasks, stats, received, accepted, detector, presses, tones, onWire, now, reports>>

-----------------------------------------------------------------------------
(***************************************************************************)
(* The forwarder of one direction.                                         *)
(***************************************************************************)
(* srtp_pair: transforms are applied only when both legs carry keys. *)
Transforms == \A l \in Legs : srtp[l]

(* What the peer of `Other(l)` is sent for a packet received on `l`. *)
WireForm(l) ==
    CASE Transforms -> "sealed"
      [] ~Transforms /\ srtp[l] -> "sealed for the other leg"
      [] ~Transforms /\ ~srtp[l] -> "plain"

(* observe_header: sequence-wrap detection on the low half of max_seq. *)
Observed(s, seq) ==
    LET diff == seq - (s.max_seq % RtpModulus)
        counted == [s EXCEPT !.packets = @ + 1]
    IN  CASE s.packets = 0 -> [counted EXCEPT !.base = seq, !.max_seq = seq]
          [] s.packets > 0 /\ diff > 0 ->
               [counted EXCEPT !.max_seq = s.cycles * RtpModulus + seq]
          [] s.packets > 0 /\ 2 * diff < -RtpModulus ->
               [counted EXCEPT !.cycles = @ + 1,
                               !.max_seq = (s.cycles + 1) * RtpModulus + seq]
          [] s.packets > 0 /\ diff <= 0 /\ 2 * diff >= -RtpModulus -> counted

FeedMut(d, ev) ==
    LET press == <<ev.event, ev.press>>
    IN  IF ev.end THEN [detector |-> [in_flight |-> NoPress, last_emitted |-> NoPress],
                        emits |-> TRUE]
        ELSE [detector |-> [d EXCEPT !.in_flight = press], emits |-> FALSE]

(* event_code_to_digit: sixteen digits and the flash hook *)
HasDigit(code) == code \in 0..16

(* DtmfDetector::feed: a press is its event code and its RTP timestamp;    *)
(* the first End of a press emits it, further ones are swallowed until     *)
(* another press is emitted.  A code without a digit is not remembered.    *)
Feed(d, ev) ==
    LET press == <<ev.event, ev.press>>
        open == [d EXCEPT !.in_flight = press]
        closed == [d EXCEPT !.in_flight = NoPress]
    IN  IF d.last_emitted = press THEN [detector |-> d, emits |-> FALSE]
        ELSE IF ~ev.end THEN [detector |-> open, emits |-> FALSE]
        ELSE IF ~HasDigit(ev.event) THEN [detector |-> closed, emits |-> FALSE]
        ELSE [detector |-> [closed EXCEPT !.last_emitted = press], emits |-> TRUE]

(* InbandDtmfDetector::close_frame on one audio frame: a tone is reported  *)
(* when it ends, unless the same digit ended less than Debounce ago.       *)
FeedTone(d, tone) ==
    LET clock == d.frames + 1
        ends == d.held # NoTone /\ d.held # tone
        bounced == d.last = d.held /\ d.since - d.ended < Debounce
        held == IF d.held = tone THEN d
                ELSE [d EXCEPT !.held = tone, !.since = IF tone = NoTone THEN 0 ELSE clock]
    IN  [(IF ends /\ ~bounced
          THEN [held EXCEPT !.last = d.held, !.ended = clock, !.reported = Append(@, d.held)]
          ELSE held) EXCEPT !.frames = clock]

(* sniff_dtmf: the payload type chooses the detector. *)
Sniffed(l, packet) ==
    LET fed == Feed(detector[l], packet)
    IN  \/ /\ packet.kind = "event"
           /\ detector' = [detector EXCEPT ![l] = fed.detector]
           /\ presses' = IF fed.emits THEN [presses EXCEPT ![l] = Append(@, packet.press)]
                         ELSE presses
           /\ UNCHANGED tones
        \/ /\ packet.kind = "audio"
           /\ tones' = IF InbandDtmf THEN [tones EXCEPT ![l] = FeedTone(@, packet.tone)]
                       ELSE tones
           /\ UNCHANGED <<detector, presses>>

Replayed(l, n) == Transforms /\ n \in accepted[l]

(* One RTP datagram: unprotect, parse, observe, sniff, rewrite the SSRC,   *)
(* protect, send.  A replayed packet is dropped before any of it.          *)
Forward(l, n) ==
    /\ tasks = "running"
    /\ n < sentRtp[l] /\ sentRtp[l] - n <= RtpReorder
    /\ received[l].count < MaxDeliveries
    /\ received' = [received EXCEPT ![l].count = @ + 1, ![l].set = @ \cup {n}]
    /\ IF Replayed(l, n)
       THEN UNCHANGED <<accepted, stats, detector, presses, tones, onWire>>
       ELSE /\ accepted' = [accepted EXCEPT ![l] =
                              IF Transforms THEN @ \cup {n} ELSE @]
            /\ stats' = [stats EXCEPT ![l] = Observed(@, (RtpFirst + n) % RtpModulus)]
            /\ Sniffed(l, Script[n + 1])
            /\ onWire' = [onWire EXCEPT ![Other(l)] = WireForm(l)]
    /\ UNCHANGED <<srtp, tasks, sentRtp, now, reports>>

-----------------------------------------------------------------------------
(***************************************************************************)
(* RTCP.  A sender report to leg `l`'s peer names our stream and, once     *)
(* packets arrived from that peer, reports on his; the peer echoes the     *)
(* report's timestamp with the time it held it.                            *)
(***************************************************************************)
Expected(s) == IF s.packets = 0 \/ s.max_seq < s.base THEN 0 ELSE s.max_seq - s.base + 1

(* IntervalLoss::fraction_lost, in 256ths of the interval. *)
FractionLost(r, s) ==
    LET expected == Expected(s) - r.expected
        got == s.packets - r.counted
    IN  IF expected <= 0 \/ got >= expected THEN 0
        ELSE ((expected - got) * 256) \div expected

EmitReport(l) ==
    /\ tasks = "running" /\ l \in Reporting /\ reports[l].emitted < MaxReports
    /\ LET block == IF stats[l].packets = 0 THEN 0 ELSE FractionLost(reports[l], stats[l])
       IN  reports' = [reports EXCEPT
             ![l].emitted = @ + 1,
             ![l].toPeer = @ \cup {[ntp |-> now % NtpModulus, at |-> now, lost |-> block]},
             ![l].expected = IF stats[l].packets = 0 THEN @ ELSE Expected(stats[l]),
             ![l].counted = IF stats[l].packets = 0 THEN @ ELSE stats[l].packets]
    /\ UNCHANGED <<srtp, tasks, sentRtp, stats, received, accepted, detector,
                   presses, tones, onWire, now>>

(* The peer keeps the last sender report it received. *)
PeerHears(l, sr) ==
    /\ sr \in reports[l].toPeer
    /\ reports' = [reports EXCEPT ![l].toPeer = @ \ {sr},
                                  ![l].atPeer = {[sr |-> sr, at |-> now]}]
    /\ UNCHANGED <<srtp, tasks, sentRtp, stats, received, accepted, detector,
                   presses, tones, onWire, now>>

(* A block that reports on no sender report carries zero timestamps. *)
PeerReports(l) ==
    /\ tasks # "none" /\ l \in Reporting /\ Cardinality(reports[l].fromPeer) < MaxReports
    /\ \E about \in {"ours", "another source"} :
         LET block(last_sr, dlsr, outward) ==
               [about |-> about, left |-> now, last_sr |-> last_sr, dlsr |-> dlsr,
                outward |-> outward]
             echoed == {block(h.sr.ntp, now - h.at, h.at - h.sr.at) : h \in reports[l].atPeer}
         IN  \E b \in IF echoed = {} THEN {block(0, 0, 0)} ELSE echoed :
               reports' = [reports EXCEPT ![l].fromPeer = @ \cup {b}]
    /\ UNCHANGED <<srtp, tasks, sentRtp, stats, received, accepted, detector,
                   presses, tones, onWire, now>>

(* A - LSR - DLSR in wrapping arithmetic; nothing echoed, or a result in   *)
(* the upper half, is no measurement.                                      *)
RoundTripTime(arrival, block) ==
    LET ticks == (arrival - block.last_sr - block.dlsr) % NtpModulus
    IN  IF block.last_sr = 0 \/ 2 * ticks >= NtpModulus THEN NoSr ELSE ticks

(* RtcpIngress::handle, from the mux'd RTP socket or the RTCP one: blocks  *)
(* about our SSRC are absorbed, a block without a measurement keeps the    *)
(* last one.                                                               *)
ReportArrives(l, block) ==
    /\ tasks = "running" /\ block \in reports[l].fromPeer
    /\ LET rtt == RoundTripTime(now % NtpModulus, block)
           measured == block.about = "ours" /\ rtt # NoSr
       IN  reports' = [reports EXCEPT
             ![l].fromPeer = @ \ {block},
             ![l].rtt = IF measured THEN rtt ELSE @,
             ![l].trueRtt = IF measured
                            THEN block.outward + (now - block.left)
                            ELSE @]
    /\ UNCHANGED <<srtp, tasks, sentRtp, stats, received, accepted, detector,
                   presses, tones, onWire, now>>

ClockTicks ==
    /\ tasks # "none" /\ now < FirstNow + MaxNow
    /\ now' = now + 1
    /\ UNCHANGED <<srtp, tasks, sentRtp, stats, received, accepted, detector,
                   presses, tones, onWire, reports>>

-----------------------------------------------------------------------------
RtpBridgeNext ==
    \/ \E keyed \in SUBSET Legs : SpawnBridge(keyed)
    \/ StopBridge
    \/ ClockTicks
    \/ \E l \in Legs :
         \/ PeerSends(l) \/ EmitReport(l) \/ PeerReports(l)
         \/ \E n \in 0..(Len(Script) - 1) : Forward(l, n)
         \/ \E sr \in reports[l].toPeer : PeerHears(l, sr)
         \/ \E block \in reports[l].fromPeer : ReportArrives(l, block)

RtpBridgeSpec == RtpBridgeInit /\ [][RtpBridgeNext]_bridgeVars

-----------------------------------------------------------------------------
EndsOf(k) == {n \in DOMAIN Script : Script[n].kind = "event" /\ Script[n].press = k /\ Script[n].end}

(* Of the keypresses the sink is told, none is told twice running, and     *)
(* each one ended and is a digit, while the network loses, repeats and     *)
(* reorders the packets, on plain and on protected legs.  The detector     *)
(* remembers one press: an End that arrives after the End of the next      *)
(* press is told once more, and the property allows it                     *)
(* (DtmfDetector::feed with sniff_dtmf and the replay window).             *)
KeypressesTold ==
    \A l \in Legs : \A i \in DOMAIN presses[l] :
       /\ i > 1 => presses[l][i] # presses[l][i - 1]
       /\ \E n \in EndsOf(presses[l][i]) : n - 1 \in received[l].set /\ HasDigit(Script[n].event)

(* The round-trip time a bridge reports is the time its report and the     *)
(* peer's answer really spent on the network, although reports are         *)
(* delayed, reordered, held by the peer and answered out of turn, and the  *)
(* clock wraps between them                                                *)
(* (round_trip_time, absorb_blocks, record_peer_report).                   *)
RoundTripTrue == \A l \in Legs : reports[l].rtt = reports[l].trueRtt

(* What the bridge reports of its legs happened on the wire: keypresses    *)
(* that are repeated, reordered or replayed, and round trips measured      *)
(* across a wrap of the clock (dtmf.rs, rtcp.rs).                          *)
BridgeTellsTrue == KeypressesTold /\ RoundTripTrue
=============================================================================
