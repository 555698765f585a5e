-------------------------------- MODULE Sdp --------------------------------
(***************************************************************************)
(* SDP offer/answer (crates/smiths-sdp): parsing a body into a             *)
(* SessionDescription, the answer the Negotiator gives, its rendering, and *)
(* the process-wide o= version that concurrent answers draw from.          *)
(*                                                                         *)
(* A body is a sequence of lines <<"m", kind, port, protocol, formats>>,   *)
(* <<"c", address>>, <<"a", name, wellFormed, value>> or of the three      *)
(* mandatory lines <<"v">>, <<"o", version>> and <<"s">>; `wellFormed`     *)
(* says whether the attribute's own parser accepts the value.              *)
(***************************************************************************)
EXTENDS Naturals, Sequences, FiniteSets, SequencesExt

CONSTANTS
    Callers,         \* tasks that negotiate at the same time
    Supported,       \* the audio codecs of the Negotiator, in order
    SupportedVideo,  \* its video codecs
    SessionParts,    \* what the offers say before their first m= line
    AudioParts,      \* their audio blocks
    VideoParts,      \* their other blocks
    MaxClock,        \* bound: seconds of the wall clock
    MaxVersion       \* bound: versions issued

ASSUME SdpAssumption == MaxClock \in Nat /\ MaxVersion \in Nat

VARIABLES
    wallClock,      \* unix_seconds; the administrator may set it back
    originVersion,  \* ORIGIN_VERSION
    stamped,        \* [Callers -> the second read, or NotStamped]
    issued,         \* versions in the order they were drawn
    cert, iceOn,    \* Negotiator.dtls_cert is Some, ice_enabled
    offered,        \* the offer the callers answer: body, and video port or 0
    outcome         \* the last NegotiationOutcome

sdpVars == <<wallClock, originVersion, stamped, issued, cert, iceOn, offered, outcome>>

NotStamped == MaxClock + 1
Absent == "none"                    \* an Option that is None
AnyFormat == 256                    \* the * of a=rtcp-fb
Optional(s) == IF s = << >> THEN Absent ELSE Head(s)

(* MediaDescription::new.  fmtp and rtcp-fb lines are known by their format, extmap *)
(* lines by their direction, T.38 attributes by their name.                         *)
NewMedia(kind, port, protocol) ==
    [kind |-> kind, port |-> port, protocol |-> protocol, formats |-> << >>, rtpmap |-> << >>,
     fmtp |-> << >>, ptime |-> 0, crypto |-> << >>, direction |-> "sendrecv",
     connection |-> Absent, fingerprint |-> Absent, setup |-> Absent, ufrag |-> Absent,
     pwd |-> Absent, options |-> {}, candidates |-> << >>, ended |-> FALSE, mid |-> Absent,
     extmap |-> << >>, mux |-> FALSE, rtcp |-> 0, fb |-> << >>, t38 |-> {}]

(* The first media block of a kind, as a sequence of at most one. *)
FirstOf(sdp, kind) ==
    LET found == SelectSeq(sdp.media, LAMBDA b : b.kind = kind)
    IN  IF found = << >> THEN << >> ELSE <<Head(found)>>

BundleMids(sdp) == UNION {sdp.groups[i].mids : i \in {j \in DOMAIN sdp.groups :
                                                        sdp.groups[j].semantics = "BUNDLE"}}

RtcpPort(b) == IF b.port = 0 THEN 0
               ELSE IF b.rtcp # 0 THEN b.rtcp
               ELSE IF b.mux THEN b.port
               ELSE b.port + 1

ReverseDirection(d) == CASE d = "sendonly" -> "recvonly" [] d = "recvonly" -> "sendonly"
                         [] OTHER -> d
ReverseSetup(s) == IF s = "active" THEN "passive" ELSE "active"

-----------------------------------------------------------------------------
(* Parsing. *)

(* The first fingerprint, setup, ICE and direction lines of the session, inherited by *)
(* each block.  A malformed session-level fingerprint or setup erases an earlier one. *)
ApplySessionAttribute(session, name, ok, value) ==
    CASE name = "group" -> [session EXCEPT !.groups = Append(@, value)]
      [] name = "ice-lite" -> [session EXCEPT !.lite = TRUE]
      [] name = "fingerprint" -> [session EXCEPT !.fingerprint = IF ok THEN value ELSE Absent]
      [] name = "setup" -> [session EXCEPT !.setup = IF ok THEN value ELSE Absent]
      [] name = "ufrag" -> [session EXCEPT !.ufrag = value]
      [] name = "pwd" -> [session EXCEPT !.pwd = value]
      [] name = "options" -> [session EXCEPT !.options = value]
      [] name = "direction" /\ ok -> [session EXCEPT !.direction = value]
      [] OTHER -> session

Seed(session, b) ==
    [b EXCEPT !.fingerprint = session.fingerprint, !.setup = session.setup,
              !.ufrag = session.ufrag, !.pwd = session.pwd, !.options = session.options,
              !.direction = IF session.direction # Absent THEN session.direction ELSE @]

ApplySecurityAttribute(b, name, ok, value) ==
    CASE name = "fingerprint" /\ ok -> [b EXCEPT !.fingerprint = value]
      [] name = "setup" /\ ok -> [b EXCEPT !.setup = value]
      [] name = "ufrag" -> [b EXCEPT !.ufrag = value]
      [] name = "pwd" -> [b EXCEPT !.pwd = value]
      [] name = "options" -> [b EXCEPT !.options = value]
      [] name = "candidate" /\ ok -> [b EXCEPT !.candidates = Append(@, value)]
      [] name = "end-of-candidates" -> [b EXCEPT !.ended = TRUE]
      [] OTHER -> b

ApplyMultiplexAttribute(b, name, ok, value) ==
    CASE name = "mid" -> [b EXCEPT !.mid = value]
      [] name = "extmap" /\ ok -> [b EXCEPT !.extmap = Append(@, value)]
      [] name = "rtcp-mux" -> [b EXCEPT !.mux = TRUE]
      [] name = "rtcp" /\ ok -> [b EXCEPT !.rtcp = value]
      [] name = "rtcp-fb" /\ ok -> [b EXCEPT !.fb = Append(@, value)]
      [] OTHER -> b

(* apply_media_attribute: a malformed line of any name but rtpmap is skipped. *)
ApplyMediaAttribute(b, name, ok, value) ==
    CASE name = "rtpmap" -> [b EXCEPT !.rtpmap = Append(@, value)]
      [] name = "fmtp" /\ ok -> [b EXCEPT !.fmtp = Append(@, value)]
      [] name = "ptime" -> [b EXCEPT !.ptime = IF ok THEN value ELSE 0]
      [] name = "crypto" /\ ok -> [b EXCEPT !.crypto = Append(@, value)]
      [] name = "T38" -> [b EXCEPT !.t38 = @ \cup {value}]
      [] name = "direction" /\ ok -> [b EXCEPT !.direction = value]
      [] OTHER -> ApplyMultiplexAttribute(ApplySecurityAttribute(b, name, ok, value), name, ok, value)

NothingParsed ==
    [ok |-> TRUE, seen |-> {}, version |-> 0, connection |-> Absent, media |-> << >>,
     session |-> [groups |-> << >>, lite |-> FALSE, fingerprint |-> Absent, setup |-> Absent,
                  ufrag |-> Absent, pwd |-> Absent, options |-> {}, direction |-> Absent]]

(* One turn of the loop of SessionDescription::parse; the current block is the last one. *)
ParseLine(p, line) ==
    LET tag == line[1]
        n == Len(p.media)
    IN  CASE tag \in {"v", "s"} -> [p EXCEPT !.seen = @ \cup {tag}]
          [] tag = "o" -> [p EXCEPT !.seen = @ \cup {tag}, !.version = line[2]]
          [] tag = "c" /\ n = 0 -> [p EXCEPT !.connection = line[2]]
          [] tag = "c" /\ n > 0 -> [p EXCEPT !.media[n].connection = line[2]]
          [] tag = "m" ->
               [p EXCEPT !.media = Append(@, Seed(p.session,
                   [NewMedia(line[2], line[3], line[4]) EXCEPT !.formats = line[5]]))]
          [] tag = "a" /\ n = 0 ->
               [p EXCEPT !.session = ApplySessionAttribute(@, line[2], line[3], line[4])]
          [] tag = "a" /\ n > 0 ->
               [p EXCEPT !.ok = @ /\ (line[2] = "rtpmap" => line[3]),
                         !.media[n] = ApplyMediaAttribute(@, line[2], line[3], line[4])]

Unparsed == [ok |-> FALSE]

Parse(body) ==
    LET p == FoldLeft(ParseLine, NothingParsed, body)
    IN  IF p.ok /\ p.seen = {"v", "o", "s"}
        THEN [ok |-> TRUE, version |-> p.version, connection |-> p.connection,
              groups |-> p.session.groups, lite |-> p.session.lite, media |-> p.media]
        ELSE Unparsed

-----------------------------------------------------------------------------
(* Rendering: Display for SessionDescription and MediaDescription. *)

Attr(name, value) == <<"a", name, TRUE, value>>
Attrs(name, values) == [i \in DOMAIN values |-> Attr(name, values[i])]
AttrIf(name, present, value) == IF present THEN <<Attr(name, value)>> ELSE << >>

RenderMedia(b) ==
    <<<<"m", b.kind, b.port, b.protocol, b.formats>>>>
    \o (IF b.connection # Absent THEN <<<<"c", b.connection>>>> ELSE << >>)
    \o Attrs("rtpmap", b.rtpmap) \o Attrs("fmtp", b.fmtp)
    \o AttrIf("ptime", b.ptime # 0, b.ptime)
    \o Attrs("crypto", b.crypto)
    \o AttrIf("fingerprint", b.fingerprint # Absent, b.fingerprint)
    \o AttrIf("setup", b.setup # Absent, b.setup)
    \o AttrIf("ufrag", b.ufrag # Absent, b.ufrag)
    \o AttrIf("pwd", b.pwd # Absent, b.pwd)
    \o AttrIf("options", b.options # {}, b.options)
    \o Attrs("candidate", b.candidates)
    \o AttrIf("end-of-candidates", b.ended, TRUE)
    \o AttrIf("mid", b.mid # Absent, b.mid)
    \o Attrs("extmap", b.extmap)
    \o AttrIf("rtcp-mux", b.mux, TRUE)
    \o AttrIf("rtcp", b.rtcp # 0, b.rtcp)
    \o Attrs("rtcp-fb", b.fb)
    \o Attrs("T38", SetToSeq(b.t38))
    \o <<Attr("direction", b.direction)>>

Render(sdp) ==
    <<<<"v">>, <<"o", sdp.version>>, <<"s">>>>
    \o (IF sdp.connection # Absent THEN <<<<"c", sdp.connection>>>> ELSE << >>)
    \o Attrs("group", sdp.groups)
    \o AttrIf("ice-lite", sdp.lite, TRUE)
    \o FlattenSeq([i \in DOMAIN sdp.media |-> RenderMedia(sdp.media[i])])

-----------------------------------------------------------------------------
(* The answer. *)

RtpMapFor(b, pt) == SelectSeq(b.rtpmap, LAMBDA r : r.pt = pt)
Offers(b, pt) == \E i \in DOMAIN b.formats : b.formats[i] = pt

ChooseCodecMut(b, codecs) ==
    LET common == SelectSeq(codecs, LAMBDA s : \E i \in DOMAIN b.rtpmap :
                       b.rtpmap[i].codec = s.codec /\ b.rtpmap[i].clock = s.clock)
    IN  IF common = << >> THEN << >> ELSE <<Head(common)>>

(* choose_codec: the first offered payload type the engine supports.  With an rtpmap it *)
(* is the offer's entry, by name and clock rate; without, the engine's, by number.      *)
ChooseCodec(b, codecs) ==
    LET known(pt) == IF RtpMapFor(b, pt) # << >>
                     THEN LET r == Head(RtpMapFor(b, pt))
                          IN  IF \E i \in DOMAIN codecs : codecs[i].codec = r.codec /\ codecs[i].clock = r.clock
                              THEN <<r>> ELSE << >>
                     ELSE SelectSeq(codecs, LAMBDA s : s.pt = pt)
        usable == SelectSeq(b.formats, LAMBDA pt : known(pt) # << >>)
    IN  IF usable = << >> THEN << >> ELSE <<Head(known(Head(usable)))>>

TelephoneEventFor(b, chosen) ==
    LET events == SelectSeq(b.rtpmap, LAMBDA r : r.codec = "telephone-event" /\ Offers(b, r.pt))
        atClock == SelectSeq(events, LAMBDA r : r.clock = chosen.clock)
    IN  IF atClock # << >> THEN <<Head(atClock)>>
        ELSE IF events # << >> THEN <<Head(events)>> ELSE << >>

EchoMediaAttributes(b, answer, pts) ==
    [answer EXCEPT
        !.mid = b.mid, !.mux = b.mux, !.ptime = b.ptime,
        !.extmap = [i \in DOMAIN b.extmap |-> ReverseDirection(b.extmap[i])],
        !.fmtp = SelectSeq(pts, LAMBDA pt : \E i \in DOMAIN b.fmtp : b.fmtp[i] = pt),
        !.fb = SelectSeq(b.fb, LAMBDA f : f = AnyFormat \/ \E i \in DOMAIN pts : pts[i] = f)]

RejectedStream(b) ==
    [NewMedia(b.kind, 0, b.protocol) EXCEPT
        !.formats = b.formats, !.mid = b.mid, !.direction = "inactive"]

(* bundle_groups: the accepted blocks that share the transport of the first of them. *)
BundleGroups(offer, media) ==
    LET accepted == SelectSeq(media, LAMBDA b : b.port # 0 /\ b.mid \in BundleMids(offer))
        sharing == SelectSeq(accepted, LAMBDA b : b.port = accepted[1].port)
    IN  IF accepted = << >> THEN << >>
        ELSE <<[semantics |-> "BUNDLE", mids |-> {sharing[i].mid : i \in DOMAIN sharing}]>>

IsDtls(protocol) == protocol \in {"UDP/TLS/RTP/SAVP", "UDP/TLS/RTP/SAVPF"}
HostCandidate(port) == [type |-> "host", port |-> port]

NoKeys == [srtp |-> << >>, dtls |-> << >>, ice |-> << >>]
NotAnswered(why) == [kind |-> why]
AnswerOf(version, offer, media, keys) ==
    [kind |-> "answer", keys |-> keys,
     sdp |-> [ok |-> TRUE, version |-> version, connection |-> "engine",
              groups |-> BundleGroups(offer, media), lite |-> FALSE, media |-> media]]

(* The DTLS part of `answer`: identity, complementary setup, role. *)
DtlsAnswer(b, media) == [media EXCEPT !.fingerprint = "engine-fp",
                                      !.setup = ReverseSetup(b.setup)]
DtlsKeys(b) == <<[peer |-> b.fingerprint,
                  role |-> IF ReverseSetup(b.setup) = "passive" THEN "server" ELSE "client"]>>

IceAnswer(media, port) == [media EXCEPT !.ufrag = "engine-ufrag", !.pwd = "engine-pwd",
                                        !.options = {"trickle"}, !.ended = TRUE,
                                        !.candidates = <<HostCandidate(port)>>]
IceKeys(offer, b) ==
    IF Absent \in {b.ufrag, b.pwd} THEN << >>
    ELSE <<[ufrag |-> b.ufrag, pwd |-> b.pwd,
            role |-> IF offer.lite \/ "ice-lite" \in b.options THEN "controlling" ELSE "controlled"]>>

(* The SDES part: a fresh key under the tag and the suite of the first crypto line. *)
SdesAnswer(b) == <<[tag |-> Head(b.crypto).tag, suite |-> Head(b.crypto).suite, key |-> "engine-key"]>>
SdesKeys(b) == <<[suite |-> Head(b.crypto).suite, peerTx |-> Head(b.crypto).key, localTx |-> "engine-key"]>>

(* The answer before it is secured: the codec chosen, with its telephone-event. *)
PlainAnswer(b, chosen, port) ==
    EchoMediaAttributes(b,
        [NewMedia("audio", port, b.protocol) EXCEPT
            !.formats = [i \in DOMAIN chosen |-> chosen[i].pt], !.rtpmap = chosen,
            !.direction = ReverseDirection(b.direction)],
        [i \in DOMAIN chosen |-> chosen[i].pt])

(* Negotiator::answer once a codec is chosen: DTLS-SRTP, SDES or plain RTP. *)
SecuredAnswer(version, offer, b, plain, port) ==
    CASE IsDtls(b.protocol) /\ (~cert \/ b.fingerprint = Absent) -> NotAnswered("unsupported")
      [] IsDtls(b.protocol) /\ cert /\ b.fingerprint # Absent ->
           AnswerOf(version, offer,
               <<IF iceOn THEN IceAnswer(DtlsAnswer(b, plain), port) ELSE DtlsAnswer(b, plain)>>,
               [NoKeys EXCEPT !.dtls = DtlsKeys(b),
                              !.ice = IF iceOn THEN IceKeys(offer, b) ELSE << >>])
      [] b.protocol = "RTP/SAVP" /\ b.crypto = << >> -> NotAnswered("mismatch")
      [] b.protocol = "RTP/SAVP" /\ b.crypto # << >> ->
           AnswerOf(version, offer, <<[plain EXCEPT !.crypto = SdesAnswer(b)]>>,
                    [NoKeys EXCEPT !.srtp = SdesKeys(b)])
      [] OTHER -> AnswerOf(version, offer, <<plain>>, NoKeys)

AnswerBlock(version, offer, b, codec, port) ==
    CASE b.port = 0 -> AnswerOf(version, offer, <<RejectedStream(b)>>, NoKeys)
      [] b.port # 0 /\ codec = << >> -> NotAnswered("mismatch")
      [] OTHER -> SecuredAnswer(version, offer, b,
                      PlainAnswer(b, codec \o TelephoneEventFor(b, Head(codec)), port), port)

(* Negotiator::answer *)
AnswerAudio(version, offer, port) ==
    LET blocks == FirstOf(offer, "audio")
    IN  IF blocks = << >> THEN NotAnswered("mismatch")
        ELSE AnswerBlock(version, offer, Head(blocks), ChooseCodec(Head(blocks), Supported), port)

(* The video block: the codec of its own, the identity and credentials of the audio one. *)
VideoAnswer(v, codec, audio, port) ==
    IF v.port = 0 \/ port = 0 \/ codec = << >> THEN RejectedStream(v)
    ELSE EchoMediaAttributes(v,
            [NewMedia("video", port, v.protocol) EXCEPT
                !.formats = <<codec[1].pt>>, !.rtpmap = codec,
                !.direction = ReverseDirection(v.direction),
                !.fingerprint = audio.fingerprint, !.setup = audio.setup,
                !.ufrag = audio.ufrag, !.pwd = audio.pwd, !.options = audio.options,
                !.candidates = IF audio.candidates # << >> THEN <<HostCandidate(port)>> ELSE << >>,
                !.ended = audio.candidates # << >>], <<codec[1].pt>>)

(* answer_with_video; videoPort is 0 when the caller has no port for video *)
WithVideo(version, offer, a, v, videoPort) ==
    IF a.kind # "answer" \/ v = << >> THEN a
    ELSE AnswerOf(version, offer,
                  a.sdp.media \o <<VideoAnswer(Head(v), ChooseCodec(Head(v), SupportedVideo),
                                               Head(a.sdp.media), videoPort)>>, a.keys)
AnswerWithVideo(version, offer, port, videoPort) ==
    WithVideo(version, offer, AnswerAudio(version, offer, port), FirstOf(offer, "video"), videoPort)

Endpoint(sdp, kind) ==
    LET b == FirstOf(sdp, kind)
        conn == IF b[1].connection # Absent THEN b[1].connection ELSE sdp.connection
    IN  IF b # << >> /\ b[1].port # 0 /\ conn # Absent THEN <<[ip |-> conn, port |-> b[1].port]>> ELSE << >>

CodecOf(sdp, kind) ==
    LET b == FirstOf(sdp, kind)
    IN  IF b # << >> /\ b[1].port # 0 /\ b[1].rtpmap # << >> THEN b[1].rtpmap[1].codec ELSE Absent

(* accepted_outcome: endpoints from the offer, codecs and rtcp-mux from the answer. *)
AcceptedOutcome(offer, a) ==
    IF a.kind # "answer" THEN a
    ELSE [kind |-> "accepted", body |-> Render(a.sdp), sdp |-> a.sdp,
          remote |-> Endpoint(offer, "audio"),
          rtcp |-> IF Endpoint(offer, "audio") # << >> THEN RtcpPort(Head(FirstOf(offer, "audio"))) ELSE 0,
          mux |-> FirstOf(a.sdp, "audio")[1].mux,
          video |-> Endpoint(offer, "video"),
          keys |-> a.keys,
          codec |-> CodecOf(a.sdp, "audio"), videoCodec |-> CodecOf(a.sdp, "video")]

(* negotiate *)
OutcomeFor(version, offer, port, videoPort) ==
    IF offer.ok THEN AcceptedOutcome(offer, AnswerWithVideo(version, offer, port, videoPort))
    ELSE NotAnswered("malformed")
Outcome(version, body, port, videoPort) == OutcomeFor(version, Parse(body), port, videoPort)

-----------------------------------------------------------------------------
Bodies == UNION {{s \o a \o v, s \o v \o a} : s \in SessionParts, a \in AudioParts, v \in VideoParts}

SdpInit ==
    /\ wallClock = 0
    /\ originVersion = 0
    /\ stamped = [c \in Callers |-> NotStamped]
    /\ issued = << >>
    /\ cert = FALSE
    /\ iceOn = FALSE
    /\ offered = [body |-> << >>, videoPort |-> 0]
    /\ outcome = NotAnswered("none")

(* The negotiator is built (with_dtls_cert, with_ice_enabled), and an offer arrives. *)
Offered(withCert, withIce, body, videoPort) ==
    /\ offered.body = << >>
    /\ cert' = withCert
    /\ iceOn' = withIce
    /\ offered' = [body |-> body, videoPort |-> videoPort]
    /\ UNCHANGED <<wallClock, originVersion, stamped, issued, outcome>>

SetClock(t) ==
    /\ wallClock' = t
    /\ UNCHANGED <<originVersion, stamped, issued, cert, iceOn, offered, outcome>>

(* next_origin_version reads the clock first and then updates the counter atomically. *)
ReadClock(c) ==
    /\ stamped[c] = NotStamped
    /\ stamped' = [stamped EXCEPT ![c] = wallClock]
    /\ UNCHANGED <<wallClock, originVersion, issued, cert, iceOn, offered, outcome>>

NextVersion(c) == IF originVersion + 1 > stamped[c] THEN originVersion + 1 ELSE stamped[c]

(* Only an answer draws a version. *)
Concludes(c, out, drawn) ==
    /\ drawn => stamped[c] # NotStamped /\ NextVersion(c) <= MaxVersion
    /\ originVersion' = IF drawn THEN NextVersion(c) ELSE originVersion
    /\ issued' = IF drawn THEN Append(issued, NextVersion(c)) ELSE issued
    /\ stamped' = [stamped EXCEPT ![c] = IF drawn THEN NotStamped ELSE @]
    /\ outcome' = out
    /\ UNCHANGED <<wallClock, cert, iceOn, offered>>

Negotiate(c) ==
    /\ offered.body # << >>
    /\ \E out \in {Outcome(NextVersion(c), offered.body, 10, offered.videoPort)} :
          Concludes(c, out, out.kind = "accepted")

(* build_offer: the engine's own offer lists every supported codec on plain RTP; the *)
(* callee that answers it is another engine.                                         *)
BuildOffer(c) ==
    LET audio == [NewMedia("audio", 10, "RTP/AVP") EXCEPT
                    !.formats = [i \in DOMAIN Supported |-> Supported[i].pt], !.rtpmap = Supported]
        offer == AnswerOf(NextVersion(c), [groups |-> << >>], <<audio>>, NoKeys)
    IN  /\ offered.body = << >>
        /\ stamped[c] # NotStamped /\ NextVersion(c) <= MaxVersion
        /\ originVersion' = NextVersion(c)
        /\ issued' = Append(issued, NextVersion(c))
        /\ stamped' = [stamped EXCEPT ![c] = NotStamped]
        /\ offered' = [body |-> Render(offer.sdp), videoPort |-> 0]
        /\ outcome' = NotAnswered("none")
        /\ UNCHANGED <<wallClock, cert, iceOn>>

SdpNext ==
    \/ \E withCert, withIce \in BOOLEAN, body \in Bodies, videoPort \in {0, 12} :
          Offered(withCert, withIce, body, videoPort)
    \/ \E t \in 0 .. MaxClock : SetClock(t)
    \/ \E c \in Callers :
          \/ ReadClock(c)
          \/ BuildOffer(c)
          \/ Negotiate(c)

SdpSpec == SdpInit /\ [][SdpNext]_sdpVars
-----------------------------------------------------------------------------
(* Every answer and every offer of the process carries an o= version above all those   *)
(* drawn before it, with answers drawn concurrently and a wall clock that is set back. *)
VersionsIncrease == \A i, j \in DOMAIN issued : i < j => issued[i] < issued[j]

Usable(b, pt) == \E r \in Range(b.rtpmap), k \in Range(Supported) :
                    r.pt = pt /\ r.codec = k.codec /\ r.clock = k.clock

AudioAgrees(out, far, ours, theirs) ==
    /\ CodecOf(far, "audio") = out.codec /\ Offers(ours, theirs.formats[1])
    /\ \A i, j \in DOMAIN ours.formats :
          j < i /\ ours.formats[i] = theirs.formats[1] => ~Usable(ours, ours.formats[j])
    /\ theirs.direction = ReverseDirection(ours.direction)
    /\ out.keys.dtls # << >> <=> IsDtls(ours.protocol)
    /\ out.keys.dtls # << >> =>
          out.keys.dtls[1].role = (IF theirs.setup = "active" THEN "client" ELSE "server")
    /\ out.keys.srtp # << >> <=> ours.protocol = "RTP/SAVP"
    /\ out.keys.srtp # << >> =>
          \E k \in DOMAIN ours.crypto : /\ theirs.crypto[1].tag = ours.crypto[k].tag
                                        /\ out.keys.srtp[1].peerTx = ours.crypto[k].key
                                        /\ out.keys.srtp[1].localTx = theirs.crypto[1].key
    /\ theirs.mux => ours.mux

Kinds(sdp) == [i \in DOMAIN sdp.media |-> sdp.media[i].kind]

SdpAgrees(out, offer, far, ours, theirs, grouped) ==
    /\ far = out.sdp
    /\ Kinds(offer) \in {<<"audio">>, <<"audio", "video">>} => Kinds(far) = Kinds(offer)
    /\ theirs.port = 0 <=> ours.port = 0
    /\ theirs.port # 0 => AudioAgrees(out, far, ours, theirs)
    /\ out.videoCodec # Absent => Offers(Head(FirstOf(offer, "video")), far.media[2].formats[1])
    /\ Cardinality({b.port : b \in {x \in Range(far.media) : x.mid \in grouped}}) <= 1
    /\ \A b \in Range(far.media) : b.mid \in grouped => b.port # 0

(* What the far end reads from the rendered answer is what the engine acts on: it     *)
(* parses, it is the answer that was meant, both ends use the same codec, opposite    *)
(* DTLS roles, the same SRTP keys under a tag that was offered and opposite           *)
(* directions; an offer under RTP/SAVP or DTLS is never answered without keys, and a  *)
(* BUNDLE group names only accepted blocks on one port.  The answer lists its blocks  *)
(* in the order of the offer when that is audio, or audio and video; it answers the   *)
(* first of each kind and no other, and under RTP/SAVPF without keys.                 *)
BothEndsAgree ==
    outcome.kind = "accepted" =>
        \A offer \in {Parse(offered.body)}, far \in {Parse(outcome.body)} :
            SdpAgrees(outcome, offer, far, Head(FirstOf(offer, "audio")),
                      Head(FirstOf(far, "audio")), BundleMids(far))

(* On every answer the engine sends the two ends agree on codecs, roles,   *)
(* keys and directions of the blocks it answers, and it is newer than the  *)
(* ones before it (negotiate.rs: next_origin_version, Negotiator::answer,  *)
(* answer_with_video).                                                     *)
AnswersSound == VersionsIncrease /\ BothEndsAgree
=============================================================================
