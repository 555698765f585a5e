------------------------------- MODULE MCEdge -------------------------------
(***************************************************************************)
(* What stands between the network and a call: SDP negotiation, digest     *)
(* authentication and the registrar, the rate limiters, and the WebRTC     *)
(* gateway.  They share no state, so a behaviour exercises one of them     *)
(* (`edgeFocus`, chosen once) and leaves the others where they started.    *)
(***************************************************************************)
EXTENDS Sdp, Registrar, RateLimits, WebRtc

VARIABLE edgeFocus

MCThresholds == {[rate |-> 1, burst |-> 2], [rate |-> 2, burst |-> 0]}

\* Offers: session parts with and without defaults, well- and malformed audio
\* blocks of every protocol, and video, declined video and fax blocks before or
\* after them.
Codec(pt, name, hz) == [pt |-> pt, codec |-> name, clock |-> hz]
MCSupported == <<Codec(0, "PCMU", 8), Codec(111, "opus", 48)>>
MCSupportedVideo == <<Codec(96, "H264", 90)>>
Soft(name, value) == <<"a", name, FALSE, value>>
Mandatory == <<<<"v">>, <<"o", 1>>, <<"s">>>>
MCSessionParts ==
    {Mandatory \o <<<<"c", "peer">>>> \o extra :
        extra \in {<< >>,
                   <<Attr("group", [semantics |-> "BUNDLE", mids |-> {"a", "v"}]), Attr("ice-lite", TRUE), Attr("fingerprint", "peer-fp"), Attr("setup", "passive")>>,
                   <<Attr("fingerprint", "peer-fp"), Soft("fingerprint", "x"), Attr("direction", "sendonly")>>}}
    \cup {Mandatory, <<<<"v">>, <<"s">>>>}
Audio(port, protocol, attrs) ==
    <<<<"m", "audio", port, protocol, <<101, 102, 0>>>>, Attr("rtpmap", Codec(101, "telephone-event", 8)),
      Attr("rtpmap", Codec(102, "opus", 48)), Attr("rtpmap", Codec(0, "PCMU", 8)), Attr("mid", "a")>> \o attrs
Crypto(tag) == [tag |-> tag, suite |-> "AES", key |-> <<"peer-key", tag>>]
PlainAudio == Audio(20, "RTP/AVP", <<Attr("direction", "sendonly"), Attr("rtcp-mux", TRUE), Attr("ptime", 20)>>)
MCAudioParts ==
    {<< >>,
     PlainAudio,
     Audio(0, "RTP/AVP", << >>),
     Audio(20, "RTP/SAVP", <<Soft("crypto", Crypto(1)), Attr("crypto", Crypto(2)), Attr("crypto", Crypto(3))>>),
     Audio(20, "RTP/SAVP", <<Soft("crypto", Crypto(1)), Attr("rtcp", 25)>>),
     Audio(20, "RTP/SAVPF", <<Attr("crypto", Crypto(1))>>),
     Audio(20, "UDP/TLS/RTP/SAVPF", <<Soft("fingerprint", "x"), Soft("setup", "x")>>),
     Audio(20, "UDP/TLS/RTP/SAVPF", <<Attr("fingerprint", "block-fp"), Attr("setup", "active"),
                                      Attr("ufrag", "u"), Attr("pwd", "p"), Attr("candidate", HostCandidate(20)),
                                      Attr("end-of-candidates", TRUE)>>),
     <<<<"m", "audio", 20, "RTP/AVP", <<0>>>>, <<"c", "media-peer">>>>,
     <<<<"m", "audio", 20, "RTP/AVP", <<9>>>>, Soft("rtpmap", Codec(9, "G722", 8))>>,
     <<<<"m", "audio", 20, "RTP/AVP", <<9>>>>, Attr("rtpmap", Codec(9, "G722", 8)), Attr("options", {"ice-lite"})>>}
MCVideoParts ==
    {<< >>,
     <<<<"m", "video", 22, "UDP/TLS/RTP/SAVPF", <<97, 96>>>>, Attr("rtpmap", Codec(97, "AV1", 90)),
       Attr("rtpmap", Codec(96, "H264", 90)), Attr("mid", "v"), Attr("fmtp", 96), Attr("fmtp", 97), Attr("rtcp-fb", 97),
       Attr("rtcp-fb", AnyFormat), Attr("extmap", "sendonly")>>,
     <<<<"m", "video", 0, "RTP/AVP", <<96>>>>, Attr("mid", "v")>>,
     <<<<"m", "image", 24, "udptl", <<38>>>>, Attr("T38", "T38FaxVersion"), Soft("extmap", "x"),
       Soft("rtcp-fb", 1), Soft("fmtp", 1), Soft("rtcp", 0), Soft("ptime", 0)>>}

\* Negotiation is exercised twice: every offer, answered once by a clock that
\* stands still, and one offer, answered by callers that race and a clock that
\* is set back.
AnsweredOnce == wallClock = 0 /\ Len(issued) <= 1
SameOffer == offered.body \in {<< >>, Mandatory \o <<<<"c", "peer">>>> \o PlainAudio} \/ issued # << >>

EdgeInit ==
    /\ SdpInit /\ RegistrarInit /\ LimitInit /\ WebRtcInit
    /\ edgeFocus \in {"offers", "versions", "registrar", "sipLimit", "toolLimit", "webrtc"}

EdgeNext ==
    /\ UNCHANGED edgeFocus
    /\ \/ /\ edgeFocus = "offers" /\ SdpNext /\ AnsweredOnce'
          /\ UNCHANGED <<registrarVars, limitVars, webRtcVars>>
       \/ /\ edgeFocus = "versions" /\ SdpNext /\ SameOffer'
          /\ UNCHANGED <<registrarVars, limitVars, webRtcVars>>
       \/ /\ edgeFocus = "registrar" /\ RegistrarNext
          /\ UNCHANGED <<sdpVars, limitVars, webRtcVars>>
       \/ /\ edgeFocus = "sipLimit" /\ SipLimitNext
          /\ UNCHANGED <<sdpVars, registrarVars, webRtcVars>>
       \/ /\ edgeFocus = "toolLimit" /\ ToolLimitNext
          /\ UNCHANGED <<sdpVars, registrarVars, webRtcVars>>
       \/ /\ edgeFocus = "webrtc" /\ WebRtcNext
          /\ UNCHANGED <<sdpVars, registrarVars, limitVars>>

EdgeSpec ==
    /\ EdgeInit
    /\ [][EdgeNext]_<<edgeFocus, sdpVars, registrarVars, limitVars, webRtcVars>>
=============================================================================
