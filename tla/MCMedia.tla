------------------------------ MODULE MCMedia ------------------------------
(***************************************************************************)
(* The media plane: the jitter buffer of one stream, the conference mixer, *)
(* the RTP bridge of two legs, and the fabric that owns ports, sessions    *)
(* and budget.  They share no state, so a behaviour exercises one of them  *)
(* (`mediaFocus`, chosen once) and leaves the others where they started.   *)
(***************************************************************************)
EXTENDS Conference, RtpBridge, MediaFabric

VARIABLE mediaFocus

\* one peer's packets: two keypresses, the end of an event that is no digit, and audio with a tone
Event(code, p, e) == [kind |-> "event", event |-> code, press |-> p, end |-> e]
AudioPacket(t) == [kind |-> "audio", tone |-> t]
MCScript ==
    <<Event(1, 1, FALSE), Event(1, 1, TRUE), Event(1, 2, TRUE), Event(32, 3, TRUE),
      AudioPacket(5), AudioPacket(0)>>

MediaInit ==
    /\ StreamInit /\ ConferenceInit /\ RtpBridgeInit /\ FabricInit
    /\ mediaFocus \in {"stream", "conference", "bridge", "fabric"}

MediaNext ==
    /\ UNCHANGED mediaFocus
    /\ \/ /\ mediaFocus = "stream" /\ StreamNext
          /\ UNCHANGED <<confVars, bridgeVars, fabricVars>>
       \/ /\ mediaFocus = "conference" /\ ConferenceNext
          /\ UNCHANGED <<streamVars, bridgeVars, fabricVars>>
       \/ /\ mediaFocus = "bridge" /\ RtpBridgeNext
          /\ UNCHANGED <<streamVars, confVars, fabricVars>>
       \/ /\ mediaFocus = "fabric" /\ FabricNext
          /\ UNCHANGED <<streamVars, confVars, bridgeVars>>

MediaSpec ==
    MediaInit /\ [][MediaNext]_<<mediaFocus, streamVars, confVars, bridgeVars, fabricVars>>
=============================================================================
