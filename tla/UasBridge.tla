----------------------------- MODULE UasBridge -----------------------------
(***************************************************************************)
(* The media attachment of several calls in UasServer                      *)
(* (crates/smiths-sip/src/uas.rs): the rendezvous of two legs under one    *)
(* Request-URI, the transcoded session for a codec mismatch, conference    *)
(* rooms, the rebuild of a bridge on re-INVITE, and teardown of a call and *)
(* of the leg bridged to it.                                               *)
(*                                                                         *)
(* Each call has its own worker, so the shared maps (pending_bridges,      *)
(* bridges_by_dialog, dialog_sessions, dialogs) and the media fabric are   *)
(* touched by several workers at once; in particular a worker may tear     *)
(* down the dialog of another call while that call's own worker is in the  *)
(* middle of a handler.  A handler is split at its awaits and wherever     *)
(* another worker may get between two of its map operations.               *)
(*                                                                         *)
(* A call is one INVITE to the one room of the model; what leads to its    *)
(* media attachment is in UasDialog.  The WebRTC rendezvous is left out.   *)
(***************************************************************************)
EXTENDS Naturals, FiniteSets

CONSTANTS
    Calls,        \* the calls, one dialog and one worker each
    Codecs,       \* audio codecs a call may negotiate
    BridgeFails,  \* whether MediaFabric::bridge or the orchestrator may fail by itself
    Conference,   \* whether the room has the conference prefix
    MaxRefresh,   \* re-INVITEs that move the peer's media (bound)
    NoCall        \* no call

ASSUME CallsAssumption == IsFiniteSet(Calls) /\ NoCall \notin Calls
ASSUME FlagsAssumption == BridgeFails \in BOOLEAN /\ Conference \in BOOLEAN
ASSUME BoundAssumption == MaxRefresh \in Nat

Media == Nat \ {0}      \* bridges and sessions, in order of creation

VARIABLES
    job,       \* [Calls -> what the call's worker is doing]
    dlg,       \* dialogs: [Calls -> "none", "up", "ended"]
    codec,     \* [Calls -> negotiated audio codec]
    ep,        \* the calls whose media endpoint is allocated
    pending,   \* pending_bridges: the leg parked in the room, or NoCall
    bmap,      \* bridges_by_dialog: [Calls -> bridge, or 0]
    fabric,    \* bridges alive in the media fabric
    smap,      \* dialog_sessions: [Calls -> session, or 0]
    running,   \* sessions alive
    leg,       \* leg_media: the calls with an entry
    armed,     \* the calls with a 2xx loop or a timer armed
    cdr,       \* [Calls -> cdr_pending: "none", "pending", "row" once written]
    byes,      \* [Calls -> BYEs the engine sent]
    ends,      \* [Calls -> teardowns]
    made,      \* bridges and sessions created so far
    refreshes, \* re-INVITEs so far, against MaxRefresh
    crossed    \* whether both legs of a bridge were refreshed at once

mediaVars == <<bmap, fabric, smap, running, made>>
dlgVars == <<dlg, leg, armed, cdr, byes, ends>>
reinviteVars == <<refreshes, crossed>>
vars == <<job, dlg, codec, ep, pending, bmap, fabric, smap, running, leg, armed, cdr, byes,
          ends, made, refreshes, crossed>>

\* who: the call being torn down or bridged with; bid: the bridge in hand;
\* peer: the other leg of a released bridge; bye: the engine sends a BYE
Job(pc, who, bid) ==
    [pc |-> pc, who |-> who, bid |-> bid, peer |-> NoCall, bye |-> FALSE]
AtPc(w, pc) == job[w].pc = pc
Rest == {"new", "idle", "rejected"}

Pcs == Rest \cup {"attach", "pair", "mapPeer", "mapOwn", "repark", "insert", "arm", "unmap",
                  "release", "peer", "apply", "unbridge", "rebridge", "remapOwn", "remapPeer",
                  "commit"}
Jobs == [pc : Pcs, who : Calls \cup {NoCall}, bid : Nat, peer : Calls \cup {NoCall},
         bye : BOOLEAN]

TypeOK ==
    /\ job \in [Calls -> Jobs]
    /\ dlg \in [Calls -> {"none", "up", "ended"}]
    /\ codec \in [Calls -> Codecs]
    /\ ep \subseteq Calls
    /\ pending \in Calls \cup {NoCall}
    /\ bmap \in [Calls -> Nat]
    /\ fabric \subseteq Media
    /\ smap \in [Calls -> Nat]
    /\ running \subseteq Media
    /\ leg \subseteq Calls
    /\ armed \subseteq Calls
    /\ cdr \in [Calls -> {"none", "pending", "row"}]
    /\ byes \in [Calls -> Nat]
    /\ ends \in [Calls -> Nat]
    /\ made \in Nat
    /\ refreshes \in 0 .. MaxRefresh
    /\ crossed \in BOOLEAN

Init ==
    /\ job = [c \in Calls |-> Job("new", NoCall, 0)]
    /\ dlg = [c \in Calls |-> "none"]
    /\ codec \in [Calls -> Codecs]
    /\ ep = {}
    /\ pending = NoCall
    /\ bmap = [c \in Calls |-> 0]
    /\ fabric = {}
    /\ smap = [c \in Calls |-> 0]
    /\ running = {}
    /\ leg = {}
    /\ armed = {}
    /\ cdr = [c \in Calls |-> "none"]
    /\ byes = [c \in Calls |-> 0]
    /\ ends = [c \in Calls |-> 0]
    /\ made = 0
    /\ refreshes = 0
    /\ crossed = FALSE

Goto(w, j) == job' = [job EXCEPT ![w] = j]

-----------------------------------------------------------------------------
(* handle_invite up to attach_media: the endpoint is allocated. *)
InviteNegotiated(w) ==
    /\ AtPc(w, "new")
    /\ ep' = ep \cup {w}
    /\ Goto(w, Job("attach", NoCall, 0))
    /\ UNCHANGED <<codec, pending, mediaVars, dlgVars, reinviteVars>>

(* The orchestrator admits the caller to the conference room. *)
JoinConference(w) ==
    /\ Conference
    /\ AtPc(w, "attach")
    /\ made' = made + 1
    /\ running' = running \cup {made'}
    /\ smap' = [smap EXCEPT ![w] = made']
    /\ Goto(w, Job("insert", NoCall, 0))
    /\ UNCHANGED <<codec, ep, pending, bmap, fabric, dlgVars, reinviteVars>>

(* rendezvous_pair: park in a vacant room, or take the parked leg out. *)
ParkLeg(w) ==
    /\ AtPc(w, "attach")
    /\ pending = NoCall
    /\ pending' = w
    /\ Goto(w, Job("insert", NoCall, 0))
    /\ UNCHANGED <<codec, ep, mediaVars, dlgVars, reinviteVars>>

TakePending(w) ==
    /\ AtPc(w, "attach")
    /\ pending # NoCall
    /\ pending' = NoCall
    /\ Goto(w, Job("pair", pending, 0))
    /\ UNCHANGED <<codec, ep, mediaVars, dlgVars, reinviteVars>>

(* MediaFabric::bridge: both endpoints must still be allocated. *)
BridgeUp(a, b) ==
    /\ {a, b} \subseteq ep
    /\ made' = made + 1
    /\ fabric' = fabric \cup {made'}

BridgeLegs(w) ==
    /\ AtPc(w, "pair")
    /\ LET a == job[w].who
       IN  /\ codec[a] = codec[w]
           /\ BridgeUp(a, w)
           /\ Goto(w, Job("mapPeer", a, made'))
    /\ UNCHANGED <<codec, ep, pending, bmap, smap, running, dlgVars, reinviteVars>>

MapPeer(w) ==
    /\ AtPc(w, "mapPeer")
    /\ bmap' = [bmap EXCEPT ![job[w].who] = job[w].bid]
    /\ Goto(w, [job[w] EXCEPT !.pc = "mapOwn"])
    /\ UNCHANGED <<codec, ep, pending, fabric, smap, running, made, dlgVars, reinviteVars>>

MapOwn(w) ==
    /\ AtPc(w, "mapOwn")
    /\ bmap' = [bmap EXCEPT ![w] = job[w].bid]
    /\ Goto(w, Job("insert", NoCall, 0))
    /\ UNCHANGED <<codec, ep, pending, fabric, smap, running, made, dlgVars, reinviteVars>>

(* try_orchestrate_transcoded: one session, installed under both dialogs. *)
TranscodeLegs(w) ==
    /\ AtPc(w, "pair")
    /\ codec[job[w].who] # codec[w]
    /\ made' = made + 1
    /\ running' = running \cup {made'}
    /\ smap' = [smap EXCEPT ![job[w].who] = made', ![w] = made']
    /\ Goto(w, Job("insert", NoCall, 0))
    /\ UNCHANGED <<codec, ep, pending, bmap, fabric, dlgVars, reinviteVars>>

(* No bridge or no session: the leg goes back to the room, the INVITE is   *)
(* rejected and its endpoint released.                                     *)
PairingFails(w) ==
    /\ AtPc(w, "pair")
    /\ BridgeFails \/ (codec[job[w].who] = codec[w] /\ ~({job[w].who, w} \subseteq ep))
    /\ Goto(w, [job[w] EXCEPT !.pc = "repark"])
    /\ UNCHANGED <<codec, ep, pending, mediaVars, dlgVars, reinviteVars>>

(* Mutant: the rejected caller's endpoint stays allocated. *)
ReparkMut(w) ==
    /\ AtPc(w, "repark")
    /\ pending' = job[w].who
    /\ Goto(w, Job("rejected", NoCall, 0))
    /\ UNCHANGED <<codec, ep, mediaVars, dlgVars, reinviteVars>>

Repark(w) ==
    /\ AtPc(w, "repark")
    /\ pending' = job[w].who
    /\ ep' = ep \ {w}
    /\ Goto(w, Job("rejected", NoCall, 0))
    /\ UNCHANGED <<codec, mediaVars, dlgVars, reinviteVars>>

(* establish_dialog: the record first, then the rest. *)
InsertDialog(w) ==
    /\ AtPc(w, "insert")
    /\ dlg' = [dlg EXCEPT ![w] = "up"]
    /\ Goto(w, Job("arm", NoCall, 0))
    /\ UNCHANGED <<codec, ep, pending, mediaVars, leg, armed, cdr, byes, ends, reinviteVars>>

ArmDialog(w) ==
    /\ AtPc(w, "arm")
    /\ leg' = leg \cup {w}
    /\ cdr' = [cdr EXCEPT ![w] = "pending"]
    /\ armed' = armed \cup {w}
    /\ Goto(w, Job("idle", NoCall, 0))
    /\ UNCHANGED <<codec, ep, pending, mediaVars, dlg, byes, ends, reinviteVars>>

-----------------------------------------------------------------------------
(* teardown_dialog of x: whoever removes the record goes on; timers, the   *)
(* 2xx loop, the media view and a parked leg go with it.                   *)
RemoveRecord(x) ==
    /\ dlg' = [dlg EXCEPT ![x] = "ended"]
    /\ ends' = [ends EXCEPT ![x] = @ + 1]
    /\ armed' = armed \ {x}
    /\ leg' = leg \ {x}
    /\ pending' = IF pending = x THEN NoCall ELSE pending

(* teardown_call on a BYE (bye = FALSE) or a timer event of the call. *)
EndsCall(w) ==
    /\ AtPc(w, "idle")
    /\ dlg[w] = "up"
    /\ RemoveRecord(w)
    /\ \E bye \in BOOLEAN : Goto(w, [Job("unmap", w, 0) EXCEPT !.bye = bye])
    /\ UNCHANGED <<codec, ep, mediaVars, cdr, byes, reinviteVars>>

(* The bridge of the dialog is taken out of the map, for both legs. *)
UnmapBridge(w) ==
    /\ AtPc(w, "unmap")
    /\ LET x == job[w].who
           bid == bmap[x]
           others == {c \in Calls \ {x} : bid # 0 /\ bmap[c] = bid}
       IN  \E p \in IF others = {} THEN {NoCall} ELSE others :
               /\ bmap' = [c \in Calls |-> IF c = x \/ c \in others THEN 0 ELSE bmap[c]]
               /\ Goto(w, [job[w] EXCEPT !.pc = "release", !.bid = bid,
                               !.peer = IF x = w THEN p ELSE NoCall])
    /\ UNCHANGED <<codec, ep, pending, fabric, smap, running, made, dlgVars, reinviteVars>>

Written(x) == IF cdr[x] = "pending" THEN "row" ELSE cdr[x]

(* remove_dialog drains the table; every session drained is stopped. *)
StopSessions(x) ==
    /\ smap' = [smap EXCEPT ![x] = 0]
    /\ running' = running \ {smap[x]}

(* The bridge, the sessions and the endpoint are released and the BYE      *)
(* sent.  The other leg of the bridge follows; the CDR rows are written    *)
(* when both are done.                                                     *)
ReleaseMedia(w) ==
    /\ AtPc(w, "release")
    /\ LET x == job[w].who
           p == job[w].peer
       IN  /\ fabric' = fabric \ {job[w].bid}
           /\ StopSessions(x)
           /\ ep' = ep \ {x}
           /\ byes' = IF x # w \/ job[w].bye THEN [byes EXCEPT ![x] = @ + 1] ELSE byes
           /\ IF p # NoCall
              THEN Goto(w, [job[w] EXCEPT !.pc = "peer", !.who = p]) /\ UNCHANGED cdr
              ELSE /\ Goto(w, Job("idle", NoCall, 0))
                   /\ cdr' = [c \in Calls |-> IF c \in {x, w} THEN Written(c) ELSE cdr[c]]
    /\ UNCHANGED <<codec, pending, bmap, made, dlg, leg, armed, ends, reinviteVars>>

EndsPeer(w) ==
    /\ AtPc(w, "peer")
    /\ IF dlg[job[w].who] = "up"
       THEN /\ RemoveRecord(job[w].who)
            /\ Goto(w, [job[w] EXCEPT !.pc = "unmap"])
            /\ UNCHANGED cdr
       ELSE /\ Goto(w, Job("idle", NoCall, 0))
            /\ cdr' = [cdr EXCEPT ![w] = Written(w)]
            /\ UNCHANGED <<dlg, ends, armed, leg, pending>>
    /\ UNCHANGED <<codec, ep, mediaVars, byes, reinviteVars>>

-----------------------------------------------------------------------------
(* handle_reinvite with an offer that moves the peer's media. *)
ReinviteStarts(w) ==
    /\ AtPc(w, "idle")
    /\ dlg[w] = "up"
    /\ refreshes < MaxRefresh
    /\ refreshes' = refreshes + 1
    /\ Goto(w, Job("apply", NoCall, 0))
    /\ UNCHANGED <<codec, ep, pending, mediaVars, dlgVars, crossed>>

(* apply_leg_media: without a bridge the sessions' handles are dropped     *)
(* from the table; without the peer's leg nothing is rebuilt.  The peer's  *)
(* worker may be rebuilding the same bridge.                               *)
Rebuilds(w, p) ==
    job[w].pc \in {"unbridge", "rebridge", "remapOwn", "remapPeer"} /\ job[w].who = p

ApplyLegMedia(w) ==
    /\ AtPc(w, "apply")
    /\ leg' = leg \cup {w}
    /\ LET bid == bmap[w]
           others == {c \in Calls \ {w} : bmap[c] = bid}
       IN  \/ /\ bid = 0
              /\ smap' = [smap EXCEPT ![w] = 0]
              /\ Goto(w, Job("commit", NoCall, 0))
              /\ UNCHANGED crossed
           \/ /\ bid # 0 /\ others \cap leg = {}
              /\ Goto(w, Job("commit", NoCall, 0))
              /\ UNCHANGED <<smap, crossed>>
           \/ \E p \in others \cap leg :
              /\ bid # 0
              /\ Goto(w, Job("unbridge", p, bid))
              /\ crossed' = (crossed \/ Rebuilds(p, w))
              /\ UNCHANGED smap
    /\ UNCHANGED <<codec, ep, pending, bmap, fabric, running, made, dlg, armed, cdr, byes,
                   ends, refreshes>>

ReleasesBridge(w) ==
    /\ AtPc(w, "unbridge")
    /\ fabric' = fabric \ {job[w].bid}
    /\ Goto(w, [job[w] EXCEPT !.pc = "rebridge", !.bid = 0])
    /\ UNCHANGED <<codec, ep, pending, bmap, smap, running, made, dlgVars, reinviteVars>>

RebuildsBridge(w) ==
    /\ AtPc(w, "rebridge")
    /\ BridgeUp(job[w].who, w)
    /\ Goto(w, [job[w] EXCEPT !.pc = "remapOwn", !.bid = made'])
    /\ UNCHANGED <<codec, ep, pending, bmap, smap, running, dlgVars, reinviteVars>>

RebuildFails(w) ==
    /\ AtPc(w, "rebridge")
    /\ BridgeFails \/ ~({job[w].who, w} \subseteq ep)
    /\ bmap' = [bmap EXCEPT ![w] = 0, ![job[w].who] = 0]
    /\ Goto(w, Job("commit", NoCall, 0))
    /\ UNCHANGED <<codec, ep, pending, fabric, smap, running, made, dlgVars, reinviteVars>>

RemapOwn(w) ==
    /\ AtPc(w, "remapOwn")
    /\ bmap' = [bmap EXCEPT ![w] = job[w].bid]
    /\ Goto(w, [job[w] EXCEPT !.pc = "remapPeer"])
    /\ UNCHANGED <<codec, ep, pending, fabric, smap, running, made, dlgVars, reinviteVars>>

RemapPeer(w) ==
    /\ AtPc(w, "remapPeer")
    /\ bmap' = [bmap EXCEPT ![job[w].who] = job[w].bid]
    /\ Goto(w, Job("commit", NoCall, 0))
    /\ UNCHANGED <<codec, ep, pending, fabric, smap, running, made, dlgVars, reinviteVars>>

(* commit_in_dialog_update changes nothing here; the 200 starts a 2xx loop *)
(* and the session timer is re-armed, whether or not the dialog is live.   *)
CommitRefresh(w) ==
    /\ AtPc(w, "commit")
    /\ armed' = armed \cup {w}
    /\ Goto(w, Job("idle", NoCall, 0))
    /\ UNCHANGED <<codec, ep, pending, mediaVars, dlg, leg, cdr, byes, ends, reinviteVars>>

-----------------------------------------------------------------------------
Attach(w) ==
    \/ InviteNegotiated(w)
    \/ JoinConference(w)
    \/ ParkLeg(w)
    \/ TakePending(w)
    \/ BridgeLegs(w)
    \/ MapPeer(w)
    \/ MapOwn(w)
    \/ TranscodeLegs(w)
    \/ PairingFails(w)
    \/ Repark(w)
    \/ InsertDialog(w)
    \/ ArmDialog(w)

Teardown(w) ==
    \/ EndsCall(w)
    \/ UnmapBridge(w)
    \/ ReleaseMedia(w)
    \/ EndsPeer(w)

Refresh(w) ==
    \/ ReinviteStarts(w)
    \/ ApplyLegMedia(w)
    \/ ReleasesBridge(w)
    \/ RebuildsBridge(w)
    \/ RebuildFails(w)
    \/ RemapOwn(w)
    \/ RemapPeer(w)
    \/ CommitRefresh(w)

Next == \E w \in Calls : Attach(w) \/ Teardown(w) \/ Refresh(w)

Spec == Init /\ [][Next]_vars

-----------------------------------------------------------------------------
AtRest == \A c \in Calls : job[c].pc \in Rest
Up == {c \in Calls : dlg[c] = "up"}

(* Once the workers are at rest every bridge alive in the fabric can be    *)
(* reached from a live dialog, whose teardown will release it: pairing,    *)
(* its failures and crossing teardowns leak none.  A re-INVITE may (see    *)
(* apply_leg_media), so the claim is about calls without one.              *)
BridgesOwned == AtRest /\ refreshes = 0 => \A b \in fabric : \E c \in Up : bmap[c] = b

(* Every endpoint allocated belongs to a live dialog, on every path through *)
(* pairing, re-INVITE and teardown.                                        *)
EndpointsOwned == AtRest => ep = Up

(* Every running session is in the table of a live dialog, so that its     *)
(* teardown stops it and the admission lease is released; again without a  *)
(* re-INVITE, which drops the handles.                                     *)
SessionsOwned == AtRest /\ refreshes = 0 => \A s \in running : \E c \in Up : smap[c] = s

(* However the teardowns of two bridged legs cross, each dialog is ended   *)
(* once and the engine sends at most one BYE in it.                        *)
EndedOnce == \A c \in Calls : ends[c] <= 1 /\ byes[c] <= ends[c]

(* Callers racing for the room on different workers find each other: while *)
(* no call has ended, been refused or refreshed, at most one of the        *)
(* established ones has no partner, and it is the one parked               *)
(* (rendezvous_pair: "cannot both park and orphan each other").  A refused *)
(* pairing puts its leg back over whoever parked meanwhile, so nothing is  *)
(* claimed after one.                                                      *)
Partnered(c) == bmap[c] # 0 \/ smap[c] # 0
PairedUp ==
    AtRest /\ refreshes = 0 /\ (\A c \in Calls : ends[c] = 0 /\ ~AtPc(c, "rejected"))
        => \A c \in Up : Partnered(c) \/ pending = c

(* A re-INVITE that moves one leg's media leaves its leg on a live bridge, *)
(* and while no call has ended a bridged leg shares it with one other,     *)
(* unless both legs were being rebuilt at once, each by its own worker     *)
(* (apply_leg_media).                                                      *)
BridgedAlive ==
    AtRest /\ (\A c \in Calls : ends[c] = 0)
        => \A c \in Up : bmap[c] # 0 =>
               /\ bmap[c] \in fabric
               /\ crossed \/ Cardinality({d \in Calls : bmap[d] = bmap[c]}) = 2

(* However pairings, refreshes, failures and teardowns of several calls    *)
(* cross, each dialog is ended once with one BYE at most and an endpoint   *)
(* is allocated exactly for the live dialogs.  Bridges and sessions are    *)
(* owned by a live dialog as long as no call was refreshed; racing callers *)
(* find each other as long as none ended, was refused or refreshed; a      *)
(* refreshed leg is on a live bridge as long as no call ended, and shares  *)
(* it with its partner unless both were refreshed at once (uas.rs:         *)
(* rendezvous_pair, apply_leg_media, finish_teardown).                     *)
BridgesSound ==
    /\ BridgesOwned
    /\ EndpointsOwned
    /\ SessionsOwned
    /\ EndedOnce
    /\ PairedUp
    /\ BridgedAlive
=============================================================================
