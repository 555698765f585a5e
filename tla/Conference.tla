----------------------------- MODULE Conference -----------------------------
(***************************************************************************)
(* The N-party conference mixer (smiths-mixer) with everybody who puts a   *)
(* participant into it: SIP calls that dial a conference room (the         *)
(* orchestrator and its participant sessions) and the control plane's      *)
(* conference tools (smiths-mcp/src/tools/conference.rs).                  *)
(*                                                                         *)
(* A conference is a record of `confs`, its id its place in the sequence;  *)
(* the registry holds the ids of the live ones.  A frame is one amplitude  *)
(* of 0..Loudest, as a frame is mixed sample by sample; AGC and VAD change *)
(* loudness and the speaker label only and are left out.                   *)
(***************************************************************************)
EXTENDS JitterBuffer, SequencesExt, FiniteSetsExt

CONSTANTS
    Calls,            \* SIP calls
    Rooms,            \* conference room names
    Loudest,          \* i16::MAX
    EgressCapacity,   \* mpsc::channel(32)
    MaxSendFailures,  \* MAX_SEND_FAILURES
    MaxConfs,         \* bound: conferences created
    MaxJoins,         \* bound: participants of one conference over its life
    MaxSeq            \* bound: sequence numbers a participant sends

ASSUME ConferenceAssumption ==
    {Loudest, EgressCapacity, MaxSendFailures, MaxConfs, MaxJoins} \subseteq Nat \ {0}

VARIABLES
    confs,       \* every Conference ever spawned
    registered,  \* InMemoryConferenceRegistry.conferences
    room_map,    \* MixerConferenceOrchestrator.room_map
    call,        \* each call: whether it lives, and its media session
    joining,     \* a join_conference tool call past its leg lookup
    egress       \* the egress tasks join_conference spawned

confVars == <<confs, registered, room_map, call, joining, egress>>

NoConf == 0
NoCall == "no call"
Idle == [pc |-> "idle"]

Participant == [jitter |-> NewBuffer, queue |-> 0]
NewConference ==
    [participants |-> [p \in {} |-> 0], next |-> 0, ticking |-> TRUE,
     mix |-> [p \in {} |-> 0]]

ConferenceInit ==
    /\ confs = <<>> /\ registered = {}
    /\ room_map = [r \in Rooms |-> NoConf]
    /\ call = [k \in Calls |-> [live |-> TRUE, session |-> Idle]]
    /\ joining = Idle
    /\ egress = {}

Roster(c) == DOMAIN confs[c].participants

(***************************************************************************)
(* Conference and registry operations.                                     *)
(***************************************************************************)
(* Conference::spawn starts the tick task; the registry files the handle. *)
Create(id) ==
    /\ id = Len(confs) + 1 /\ id <= MaxConfs
    /\ confs' = Append(confs, NewConference)
    /\ registered' = registered \cup {id}

(* The conference after one more participant, numbered `conf.next`. *)
Joined(conf) ==
    [conf EXCEPT !.next = @ + 1,
        !.participants = [p \in DOMAIN @ \cup {conf.next} |->
                            IF p = conf.next THEN Participant ELSE @[p]]]

Left(conf, p) ==
    [conf EXCEPT !.participants = [q \in DOMAIN @ \ {p} |-> @[q]]]

CanJoin(c) == confs[c].next < MaxJoins   \* bound

(* push_inner: a frame of the right size from a participant of the room. *)
Pushed(conf, p, seq) ==
    IF p \notin DOMAIN conf.participants THEN conf
    ELSE [conf EXCEPT !.participants[p].jitter = Insert(@, seq, Loudest)]

Clip(x) == IF x > Loudest THEN Loudest ELSE x

Amplitude(out) == IF out.kind = "played" THEN out.pcm ELSE 0

Total(inputs) == FoldSet(LAMBDA p, acc : acc + inputs[p], 0, DOMAIN inputs)

LeaveOneOutMut(inputs, p) == Clip(Total(inputs)) - inputs[p]

(* Mixer: one wide sum of every input, minus one's own, clipped last. *)
LeaveOneOut(inputs, p) == Clip(Total(inputs) - inputs[p])

(* tick_once: one frame out of every jitter buffer, one mixed frame into   *)
(* every egress queue that has room.                                       *)
Tick(c) ==
    LET conf == confs[c]
        step == [p \in Roster(c) |-> Advance(conf.participants[p].jitter)]
        inputs == [p \in Roster(c) |-> Amplitude(step[p].out)]
    IN  /\ conf.ticking
        /\ Roster(c) # {}
        /\ confs' = [confs EXCEPT
             ![c].participants = [p \in Roster(c) |->
                [jitter |-> step[p].jitter,
                 queue |-> IF conf.participants[p].queue < EgressCapacity
                           THEN conf.participants[p].queue + 1
                           ELSE EgressCapacity]],
             ![c].mix = [p \in Roster(c) |->
                [said |-> inputs[p], heard |-> LeaveOneOut(inputs, p)]]]
        /\ UNCHANGED <<registered, room_map, call, joining, egress>>

(* registry.shutdown: the handle leaves the registry and the tick task is *)
(* cancelled and awaited; the roster stays.                               *)
ShutdownConference(c) ==
    /\ c \in registered
    /\ registered' = registered \ {c}
    /\ confs' = [confs EXCEPT ![c].ticking = FALSE]
    /\ UNCHANGED <<room_map, call, joining, egress>>

-----------------------------------------------------------------------------
(***************************************************************************)
(* A SIP call dials a room: resolve or create the conference under the     *)
(* room-map lock, fetch its handle, join on the handle, spawn the session. *)
(***************************************************************************)
Session(k) == call[k].session
SetSession(k, s) == call' = [call EXCEPT ![k].session = s]

DialRoom(k, r) ==
    /\ call[k].live /\ Session(k) = Idle
    /\ \/ /\ room_map[r] # NoConf
          /\ SetSession(k, [pc |-> "resolved", conf |-> room_map[r]])
          /\ UNCHANGED <<confs, registered, room_map>>
       \/ \E id \in 1..MaxConfs :
          /\ room_map[r] = NoConf
          /\ Create(id)
          /\ room_map' = [room_map EXCEPT ![r] = id]
          /\ SetSession(k, [pc |-> "resolved", conf |-> id])
    /\ UNCHANGED <<joining, egress>>

(* get_conference: a conference shut down meanwhile is declined, and the   *)
(* caller falls back to the two-party rendezvous.                          *)
FetchHandle(k) ==
    /\ Session(k).pc = "resolved"
    /\ SetSession(k, IF Session(k).conf \in registered
                     THEN [Session(k) EXCEPT !.pc = "fetched"]
                     ELSE [pc |-> "declined"])
    /\ UNCHANGED <<confs, registered, room_map, joining, egress>>

JoinRoom(k) ==
    LET c == Session(k).conf
    IN  /\ Session(k).pc = "fetched" /\ CanJoin(c)
        /\ confs' = [confs EXCEPT ![c] = Joined(@)]
        /\ SetSession(k, [pc |-> "running", conf |-> c,
                          participant |-> confs[c].next])
        /\ UNCHANGED <<registered, room_map, joining, egress>>

(* spawn_ingress: a PCMU packet of the frame size, in any order. *)
Ingress(k, seq) ==
    /\ Session(k).pc = "running"
    /\ confs' = [confs EXCEPT ![Session(k).conf] =
                   Pushed(@, Session(k).participant, seq)]
    /\ UNCHANGED <<registered, room_map, call, joining, egress>>

QueueOf(c, p) == IF p \in Roster(c) THEN confs[c].participants[p].queue ELSE 0
Drained(conf, p) ==
    IF p \notin DOMAIN conf.participants THEN conf
    ELSE [conf EXCEPT !.participants[p].queue = IF @ = 0 THEN 0 ELSE @ - 1]

(* spawn_egress of the session: one mixed frame becomes one RTP packet. *)
SessionEgress(k) ==
    /\ Session(k).pc = "running"
    /\ QueueOf(Session(k).conf, Session(k).participant) > 0
    /\ confs' = [confs EXCEPT ![Session(k).conf] =
                   Drained(@, Session(k).participant)]
    /\ UNCHANGED <<registered, room_map, call, joining, egress>>

(* The dialog ends; its teardown stops the media session it filed. *)
HangUp(k) ==
    /\ call[k].live
    /\ Session(k).pc \in {"idle", "running", "declined"}
    /\ call' = [call EXCEPT ![k].live = FALSE,
                            ![k].session = IF @.pc = "running"
                                           THEN [@ EXCEPT !.pc = "stopping"] ELSE @]
    /\ UNCHANGED <<confs, registered, room_map, joining, egress>>

(* MediaSession::stop: both tasks have ended; the participant leaves the   *)
(* conference itself, registered or not.                                   *)
SessionStops(k) ==
    /\ Session(k).pc = "stopping"
    /\ confs' = [confs EXCEPT ![Session(k).conf] = Left(@, Session(k).participant)]
    /\ SetSession(k, [pc |-> "stopped"])
    /\ UNCHANGED <<registered, room_map, joining, egress>>

-----------------------------------------------------------------------------
(***************************************************************************)
(* The conference tools.                                                   *)
(***************************************************************************)
CreateTool ==
    /\ \E id \in 1..MaxConfs : Create(id)
    /\ UNCHANGED <<room_map, call, joining, egress>>

(* join_conference looks the call's media leg up first, so that a bad call *)
(* id leaves no participant behind.                                        *)
JoinToolLooksUp(c, k) ==
    /\ joining = Idle
    /\ k = NoCall \/ (k \in Calls /\ call[k].live)
    /\ joining' = [pc |-> "looked up", conf |-> c, call |-> k]
    /\ UNCHANGED <<confs, registered, room_map, call, egress>>

JoinToolJoins ==
    /\ joining.pc = "looked up"
    /\ \/ /\ joining.conf \notin registered        \* NotFound
          /\ UNCHANGED <<confs, egress>>
       \/ /\ joining.conf \in registered /\ CanJoin(joining.conf)
          /\ confs' = [confs EXCEPT ![joining.conf] = Joined(@)]
          /\ egress' = egress \cup
               {[conf |-> joining.conf, participant |-> confs[joining.conf].next,
                 call |-> joining.call, failures |-> 0]}
    /\ joining' = Idle
    /\ UNCHANGED <<registered, room_map, call>>

(* registry.leave finds registered conferences only. *)
RegistryLeave(c, p) ==
    confs' = IF c \in registered THEN [confs EXCEPT ![c] = Left(@, p)] ELSE confs

LeaveTool(c, p) ==
    /\ c \in registered /\ p \in Roster(c)
    /\ RegistryLeave(c, p)
    /\ UNCHANGED <<registered, room_map, call, joining, egress>>

(* A frame was queued and the call is still live: it is sent, or fails. *)
EgressSends(t) ==
    /\ t \in egress /\ t.call # NoCall
    /\ QueueOf(t.conf, t.participant) > 0 /\ call[t.call].live
    /\ \/ /\ egress' = (egress \ {t}) \cup {[t EXCEPT !.failures = 0]}
          /\ confs' = [confs EXCEPT ![t.conf] = Drained(@, t.participant)]
       \/ /\ t.failures + 1 < MaxSendFailures
          /\ egress' = (egress \ {t}) \cup {[t EXCEPT !.failures = @ + 1]}
          /\ confs' = [confs EXCEPT ![t.conf] = Drained(@, t.participant)]
       \/ /\ t.failures + 1 = MaxSendFailures
          /\ egress' = egress \ {t}
          /\ RegistryLeave(t.conf, t.participant)
    /\ UNCHANGED <<registered, room_map, call, joining>>

(* The next mixed frame finds the call ended: the task detaches. *)
EgressDetaches(t) ==
    /\ t \in egress /\ t.call # NoCall
    /\ QueueOf(t.conf, t.participant) > 0 /\ ~call[t.call].live
    /\ egress' = egress \ {t}
    /\ RegistryLeave(t.conf, t.participant)
    /\ UNCHANGED <<registered, room_map, call, joining>>

(* The participant left: its channel is closed and the task exits. *)
EgressCloses(t) ==
    /\ t \in egress
    /\ t.participant \notin Roster(t.conf)
    /\ egress' = egress \ {t}
    /\ UNCHANGED <<confs, registered, room_map, call, joining>>

-----------------------------------------------------------------------------
ConferenceNext ==
    \/ \E k \in Calls, r \in Rooms : DialRoom(k, r)
    \/ \E k \in Calls :
         \/ FetchHandle(k) \/ JoinRoom(k) \/ SessionEgress(k)
         \/ HangUp(k) \/ SessionStops(k)
    \/ \E k \in Calls, seq \in 0..MaxSeq : Ingress(k, seq)
    \/ CreateTool
    \/ \E c \in DOMAIN confs, k \in Calls \cup {NoCall} : JoinToolLooksUp(c, k)
    \/ JoinToolJoins
    \/ \E c \in DOMAIN confs : Tick(c) \/ ShutdownConference(c)
    \/ \E c \in DOMAIN confs : \E p \in Roster(c) : LeaveTool(c, p)
    \/ \E t \in egress : EgressSends(t) \/ EgressDetaches(t) \/ EgressCloses(t)

ConferenceSpec == ConferenceInit /\ [][ConferenceNext]_confVars

-----------------------------------------------------------------------------
(* What each participant heard at the last tick of his conference is what  *)
(* the others said at it, clipped to the sample range, and nothing of his  *)
(* own: subtracting one's own input from the sum must undo exactly what    *)
(* was added, also when the sum of the room is beyond the sample range     *)
(* (Mixer::add_input / leave_one_out, tick_once).                          *)
HearsTheOthers ==
    \A c \in DOMAIN confs : \A p \in DOMAIN confs[c].mix :
       LET mix == confs[c].mix
       IN  mix[p].heard =
             Clip(FoldSet(LAMBDA q, acc : acc + mix[q].said, 0, DOMAIN mix \ {p}))

(* Nobody stays in a live conference after his call: every participant of  *)
(* a registered conference belongs to a running or stopping session, to an *)
(* egress task of join_conference, or joined without a call                *)
(* (ConferenceParticipantSession::stop, spawn_egress, shutdown, leave).    *)
ParticipantsOwned ==
    \A c \in registered : \A p \in Roster(c) :
       \/ \E k \in Calls : /\ Session(k).pc \in {"running", "stopping"}
                           /\ Session(k).conf = c /\ Session(k).participant = p
       \/ \E t \in egress : t.conf = c /\ t.participant = p

(* A conference gives each participant the mix of the others and keeps     *)
(* no participant whose session is over, whichever of the ways to leave    *)
(* came first (mixer.rs, participant.rs).                                  *)
RoomsSound == HearsTheOthers /\ ParticipantsOwned
=============================================================================
