---------------------------- MODULE ConfigReload ----------------------------
(***************************************************************************)
(* Configuration and its hot reload: the schema with its defaults and      *)
(* validation (smiths-core config.rs), the diff derived from the field     *)
(* attributes (smiths-config-macros), the ConfigReloader with its canary   *)
(* window (reloader.rs), the error-rate probe (probe.rs), the SIGHUP       *)
(* driver and the read-through adapters (smiths-cli reload_driver.rs) and  *)
(* the put_config tool with its history (smiths-mcp).                      *)
(*                                                                         *)
(* A Config is a record of sections, a section a record of fields; a       *)
(* field's value is abstracted to what validation and the reload tell      *)
(* apart.  A path is <<section, field>>.                                   *)
(***************************************************************************)
EXTENDS Naturals, Sequences, FiniteSets

CONSTANTS
    ConfigFiles,   \* what the operator may write to the file: a set of sets of <<path, value>>
    Edits,         \* what a client may put: a set of <<path, value>>
    EnvOverrides,  \* SMITHS__ variables: a set of <<path, value>>
    Wired,         \* the adapters whose subsystem is enabled
    Refused,       \* values a subsystem refuses although they are valid: a set of <<path, value>>
    Support,       \* BuildSupport: the optional runtimes compiled in
    Putters,       \* concurrent put_config calls
    HistoryLimit,  \* MAX_ENTRIES
    MaxChanges,    \* bound: change ids
    MaxNow         \* bound: seconds

ASSUME ConfigAssumption == {HistoryLimit, MaxChanges, MaxNow} \subseteq Nat /\ HistoryLimit > 0

VARIABLES
    second,      \* the clock
    file,        \* the TOML file: a set of <<path, value>> over the defaults
    live,        \* ConfigReloader.current
    published,   \* the value of the watch channel
    pendingChange, nextChange,
    vetted,      \* history: the last configuration that was confirmed
    timers,      \* auto-rollback tasks: set of [id, deadline]
    probes,      \* ids with a running ErrorRateProbe
    canaryGauge, \* config_canary_active
    lastReload,  \* ReloadThrottle.last_attempt, or Never
    adapters,    \* [Wired -> [unseen, last, target]]
    puts,        \* [Putters -> a call of put_config]
    history,     \* ConfigHistory: the paths put, oldest first
    stopping     \* the shutdown token

configVars == <<second, file, live, published, pendingChange, nextChange, vetted, timers, probes,
                canaryGauge, lastReload, adapters, puts, history, stopping>>

(* wire_read_through_adapters: the field each adapter hands to its subsystem *)
Adapted == {<<"observability", "logLevel">>, <<"sip", "rateLimit">>, <<"media", "transcode">>,
            <<"media", "prompts">>, <<"ai", "keys">>, <<"webrtc", "privacy">>, <<"cluster", "heartbeat">>}

ASSUME WiredAssumption == Wired \subseteq Adapted

-----------------------------------------------------------------------------
(* The schema: each section with its defaults. *)

AiDefault == [keys |-> "unset"]
MediaDefault == [ports |-> "any", inband |-> FALSE, transcode |-> 1, prompts |-> 1]
StorageDefault == [backend |-> "sqlite", vector |-> "memory", recording |-> "fs"]
AuthDefault == [backend |-> "sqlite", endpoint |-> FALSE]
ObservabilityDefault == [logLevel |-> "info", bind |-> "metrics"]
SipDefault == [bind |-> "5060", transports |-> {"udp"}, tlsPaths |-> FALSE, drain |-> 1,
               rateLimit |-> [perSec |-> 0, burst |-> 0], proxy |-> "direct", vpn |-> "off",
               timer |-> [on |-> TRUE, expires |-> 2, minSe |-> 1]]
McpDefault == [bind |-> "stdio", http3 |-> FALSE]
WebTransportDefault == [enabled |-> FALSE]
ReloadDefault == [enabled |-> TRUE, maxFrequency |-> 1]
CanaryDefault == [deadline |-> 1, ceiling |-> 50, probing |-> TRUE]     \* the ceiling in percent
WebRtcDefault == [bind |-> "off", tls |-> FALSE, privacy |-> [mode |-> "off", key |-> FALSE]]
PluginsDefault == [dirs |-> "plugins", sandbox |-> "off"]
A2aDefault == [bind |-> "off"]
ClusterDefault == [mode |-> "standalone", peer |-> FALSE, raftAddr |-> FALSE, heartbeat |-> 5]

ConfigDefault ==
    [ai |-> AiDefault, media |-> MediaDefault, storage |-> StorageDefault, auth |-> AuthDefault,
     observability |-> ObservabilityDefault, sip |-> SipDefault, mcp |-> McpDefault,
     webtransport |-> WebTransportDefault, reload |-> ReloadDefault, canary |-> CanaryDefault,
     webrtc |-> WebRtcDefault, plugins |-> PluginsDefault, a2a |-> A2aDefault,
     cluster |-> ClusterDefault]

Paths == {<<s, f>> : s \in DOMAIN ConfigDefault, f \in UNION {DOMAIN ConfigDefault[t] : t \in DOMAIN ConfigDefault}}
PathsOf(c) == {p \in Paths : p[2] \in DOMAIN c[p[1]]}
At(c, p) == c[p[1]][p[2]]

(* The fields with the attribute #[reloadable]; every other one is #[restart_required]. *)
ReloadablePaths ==
    {<<"ai", "keys">>, <<"media", "transcode">>, <<"media", "prompts">>,
     <<"observability", "logLevel">>, <<"sip", "drain">>, <<"sip", "rateLimit">>,
     <<"reload", "enabled">>, <<"reload", "maxFrequency">>, <<"canary", "deadline">>,
     <<"canary", "ceiling">>, <<"canary", "probing">>, <<"webrtc", "privacy">>,
     <<"cluster", "heartbeat">>}

ApplyReportMut(old, new) ==
    LET changed == {p \in PathsOf(old) : At(old, p) # At(new, p)}
    IN  [reloaded |-> changed \cap ReloadablePaths,
         restart |-> {p \in changed \ ReloadablePaths : p[1] # "cluster"}]

(* diff_into, summed over the nested sections *)
ApplyReport(old, new) ==
    LET changed == {p \in PathsOf(old) : At(old, p) # At(new, p)}
    IN  [reloaded |-> changed \cap ReloadablePaths, restart |-> changed \ ReloadablePaths]

(* Figment layers later values over earlier ones; set_path does so for one field. *)
Overlay(c, values) ==
    [s \in DOMAIN c |-> [f \in DOMAIN c[s] |->
        IF \E v \in values : v[1] = <<s, f>> THEN (CHOOSE v \in values : v[1] = <<s, f>>)[2] ELSE c[s][f]]]

SetPath(c, edit) == Overlay(c, {edit})

(* Config::load: the defaults, the file over them, the environment over both. *)
Load(values) == Overlay(Overlay(ConfigDefault, values), EnvOverrides)

(* toml::to_string_pretty writes every field that has a value *)
Serialized(c) == {<<p, At(c, p)>> : p \in PathsOf(c)}

-----------------------------------------------------------------------------
(* validate_with, section by section *)

SipValid(s) ==
    /\ s.rateLimit.perSec > 0 => s.rateLimit.burst > 0
    /\ "tls" \in s.transports => s.tlsPaths
    /\ "quic" \in s.transports => "sip_quic" \in Support
    /\ s.vpn = "wireguard" => "wireguard" \in Support
    /\ s.timer.on => s.timer.minSe > 0 /\ s.timer.expires > 0 /\ s.timer.expires >= s.timer.minSe

ClusterValid(c) ==
    /\ c.mode \in {"primary", "secondary"} => c.peer
    /\ c.mode = "raft" => c.raftAddr

BackendsValid(c) ==
    /\ c.media.ports # "inverted"
    /\ c.auth.backend = "http" => c.auth.endpoint
    /\ c.mcp.http3 => "mcp_http3" \in Support
    /\ c.webtransport.enabled => "webtransport" \in Support
    /\ c.storage.vector = "sidecar" => "vector_sidecar" \in Support
    /\ c.storage.recording = "sidecar" => "recording_sidecar" \in Support

WebRtcValid(w) ==
    /\ w.tls => "webrtc_tls" \in Support
    /\ w.privacy.mode = "strict" => w.privacy.key /\ w.tls

Valid(c) == /\ SipValid(c.sip) /\ ClusterValid(c.cluster) /\ BackendsValid(c)
            /\ WebRtcValid(c.webrtc) /\ c.canary.ceiling \in 0 .. 100

-----------------------------------------------------------------------------
Boot == Load({})

\* main: the engine does not start on a configuration that validate_with refuses.
ASSUME BootAssumption == Valid(Boot)

NoChange == [id |-> 0, prior |-> Boot]
Never == MaxNow + 1
IdlePut == [at |-> "idle", candidate |-> Boot, path |-> << >>, deadline |-> 0, persist |-> FALSE]

ConfigInit ==
    /\ second = 0
    /\ file = {}
    /\ live = Boot
    /\ published = Boot
    /\ pendingChange = NoChange
    /\ nextChange = 1
    /\ vetted = Boot
    /\ timers = {}
    /\ probes = {}
    /\ canaryGauge = 0
    /\ lastReload = Never
    /\ adapters = [a \in Wired |-> [unseen |-> FALSE, last |-> At(Boot, a), target |-> At(Boot, a)]]
    /\ puts = [p \in Putters |-> IdlePut]
    /\ history = << >>
    /\ stopping = FALSE

(* watch::send: receivers see that there is a new value, and on reading only the newest *)
Broadcast(c) ==
    /\ published' = c
    /\ adapters' = [a \in Wired |-> [adapters[a] EXCEPT !.unseen = TRUE]]

Swaps(candidate) == ApplyReport(live, candidate).reloaded # {}
(* apply: refused while another change is pending or when a restart would be needed *)
Accepted(candidate) ==
    /\ Valid(candidate)
    /\ pendingChange = NoChange
    /\ ApplyReport(live, candidate).restart = {}
    /\ nextChange <= MaxChanges

(* An accepted candidate; a no-op still takes an id and leaves nothing pending. *)
Apply(candidate) ==
    /\ Accepted(candidate)
    /\ nextChange' = nextChange + 1
    /\ \/ /\ Swaps(candidate)
          /\ live' = candidate
          /\ pendingChange' = [id |-> nextChange, prior |-> live]
          /\ Broadcast(candidate)
       \/ ~Swaps(candidate) /\ UNCHANGED <<live, pendingChange, published, adapters>>

Confirm(id) ==
    /\ pendingChange.id = id
    /\ pendingChange' = NoChange
    /\ vetted' = live
    /\ UNCHANGED <<second, file, live, published, nextChange, timers, probes, canaryGauge, lastReload,
                   adapters, puts, history, stopping>>

RollBackMut(id) ==
    \/ /\ pendingChange.id = id
       /\ live' = pendingChange.prior
       /\ pendingChange' = NoChange
       /\ UNCHANGED <<published, adapters>>
    \/ /\ pendingChange.id # id
       /\ UNCHANGED <<live, pendingChange, published, adapters>>

(* rollback; an id that is not the pending one changes nothing *)
RollBack(id) ==
    \/ /\ pendingChange.id = id
       /\ live' = pendingChange.prior
       /\ pendingChange' = NoChange
       /\ Broadcast(pendingChange.prior)
    \/ /\ pendingChange.id # id
       /\ UNCHANGED <<live, pendingChange, published, adapters>>

-----------------------------------------------------------------------------
(* The SIGHUP driver. *)

OperatorWrites(values) ==
    /\ file' = values
    /\ UNCHANGED <<second, live, published, pendingChange, nextChange, vetted, timers, probes,
                   canaryGauge, lastReload, adapters, puts, history, stopping>>

Admitted == /\ live.reload.enabled
            /\ lastReload # Never => second - lastReload >= live.reload.maxFrequency

(* spawn_auto_rollback and ErrorRateProbe::spawn, for a change that swapped something *)
ArmWatchdogs(candidate) ==
    /\ timers' = timers \cup {[id |-> nextChange, deadline |-> second + candidate.canary.deadline]}
    /\ probes' = IF candidate.canary.probing THEN probes \cup {nextChange} ELSE probes
    /\ canaryGauge' = 1

(* spawn_sighup_driver and reload_from_file *)
Sighup ==
    LET candidate == Load(file)
    IN  /\ ~stopping /\ Admitted
        /\ lastReload' = second
        /\ \/ /\ Apply(candidate)
              /\ \/ Swaps(candidate) /\ ArmWatchdogs(candidate)
                 \/ ~Swaps(candidate) /\ UNCHANGED <<timers, probes, canaryGauge>>
           \/ /\ ~Accepted(candidate)
              /\ UNCHANGED <<live, published, pendingChange, nextChange, timers, probes, canaryGauge, adapters>>
        /\ UNCHANGED <<second, file, vetted, puts, history, stopping>>

(* The deadline: rolls back if the change is still pending, and ends the probe. *)
TimerFires(t) ==
    /\ ~stopping /\ second >= t.deadline
    /\ RollBack(t.id)
    /\ timers' = timers \ {t}
    /\ probes' = probes \ {t.id}
    /\ canaryGauge' = 0
    /\ UNCHANGED <<second, file, nextChange, vetted, lastReload, puts, history, stopping>>

(* A window of the probe exceeds a ceiling.  The timer goes on, to find nothing to do. *)
ProbeTrips(id) ==
    /\ RollBack(id)
    /\ probes' = probes \ {id}
    /\ canaryGauge' = IF pendingChange.id = id THEN 0 ELSE canaryGauge
    /\ UNCHANGED <<second, file, nextChange, vetted, timers, lastReload, puts, history, stopping>>

-----------------------------------------------------------------------------
(* put_config: the candidate is built from a snapshot, applied later, written last. *)

PutBegins(p, edit, persist) ==
    /\ puts[p].at = "idle"
    /\ puts' = [puts EXCEPT ![p] = [at |-> "built", candidate |-> SetPath(live, edit), path |-> edit[1],
                                    deadline |-> live.canary.deadline, persist |-> persist]]
    /\ UNCHANGED <<second, file, live, published, pendingChange, nextChange, vetted, timers, probes,
                   canaryGauge, lastReload, adapters, history, stopping>>

(* ConfigHistory::record: the ring drops its oldest entry when full, and the new one *)
(* when a reader holds the lock.                                                      *)
Record(path) ==
    \/ history' = Append(IF Len(history) >= HistoryLimit THEN Tail(history) ELSE history, path)
    \/ UNCHANGED history

PutApplies(p) ==
    /\ puts[p].at = "built"
    /\ \/ /\ Apply(puts[p].candidate)
          /\ Record(puts[p].path)
          /\ puts' = [puts EXCEPT ![p] = IF puts[p].persist THEN [puts[p] EXCEPT !.at = "writing"] ELSE IdlePut]
       \/ /\ ~Accepted(puts[p].candidate)
          /\ puts' = [puts EXCEPT ![p] = IdlePut]
          /\ UNCHANGED <<live, published, pendingChange, nextChange, adapters, history>>
    /\ UNCHANGED <<second, file, vetted, timers, probes, canaryGauge, lastReload, stopping>>

PutPersists(p) ==
    /\ puts[p].at = "writing"
    /\ file' = Serialized(puts[p].candidate)
    /\ puts' = [puts EXCEPT ![p] = IdlePut]
    /\ UNCHANGED <<second, live, published, pendingChange, nextChange, vetted, timers, probes, canaryGauge,
                   lastReload, adapters, history, stopping>>

-----------------------------------------------------------------------------
(* The closure of an adapter: a subsystem that refuses the value keeps the one it has, *)
(* and only the log says so.                                                            *)
Install(a, value, current) == IF <<a, value>> \in Refused THEN current ELSE value

(* spawn_read_through: hands the extracted value over when it is not the last one seen, *)
(* and remembers it as seen whether or not the subsystem took it                        *)
AdapterRuns(a) ==
    /\ ~stopping /\ adapters[a].unseen
    /\ adapters' = [adapters EXCEPT ![a] =
          [unseen |-> FALSE, last |-> At(published, a),
           target |-> IF At(published, a) # @.last THEN Install(a, At(published, a), @.target)
                      ELSE @.target]]
    /\ UNCHANGED <<second, file, live, published, pendingChange, nextChange, vetted, timers, probes,
                   canaryGauge, lastReload, puts, history, stopping>>

ClockTicks ==
    /\ second < MaxNow
    /\ second' = second + 1
    /\ UNCHANGED <<file, live, published, pendingChange, nextChange, vetted, timers, probes, canaryGauge,
                   lastReload, adapters, puts, history, stopping>>

(* shutdown cancels the timers, the driver and the adapters; the probe's token is its own *)
ReloaderStops ==
    /\ ~stopping
    /\ stopping' = TRUE
    /\ timers' = {}
    /\ probes' = probes \ {t.id : t \in timers}
    /\ UNCHANGED <<second, file, live, published, pendingChange, nextChange, vetted, canaryGauge,
                   lastReload, adapters, puts, history>>

ConfigNext ==
    \/ \E values \in ConfigFiles : OperatorWrites(values)
    \/ Sighup
    \/ \E t \in timers : TimerFires(t)
    \/ \E id \in probes : ProbeTrips(id)
    \/ \E id \in 1 .. MaxChanges : Confirm(id)
    \/ \E p \in Putters : \/ \E edit \in Edits, persist \in BOOLEAN : PutBegins(p, edit, persist)
                          \/ PutApplies(p)
                          \/ PutPersists(p)
    \/ \E a \in Wired : AdapterRuns(a)
    \/ ClockTicks
    \/ ReloaderStops

AdapterFairness == \A a \in Wired : WF_configVars(AdapterRuns(a))
ConfigSpec == ConfigInit /\ [][ConfigNext]_configVars /\ AdapterFairness
-----------------------------------------------------------------------------
(* Whatever chain of reloads, puts, confirmations and rollbacks led to it, the live     *)
(* configuration is valid and has the value of boot in every field that needs a         *)
(* restart; the engine never runs on settings its listeners do not have.                *)
LiveFitsBoot == /\ Valid(live)
                /\ \A p \in PathsOf(Boot) \ ReloadablePaths : At(live, p) = At(Boot, p)

(* A change that is not confirmed leaves no trace: once nothing is pending the live     *)
(* configuration is the one confirmed last, and a pending change can still return to it, *)
(* with puts built from stale snapshots, reloads and late timers in between.             *)
UnconfirmedUndone == IF pendingChange = NoChange THEN live = vetted ELSE pendingChange.prior = vetted

(* Reloads, puts, confirmations and rollbacks in any order leave the       *)
(* engine with a configuration it can run on and that somebody             *)
(* confirmed, or can still take back (reloader.rs).                        *)
ReloadsSafe == LiveFitsBoot /\ UnconfirmedUndone

(* The subsystems follow the live configuration, rollbacks included: an adapter that    *)
(* keeps running does not stay on another value than the live one, unless its subsystem *)
(* refuses the live one; once that is rolled back or changed, it follows again.         *)
AdaptersFollow ==
    \A a \in Wired :
       []<>(stopping \/ adapters[a].target = At(live, a) \/ <<a, At(live, a)>> \in Refused)
=============================================================================
