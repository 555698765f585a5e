----------------------------- MODULE MCControl -----------------------------
(***************************************************************************)
(* What the engine keeps beyond a call: the configuration and its reloads, *)
(* the user stores, the recordings on disk, and the replicated log of      *)
(* dialogs.  They share no state, so a behaviour exercises one of them     *)
(* (`controlFocus`, chosen once) and leaves the others where they started. *)
(***************************************************************************)
EXTENDS ConfigReload, AuthStores, Recordings, RaftCluster

VARIABLE controlFocus

LogLevel == <<"observability", "logLevel">>
RateLimit == <<"sip", "rateLimit">>
Limit(n, b) == [perSec |-> n, burst |-> b]

\* Files an operator writes: a valid change, an invalid one, one that needs a
\* restart next to one that does not, and one that turns reloads off
\* and sets a log level the filter cannot parse.
MCConfigFiles ==
    {{<<RateLimit, Limit(2, 2)>>, <<LogLevel, "trace">>},
     {<<RateLimit, Limit(2, 0)>>},
     {<<<<"cluster", "mode">>, "raft">>, <<<<"cluster", "raftAddr">>, TRUE>>, <<LogLevel, "debug">>},
     {<<<<"reload", "enabled">>, FALSE>>, <<LogLevel, "no level">>}}
MCEdits ==
    {<<LogLevel, "debug">>, <<<<"webrtc", "privacy">>, [mode |-> "strict", key |-> TRUE]>>}
MCWired == {LogLevel}
MCRefused == {<<LogLevel, "no level">>}
MCEnv == {<<<<"media", "prompts">>, 2>>}

About(component) == controlFocus = component

ControlInit ==
    /\ ConfigInit /\ SqliteInit /\ BreakerInit /\ RecordingInit /\ RaftInit
    /\ controlFocus \in {"config", "sqlite", "breaker", "recordings", "raft"}

ControlNext ==
    /\ UNCHANGED controlFocus
    /\ \/ /\ About("config") /\ ConfigNext
          /\ UNCHANGED <<sqliteVars, breakerVars, recordingVars, raftVars>>
       \/ /\ About("sqlite") /\ SqliteNext
          /\ UNCHANGED <<configVars, breakerVars, recordingVars, raftVars>>
       \/ /\ About("breaker") /\ BreakerNext
          /\ UNCHANGED <<configVars, sqliteVars, recordingVars, raftVars>>
       \/ /\ About("recordings") /\ RecordingNext
          /\ UNCHANGED <<configVars, sqliteVars, breakerVars, raftVars>>
       \/ /\ About("raft") /\ RaftNext
          /\ UNCHANGED <<configVars, sqliteVars, breakerVars, recordingVars>>

\* The fairness of each module, for the behaviours about it.
ControlFairness ==
    /\ \A a \in Wired : WF_configVars(About("config") /\ AdapterRuns(a))
    /\ WF_breakerVars(About("breaker") /\ CoolDown)
    /\ \A l \in Lookers : WF_breakerVars(About("breaker") /\ LookerSteps(l))
    /\ WF_recordingVars(About("recordings") /\ SweeperSteps)
    /\ WF_recordingVars(About("recordings") /\ DeleterSteps)
    /\ \A c \in Recorded : WF_recordingVars(About("recordings") /\ Age(c))
    /\ \A p \in Recorders : WF_recordingVars(About("recordings") /\ RecorderSteps(p))

ControlSpec ==
    /\ ControlInit
    /\ [][ControlNext]_<<controlFocus, configVars, sqliteVars, breakerVars, recordingVars,
                        raftVars>>
    /\ ControlFairness

(* What is on disk survives: the rows of the user store through crashed    *)
(* and racing migrations, and the audio of every listed recording through  *)
(* interrupted puts (MigrationRunner::run; storage.rs: put).               *)
StoredDataKept == UsersSurvive /\ ListedHasAudio
=============================================================================
