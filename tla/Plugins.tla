------------------------------ MODULE Plugins ------------------------------
(***************************************************************************)
(* The plugin registry, its loader, the hot-reload watcher and the hook    *)
(* dispatcher (smiths-plugin registry.rs, loader.rs, watcher.rs,           *)
(* dispatcher.rs, event_hook.rs) for sidecar plugins.                      *)
(*                                                                         *)
(* A load or reload is a task: the boot scan, a reload_plugin tool call or *)
(* a debounced watcher task.  The provider map, the sidecar index and the  *)
(* routes are separate concurrent maps, so each update of one is a step.   *)
(* A manifest is abstracted to whether it is valid, the hooks it declares  *)
(* and its priority; a sidecar to the number of its spawn.                 *)
(***************************************************************************)
EXTENDS Integers, Sequences, FiniteSets, SequencesExt

CONSTANTS
    PluginNames,   \* the plugin directories
    Manifests,     \* what plugin.toml may say: [valid, hooks, priority]
    BootManifest,  \* plugin -> what its plugin.toml says at boot
    ConfigPlugins, \* [plugins] call_event_hooks, a sequence of plugins
    ReloadCallers, \* concurrent reload_plugin calls
    MaxSaves,      \* bound: edits under the plugins directory
    MaxSpawns,     \* bound: sidecars spawned
    MaxEvents      \* bound: dialog events

DefaultPriority == 50
Created == "on_dialog_created"
HookEvents == {Created, "on_dialog_terminated"}

ASSUME PluginsAssumption ==
    /\ ConfigPlugins \in Seq(PluginNames)
    /\ Manifests \subseteq [valid : BOOLEAN, hooks : SUBSET HookEvents, priority : Nat]
    /\ BootManifest \in [PluginNames -> Manifests]
    /\ MaxSaves \in Nat /\ MaxSpawns \in Nat /\ MaxEvents \in Nat

BootTask == <<"boot", 0>>
Tools == {"tool"} \X ReloadCallers
Watches == {"watch"} \X (1 .. MaxSaves)
LoadTasks == {BootTask} \cup Tools \cup Watches

VARIABLES
    manifestOf,  \* plugin.toml on disk
    scanned,     \* plugins the boot scan has tried
    keysSeeded,  \* the configured API keys are in env_overrides
    spawns,      \* the sidecars: [alive, keys]
    provider,    \* plugin -> spawn number in `providers`, 0 if absent
    sidecarOf,   \* plugin -> spawn number in `sidecars`, 0 if absent
    hookRoutes,  \* event -> routes, in dispatch order
    load,        \* task -> where it is
    doomed,      \* tasks aborted, which end at their next await
    watching,    \* the watcher runs
    abandoned,   \* sidecars shut down by a call that was then dropped
    changed,     \* plugins with a file event the watcher has not taken
    refused,     \* plugins of which a load has failed
    debounce,    \* plugin -> the task of its last event
    consumer,    \* the call-event consumer
    heard,       \* plugins invoked by the current dispatch, with priorities
    hookEvents   \* dialog events so far

pluginVars == <<manifestOf, scanned, keysSeeded, spawns, provider, sidecarOf, hookRoutes, load,
                doomed, watching, abandoned, changed, refused, debounce, consumer, heard, hookEvents>>
diskVars == <<manifestOf, changed, refused>>
consumerVars == <<consumer, heard, hookEvents>>
bootVars == <<scanned, keysSeeded>>
lostVars == <<watching, abandoned>>

NoLoad == [at |-> "idle"]

PluginsInit ==
    /\ manifestOf = BootManifest
    /\ scanned = {} /\ keysSeeded = FALSE
    /\ spawns = <<>>
    /\ provider = [p \in PluginNames |-> 0] /\ sidecarOf = [p \in PluginNames |-> 0]
    /\ hookRoutes = [e \in HookEvents |-> <<>>]
    /\ load = [t \in LoadTasks |-> NoLoad]
    /\ doomed = {} /\ watching = TRUE /\ abandoned = {}
    /\ changed = {} /\ refused = {} /\ debounce = [p \in PluginNames |-> BootTask]
    /\ consumer = [at |-> "absent"] /\ heard = <<>> /\ hookEvents = 0

-----------------------------------------------------------------------------
(* Hook routes *)

(* Vec::retain. *)
Retain(routes, kept) ==
    LET upto[n \in 0 .. Len(routes)] ==
          IF n = 0 THEN <<>>
          ELSE IF routes[n] \in kept THEN Append(upto[n - 1], routes[n]) ELSE upto[n - 1]
    IN  upto[Len(routes)]

NotOf(routes, p) == Retain(routes, {r \in Range(routes) : r.plugin # p})

(* register_owned: one route per hook name, stable by priority. *)
RegisterOwned(routes, p, priority) ==
    LET rest == NotOf(routes, p)
    IN  Retain(rest, {r \in Range(rest) : r.priority <= priority})
          \o <<[plugin |-> p, priority |-> priority]>>
          \o Retain(rest, {r \in Range(rest) : r.priority > priority})

UnregisterOwner(p) == [e \in HookEvents |-> NotOf(hookRoutes[e], p)]

(* The events register_manifest_hooks registers: the manifest's and the    *)
(* ones the config declares.                                               *)
DeclaredHooks(p, manifest) ==
    manifest.hooks \cup (IF p \in Range(ConfigPlugins) /\ consumer.at # "absent" THEN {Created} ELSE {})

-----------------------------------------------------------------------------
(* Loading *)

IsAt(t, where) == load[t].at = where
Moves(t, where) == load' = [load EXCEPT ![t].at = where]
Ends(t) == load' = [load EXCEPT ![t] = NoLoad]

(* An aborted watcher task goes no further than its next await.  A         *)
(* reload_plugin call runs inside its HTTP handler, which is dropped with  *)
(* the client's connection at any await.  The shutdown that either awaits  *)
(* may have killed the child already.                                      *)
AbortedTaskEnds(t) ==
    /\ t \in doomed \cup Tools
    /\ load[t].at \in {"sleep", "stop", "spawn", "describe"}
    /\ Ends(t) /\ doomed' = doomed \ {t}
    /\ \/ UNCHANGED <<spawns, abandoned>>
       \/ /\ IsAt(t, "stop")
          /\ spawns' = [spawns EXCEPT ![load[t].existing].alive = FALSE]
          /\ abandoned' = IF t \in Tools THEN abandoned \cup {load[t].existing} ELSE abandoned
    /\ UNCHANGED <<diskVars, bootVars, watching, provider, sidecarOf, hookRoutes, debounce,
                   consumerVars>>

(* load_plugins tries every directory; a failure does not stop it. *)
ScanNext(p) ==
    /\ IsAt(BootTask, "idle") /\ p \notin scanned
    /\ scanned' = scanned \cup {p}
    /\ load' = [load EXCEPT ![BootTask] = [at |-> "spawn", plugin |-> p]]
    /\ UNCHANGED <<diskVars, keysSeeded, lostVars, spawns, provider, sidecarOf, hookRoutes, doomed, debounce,
                   consumerVars>>

(* load_one re-reads the manifest and spawns with the present overrides. *)
SpawnSidecar(t) ==
    LET p == load[t].plugin
    IN  /\ IsAt(t, "spawn") /\ t \notin doomed
        /\ IF manifestOf[p].valid
           THEN /\ Len(spawns) < MaxSpawns
                /\ spawns' = Append(spawns, [alive |-> TRUE, keys |-> keysSeeded])
                /\ load' = [load EXCEPT ![t] = [at |-> "describe", plugin |-> p,
                               manifest |-> manifestOf[p], spawn |-> Len(spawns) + 1]]
           ELSE Ends(t) /\ UNCHANGED spawns
        /\ refused' = IF manifestOf[p].valid THEN refused ELSE refused \cup {p}
        /\ UNCHANGED <<manifestOf, changed, bootVars, lostVars, provider, sidecarOf, hookRoutes, doomed, debounce,
                       consumerVars>>

(* describe_capabilities and bind_and_check; the sidecar of a failed       *)
(* handshake stays up, its supervisor holds it.                            *)
DescribeCapabilities(t) ==
    /\ IsAt(t, "describe") /\ t \notin doomed
    /\ \/ Moves(t, "insert") /\ UNCHANGED refused
       \/ Ends(t) /\ refused' = refused \cup {load[t].plugin}
    /\ UNCHANGED <<manifestOf, changed, bootVars, lostVars, spawns, provider, sidecarOf, hookRoutes, doomed, debounce,
                   consumerVars>>

InsertProvider(t) ==
    /\ IsAt(t, "insert")
    /\ provider' = [provider EXCEPT ![load[t].plugin] = load[t].spawn]
    /\ Moves(t, "index")
    /\ UNCHANGED <<diskVars, bootVars, lostVars, spawns, sidecarOf, hookRoutes, doomed, debounce,
                   consumerVars>>

InsertSidecar(t) ==
    /\ IsAt(t, "index")
    /\ sidecarOf' = [sidecarOf EXCEPT ![load[t].plugin] = load[t].spawn]
    /\ Moves(t, "unroute")
    /\ UNCHANGED <<diskVars, bootVars, lostVars, spawns, provider, hookRoutes, doomed, debounce,
                   consumerVars>>

DropRoutes(t) ==
    /\ IsAt(t, "unroute")
    /\ hookRoutes' = UnregisterOwner(load[t].plugin)
    /\ Moves(t, "route")
    /\ UNCHANGED <<diskVars, bootVars, lostVars, spawns, provider, sidecarOf, doomed, debounce, consumerVars>>

RegisterManifestHooks(t) ==
    LET p == load[t].plugin
        m == load[t].manifest
    IN  /\ IsAt(t, "route")
        /\ hookRoutes' = [e \in HookEvents |->
             IF e \in DeclaredHooks(p, m) THEN RegisterOwned(hookRoutes[e], p, m.priority)
                                          ELSE hookRoutes[e]]
        /\ Ends(t)
        /\ UNCHANGED <<diskVars, bootVars, lostVars, spawns, provider, sidecarOf, doomed, debounce,
                       consumerVars>>

(* Once every directory was tried the engine seeds the configured keys and *)
(* spawns the event consumer, which declares the configured hooks.         *)
Serve ==
    /\ scanned = PluginNames /\ IsAt(BootTask, "idle") /\ consumer.at = "absent"
    /\ keysSeeded' = TRUE
    /\ consumer' = [at |-> "idle"]
    /\ hookRoutes' = [hookRoutes EXCEPT ![Created] =
         FoldLeft(LAMBDA routes, p : RegisterOwned(routes, p, IF sidecarOf[p] = 0 THEN DefaultPriority
                                                              ELSE manifestOf[p].priority),
                  @, ConfigPlugins)]
    /\ UNCHANGED <<diskVars, scanned, lostVars, spawns, provider, sidecarOf, load, doomed, debounce, heard,
                   hookEvents>>

-----------------------------------------------------------------------------
(* Reloading: AiRegistry::reload. *)

BeginReload(t, p) ==
    load' = [load EXCEPT ![t] = IF sidecarOf[p] = 0 THEN NoLoad
                                ELSE [at |-> "stop", plugin |-> p, existing |-> sidecarOf[p]]]

ReloadPlugin(t, p) ==
    /\ t \in Tools /\ IsAt(t, "idle") /\ consumer.at # "absent" /\ Len(spawns) < MaxSpawns
    /\ sidecarOf[p] # 0
    /\ BeginReload(t, p)
    /\ UNCHANGED <<diskVars, bootVars, lostVars, spawns, provider, sidecarOf, hookRoutes, doomed, debounce,
                   consumerVars>>

ShutDownOld(t) ==
    /\ IsAt(t, "stop") /\ t \notin doomed
    /\ spawns' = [spawns EXCEPT ![load[t].existing].alive = FALSE]
    /\ Moves(t, "removeProvider")
    /\ UNCHANGED <<diskVars, bootVars, lostVars, provider, sidecarOf, hookRoutes, doomed, debounce,
                   consumerVars>>

RemoveProvider(t) ==
    /\ IsAt(t, "removeProvider")
    /\ provider' = [provider EXCEPT ![load[t].plugin] = 0]
    /\ Moves(t, "removeSidecar")
    /\ UNCHANGED <<diskVars, bootVars, lostVars, spawns, sidecarOf, hookRoutes, doomed, debounce,
                   consumerVars>>

RemoveSidecarMut(t) ==
    /\ IsAt(t, "removeSidecar")
    /\ Moves(t, "unregister")
    /\ UNCHANGED <<diskVars, bootVars, lostVars, spawns, provider, sidecarOf, hookRoutes, doomed, debounce,
                   consumerVars>>

RemoveSidecar(t) ==
    /\ IsAt(t, "removeSidecar")
    /\ sidecarOf' = [sidecarOf EXCEPT ![load[t].plugin] = 0]
    /\ Moves(t, "unregister")
    /\ UNCHANGED <<diskVars, bootVars, lostVars, spawns, provider, hookRoutes, doomed, debounce, consumerVars>>

UnregisterHooks(t) ==
    /\ IsAt(t, "unregister")
    /\ hookRoutes' = UnregisterOwner(load[t].plugin)
    /\ load' = [load EXCEPT ![t] = [at |-> "spawn", plugin |-> @.plugin]]
    /\ UNCHANGED <<diskVars, bootVars, lostVars, spawns, provider, sidecarOf, doomed, debounce, consumerVars>>

-----------------------------------------------------------------------------
(* The watcher *)

(* Watcher tasks are numbered in the order of their events. *)
Fired == {debounce[p] : p \in PluginNames} \cap Watches
NextWatch == <<"watch", 1 + Cardinality({t \in Watches : \E u \in Fired : t[2] <= u[2]})>>

SaveFile(p, manifest) ==
    /\ consumer.at # "absent"
    /\ NextWatch \in Watches
    /\ manifest # manifestOf[p]
    /\ manifestOf' = [manifestOf EXCEPT ![p] = manifest]
    /\ changed' = changed \cup {p}
    /\ UNCHANGED <<refused, bootVars, lostVars, spawns, provider, sidecarOf, hookRoutes, load, doomed, debounce,
                   consumerVars>>

(* Every event aborts the plugin's previous task, whatever it was doing,   *)
(* and starts the debounce delay again.                                    *)
ScheduleReload(p) ==
    /\ watching /\ p \in changed /\ NextWatch \in Watches
    /\ changed' = changed \ {p}
    /\ doomed' = IF IsAt(debounce[p], "idle") \/ debounce[p] = BootTask THEN doomed
                 ELSE doomed \cup {debounce[p]}
    /\ debounce' = [debounce EXCEPT ![p] = NextWatch]
    /\ load' = [load EXCEPT ![NextWatch] = [at |-> "sleep", plugin |-> p]]
    /\ UNCHANGED <<refused, manifestOf, bootVars, lostVars, spawns, provider, sidecarOf, hookRoutes, consumerVars>>

(* A cancelled watcher aborts what is pending and takes no more events. *)
StopWatcher ==
    /\ watching /\ consumer.at # "absent"
    /\ watching' = FALSE
    /\ doomed' = doomed \cup {t \in Fired : ~IsAt(t, "idle")}
    /\ UNCHANGED <<diskVars, bootVars, abandoned, spawns, provider, sidecarOf, hookRoutes, load,
                   debounce, consumerVars>>

DebounceEnds(t) ==
    /\ IsAt(t, "sleep") /\ t \notin doomed
    /\ BeginReload(t, load[t].plugin)
    /\ UNCHANGED <<diskVars, bootVars, lostVars, spawns, provider, sidecarOf, hookRoutes, doomed, debounce,
                   consumerVars>>

-----------------------------------------------------------------------------
(* The call-event consumer: one dispatch at a time. *)

(* dispatch copies the route list of the event. *)
TakeEvent(e) ==
    /\ consumer.at = "idle" /\ hookEvents < MaxEvents
    /\ hookEvents' = hookEvents + 1
    /\ heard' = <<>>
    /\ consumer' = IF hookRoutes[e] = <<>> THEN consumer
                   ELSE [at |-> "next", rest |-> hookRoutes[e], spent |-> FALSE]
    /\ UNCHANGED <<diskVars, bootVars, lostVars, spawns, provider, sidecarOf, hookRoutes, load, doomed,
                   debounce>>

Reported ==
    consumer' = IF Len(consumer.rest) = 1 THEN [at |-> "idle"]
                ELSE [consumer EXCEPT !.at = "next", !.rest = Tail(@)]

(* The next hook: skipped when the budget is spent, an error when its      *)
(* plugin is not loaded, and otherwise invoked.                            *)
NextHook ==
    LET r == Head(consumer.rest)
    IN  /\ consumer.at = "next"
        /\ IF consumer.spent \/ provider[r.plugin] = 0 THEN Reported /\ UNCHANGED heard
           ELSE /\ consumer' = [consumer EXCEPT !.at = "invoke"]
                /\ heard' = Append(heard, r)
        /\ UNCHANGED <<diskVars, bootVars, lostVars, spawns, provider, sidecarOf, hookRoutes, load, doomed,
                       debounce, hookEvents>>

HookReturns ==
    /\ consumer.at = "invoke"
    /\ Reported
    /\ UNCHANGED <<diskVars, bootVars, lostVars, spawns, provider, sidecarOf, hookRoutes, load, doomed,
                   debounce, heard, hookEvents>>

(* What is left of the budget times the hook out. *)
BudgetSpent ==
    /\ consumer.at = "invoke"
    /\ consumer' = IF Len(consumer.rest) = 1 THEN [at |-> "idle"]
                   ELSE [at |-> "next", rest |-> Tail(consumer.rest), spent |-> TRUE]
    /\ UNCHANGED <<diskVars, bootVars, lostVars, spawns, provider, sidecarOf, hookRoutes, load, doomed,
                   debounce, heard, hookEvents>>

-----------------------------------------------------------------------------
LoadStep(t) ==
    \/ AbortedTaskEnds(t) \/ SpawnSidecar(t) \/ DescribeCapabilities(t) \/ InsertProvider(t)
    \/ InsertSidecar(t) \/ DropRoutes(t) \/ RegisterManifestHooks(t) \/ ShutDownOld(t)
    \/ RemoveProvider(t) \/ RemoveSidecar(t) \/ UnregisterHooks(t) \/ DebounceEnds(t)

PluginsNext ==
    \/ \E t \in LoadTasks : LoadStep(t)
    \/ \E p \in PluginNames : ScanNext(p) \/ ScheduleReload(p)
    \/ \E p \in PluginNames, m \in Manifests : SaveFile(p, m)
    \/ \E t \in Tools, p \in PluginNames : ReloadPlugin(t, p)
    \/ Serve \/ StopWatcher
    \/ \E e \in HookEvents : TakeEvent(e)
    \/ NextHook \/ HookReturns \/ BudgetSpent

PluginsSpec == PluginsInit /\ [][PluginsNext]_pluginVars
-----------------------------------------------------------------------------
(* One dispatch invokes a plugin at most once and in priority order,       *)
(* although its manifest and the config may declare the same hook and      *)
(* reloads register and drop its routes meanwhile (register_owned,         *)
(* register_manifest_hooks, dispatch).                                     *)
HookedOnceInOrder ==
    \A i, j \in DOMAIN heard :
      i < j => heard[i].plugin # heard[j].plugin /\ heard[i].priority <= heard[j].priority

(* While the watcher runs, a sidecar that was shut down stays in the       *)
(* sidecar index only while a task that will take it out is under way:     *)
(* racing tool calls, saves that abort a reload half-way and failed loads  *)
(* never leave a dead one listed (reload, load_one, watcher::spawn).  The  *)
(* one exception is a sidecar whose reload_plugin call was dropped with    *)
(* its connection while it awaited the shutdown: nothing takes that over.  *)
DeadIsReplaced ==
    \A p \in PluginNames :
      watching /\ sidecarOf[p] # 0 /\ ~spawns[sidecarOf[p]].alive =>
        \/ sidecarOf[p] \in abandoned
        \/ \E t \in LoadTasks \ doomed :
             load[t].at \in {"sleep", "stop", "removeProvider", "removeSidecar"} /\ load[t].plugin = p

(* Reloads, saves and aborted reloads leave one route per hook, in order,  *)
(* and no dead sidecar in the index that nobody is about to replace        *)
(* (registry.rs, watcher.rs, dispatcher.rs).                               *)
PluginsSound == HookedOnceInOrder /\ DeadIsReplaced
=============================================================================
