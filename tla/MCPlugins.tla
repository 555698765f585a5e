----------------------------- MODULE MCPlugins -----------------------------
(***************************************************************************)
(* Plugins and what runs them: the loader with its watcher and hooks, the  *)
(* script and WASM runtimes, and the dispatcher that picks AI providers.   *)
(* They share no state, so a behaviour exercises one of them               *)
(* (`pluginFocus`, chosen once) and leaves the others where they started.  *)
(***************************************************************************)
EXTENDS Plugins, Script, AiPipeline, WasmHost

VARIABLE pluginFocus

\* two priorities of one hook, and a manifest that does not parse
MCManifests == {[valid |-> TRUE, hooks |-> {Created}, priority |-> 1],
                [valid |-> TRUE, hooks |-> {Created}, priority |-> 60],
                [valid |-> FALSE, hooks |-> {}, priority |-> 0]}
MCBoot ==
    [p \in PluginNames |-> [valid |-> TRUE, hooks |-> {Created}, priority |-> IF p = "a" THEN 1 ELSE 60]]
MCConfig == <<"a">>

\* a source whose capabilities differ from those of the one it replaces
MCCaps == [s \in Sources |-> IF s = "odd" THEN "other" ELSE "tts"]

\* a chat capability with three providers, one nobody provides, others with one
MCProvidersOf ==
    [k \in Capabilities |-> CASE k = "ai.embed" -> <<>>
                              [] k = "ai.llm.chat" -> <<"p", "q", "r">>
                              [] OTHER -> <<"p">>]
MCAiTools == {Translate, RestyleCall, Speak, SearchCallsSemantic}
MCWasmPermissions == {{"state", "events", "timers", "send_sip", "send_rtp"}}

PluginRuntimesInit ==
    /\ PluginsInit /\ ScriptInit /\ AiInit /\ WasmInit
    /\ pluginFocus \in {"hooks", "watcher", "script", "ai", "wasm"}

\* The loader is exercised twice: with an event and one save while no reload
\* is lost, and with saves of one plugin that overtake each other and dropped
\* calls but no event, until the watcher stops.
OneSave == NextWatch[2] + Cardinality(changed) <= 2
NothingLost == watching /\ abandoned = {}
OnePlugin == hookEvents = 0 /\ changed \subseteq {"a"}

PluginRuntimesNext ==
    /\ UNCHANGED pluginFocus
    /\ \/ /\ pluginFocus = "hooks" /\ PluginsNext /\ OneSave' /\ NothingLost'
          /\ UNCHANGED <<scriptVars, aiVars, wasmVars>>
       \/ /\ pluginFocus = "watcher" /\ watching /\ PluginsNext /\ OnePlugin'
          /\ UNCHANGED <<scriptVars, aiVars, wasmVars>>
       \/ pluginFocus = "script" /\ ScriptNext /\ UNCHANGED <<pluginVars, aiVars, wasmVars>>
       \/ pluginFocus = "ai" /\ AiNext /\ UNCHANGED <<pluginVars, scriptVars, wasmVars>>
       \/ pluginFocus = "wasm" /\ WasmNext /\ UNCHANGED <<pluginVars, scriptVars, aiVars>>

PluginRuntimesSpec == PluginRuntimesInit /\ [][PluginRuntimesNext]_<<pluginFocus, pluginVars, scriptVars, aiVars, wasmVars>>
=============================================================================
