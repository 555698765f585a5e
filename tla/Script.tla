------------------------------- MODULE Script -------------------------------
(***************************************************************************)
(* Script plugins: the Rhai runtime of smiths-script lib.rs with its       *)
(* cooperative interruption, and the ScriptProvider of smiths-plugin       *)
(* script_provider.rs with reload, put_script and automatic rollback.      *)
(*                                                                         *)
(* A runtime is named by the number of its compilation.  Each has one      *)
(* execution lane (the engine mutex); a call runs there on the blocking    *)
(* pool while its caller waits under a timeout, so the script may outlive  *)
(* its caller and the provider may swap runtimes meanwhile.  A script      *)
(* source is abstracted to the capabilities it describes.                  *)
(***************************************************************************)
EXTENDS Integers, Sequences

CONSTANTS
    ScriptCallers,  \* concurrent invocations of the plugin
    Editors,        \* concurrent put_script / reload calls
    Sources,        \* script sources that compile
    CapsOf,         \* source -> the capability set it describes
    FirstSource,    \* the source the plugin was loaded from
    RollbackAfter,  \* ROLLBACK_AFTER
    MaxCompiles,    \* bound: runtimes compiled
    MaxInvokes      \* bound: invocations

ASSUME ScriptAssumption ==
    /\ FirstSource \in Sources /\ DOMAIN CapsOf = Sources
    /\ RollbackAfter \in Nat \ {0} /\ MaxCompiles \in Nat \ {0} /\ MaxInvokes \in Nat

NoRuntime == 0
NoCaller == "none"
Runtimes == 1 .. MaxCompiles

VARIABLES
    entryFile, newFile,  \* the entry file and the temporary beside it
    compiled,      \* the sources of the runtimes compiled so far
    hot,           \* ScriptProvider::runtime
    previous,      \* ScriptProvider::previous
    errorsInARow,  \* consecutive_errors
    lane,          \* runtime -> the caller that holds its engine
    generations,   \* runtime -> Interrupt::seq
    stopAsked,     \* runtime -> Interrupt::stop
    invocation,    \* caller -> its async side, its script, its generation
    restoring,     \* caller -> the runtime its rollback has taken
    interrupted,   \* what the callers of stopped scripts were doing
    failures,      \* runtime -> errors its calls returned
    rolledBack,    \* runtimes that a rollback has replaced
    editor,        \* the reload in progress of each editor
    invokes        \* invocations so far

fileVars == <<entryFile, newFile>>
providerVars == <<hot, previous, errorsInARow>>
laneVars == <<lane, generations, stopAsked>>
historyVars == <<interrupted, failures, rolledBack>>
scriptVars == <<fileVars, compiled, providerVars, laneVars, historyVars, invocation, restoring,
                editor, invokes>>

NoInvocation == [caller |-> "idle", script |-> "none", runtime |-> NoRuntime, generation |-> 0]

ScriptInit ==
    /\ entryFile = FirstSource /\ newFile = "absent"
    /\ compiled = <<FirstSource>>
    /\ hot = 1 /\ previous = NoRuntime /\ errorsInARow = 0
    /\ lane = [r \in Runtimes |-> NoCaller]
    /\ generations = [r \in Runtimes |-> 0] /\ stopAsked = [r \in Runtimes |-> 0]
    /\ invocation = [c \in ScriptCallers |-> NoInvocation]
    /\ restoring = [c \in ScriptCallers |-> NoRuntime]
    /\ interrupted = {} /\ failures = [r \in Runtimes |-> 0] /\ rolledBack = {}
    /\ editor = [e \in Editors |-> [at |-> "idle"]]
    /\ invokes = 0

-----------------------------------------------------------------------------
(* ScriptRuntime::call *)

NextGeneration(r) == generations[r] + 1

(* The hot runtime is taken once, before the first await. *)
Invoke(c) ==
    /\ invocation[c].caller = "idle" /\ invocation[c].script = "none" /\ invokes < MaxInvokes
    /\ invocation' = [invocation EXCEPT ![c] = [caller |-> "call", script |-> "queued",
                         runtime |-> hot, generation |-> NextGeneration(hot)]]
    /\ generations' = [generations EXCEPT ![hot] = NextGeneration(hot)]
    /\ invokes' = invokes + 1
    /\ UNCHANGED <<fileVars, compiled, providerVars, lane, stopAsked, historyVars, restoring, editor>>

(* The engine mutex, then Interrupt::begin. *)
TakeLane(c) ==
    LET r == invocation[c].runtime
    IN  /\ invocation[c].script = "queued" /\ lane[r] = NoCaller
        /\ lane' = [lane EXCEPT ![r] = c]
        /\ invocation' = [invocation EXCEPT ![c].script = "running"]
        /\ UNCHANGED <<fileVars, compiled, providerVars, generations, stopAsked, historyVars,
                       restoring, editor, invokes>>

(* Interrupt::end; the outcome reaches a caller that still waits. *)
ScriptEnds(c, outcome) ==
    /\ lane' = [lane EXCEPT ![invocation[c].runtime] = NoCaller]
    /\ invocation' = [invocation EXCEPT ![c].script = "none",
                         ![c].caller = IF @ = "call" THEN outcome ELSE @]
    /\ UNCHANGED <<fileVars, compiled, providerVars, generations, stopAsked, failures, rolledBack,
                   restoring, editor, invokes>>

(* It returns, errs, exceeds its operations, or meets its own deadline. *)
CallRhai(c) ==
    /\ invocation[c].script = "running"
    /\ \E outcome \in {"ok", "error"} : ScriptEnds(c, outcome)
    /\ UNCHANGED interrupted

(* The progress callback: the stop flag names the active generation. *)
ShouldStopMut(c) == stopAsked[invocation[c].runtime] # 0

ShouldStop(c) == stopAsked[invocation[c].runtime] = invocation[c].generation

StopScript(c) ==
    /\ invocation[c].script = "running" /\ ShouldStop(c)
    /\ ScriptEnds(c, "error")
    /\ interrupted' = interrupted \cup {invocation[c].caller}

(* The caller's timeout; the stop request is a later step, when its script *)
(* may have ended and another call begun.                                  *)
CallTimesOut(c) ==
    /\ invocation[c].caller = "call"
    /\ invocation' = [invocation EXCEPT ![c].caller = "timedOut"]
    /\ UNCHANGED <<fileVars, compiled, providerVars, laneVars, historyVars, restoring, editor,
                   invokes>>

RequestStop(c) ==
    /\ invocation[c].caller = "timedOut"
    /\ invocation' = [invocation EXCEPT ![c].caller = "error"]
    /\ stopAsked' = [stopAsked EXCEPT ![invocation[c].runtime] = invocation[c].generation]
    /\ UNCHANGED <<fileVars, compiled, providerVars, lane, generations, historyVars, restoring,
                   editor, invokes>>

-----------------------------------------------------------------------------
(* ScriptProvider::invoke: the streak of errors, and the rollback. *)

InvokeSucceeds(c) ==
    /\ invocation[c].caller = "ok"
    /\ errorsInARow' = 0
    /\ invocation' = [invocation EXCEPT ![c].caller = "idle"]
    /\ UNCHANGED <<fileVars, compiled, hot, previous, laneVars, historyVars, restoring, editor,
                   invokes>>

(* The error is counted whatever runtime it came from. *)
InvokeFails(c) ==
    /\ invocation[c].caller = "error"
    /\ errorsInARow' = errorsInARow + 1
    /\ invocation' = [invocation EXCEPT ![c].caller =
                         IF errorsInARow + 1 >= RollbackAfter THEN "rollback" ELSE "idle"]
    /\ failures' = [failures EXCEPT ![invocation[c].runtime] = @ + 1]
    /\ UNCHANGED <<fileVars, compiled, hot, previous, laneVars, interrupted, rolledBack, restoring,
                   editor, invokes>>

(* rollback takes the retained runtime first and installs it afterwards. *)
TakePrevious(c) ==
    /\ invocation[c].caller = "rollback"
    /\ previous' = NoRuntime
    /\ restoring' = [restoring EXCEPT ![c] = previous]
    /\ invocation' = [invocation EXCEPT ![c].caller = IF previous = NoRuntime THEN "idle"
                                                      ELSE "restore"]
    /\ UNCHANGED <<fileVars, compiled, hot, errorsInARow, laneVars, historyVars, editor, invokes>>

RestorePrevious(c) ==
    /\ invocation[c].caller = "restore"
    /\ hot' = restoring[c] /\ errorsInARow' = 0
    /\ rolledBack' = rolledBack \cup {hot}
    /\ restoring' = [restoring EXCEPT ![c] = NoRuntime]
    /\ invocation' = [invocation EXCEPT ![c].caller = "idle"]
    /\ UNCHANGED <<fileVars, compiled, previous, laneVars, interrupted, failures, editor, invokes>>

-----------------------------------------------------------------------------
(* reload and reload_script_source *)

callVarsOfScript == <<laneVars, historyVars, invocation, restoring, invokes>>
Edits(e, state) == editor' = [editor EXCEPT ![e] = state]

(* put_script writes a temporary file of a fixed name ... *)
WriteSource(e, source) ==
    /\ editor[e].at = "idle" /\ Len(compiled) < MaxCompiles
    /\ newFile' = source
    /\ Edits(e, [at |-> "rename"])
    /\ UNCHANGED <<entryFile, compiled, providerVars, callVarsOfScript>>

(* ... and renames it over the entry; another call may have done so. *)
RenameSource(e) ==
    /\ editor[e].at = "rename"
    /\ IF newFile = "absent" THEN Edits(e, [at |-> "idle"]) /\ UNCHANGED fileVars
       ELSE /\ entryFile' = newFile /\ newFile' = "absent"
            /\ Edits(e, [at |-> "compile"])
    /\ UNCHANGED <<compiled, providerVars, callVarsOfScript>>

ReloadScript(e) ==
    /\ editor[e].at = "idle" /\ Len(compiled) < MaxCompiles
    /\ Edits(e, [at |-> "compile"])
    /\ UNCHANGED <<fileVars, compiled, providerVars, callVarsOfScript>>

LoadRhai(e) ==
    /\ editor[e].at = "compile"
    /\ \/ Edits(e, [at |-> "idle"]) /\ UNCHANGED compiled
       \/ /\ Len(compiled) < MaxCompiles
          /\ compiled' = Append(compiled, entryFile)
          /\ Edits(e, [at |-> "describe", runtime |-> Len(compiled) + 1])
    /\ UNCHANGED <<fileVars, providerVars, callVarsOfScript>>

(* The capabilities the new runtime describes must be the provider's. *)
SameCapabilities(r) == CapsOf[compiled[r]] = CapsOf[FirstSource]

DescribeNew(e) ==
    /\ editor[e].at = "describe"
    /\ \/ SameCapabilities(editor[e].runtime) /\ Edits(e, [editor[e] EXCEPT !.at = "swap"])
       \/ Edits(e, [at |-> "idle"])
    /\ UNCHANGED <<fileVars, compiled, providerVars, callVarsOfScript>>

SwapRuntime(e) ==
    /\ editor[e].at = "swap"
    /\ hot' = editor[e].runtime /\ previous' = hot /\ errorsInARow' = 0
    /\ Edits(e, [at |-> "idle"])
    /\ UNCHANGED <<fileVars, compiled, callVarsOfScript>>

-----------------------------------------------------------------------------
ScriptNext ==
    \/ \E c \in ScriptCallers :
         \/ Invoke(c) \/ TakeLane(c) \/ CallRhai(c) \/ StopScript(c) \/ CallTimesOut(c)
         \/ RequestStop(c) \/ InvokeSucceeds(c) \/ InvokeFails(c) \/ TakePrevious(c)
         \/ RestorePrevious(c)
    \/ \E e \in Editors :
         \/ \E source \in Sources : WriteSource(e, source)
         \/ RenameSource(e) \/ ReloadScript(e) \/ LoadRhai(e) \/ DescribeNew(e) \/ SwapRuntime(e)

ScriptSpec == ScriptInit /\ [][ScriptNext]_scriptVars

-----------------------------------------------------------------------------
(* The stop flag only ever ends the script of a caller that has given up:  *)
(* a request that arrives late, when the lane already runs another call,   *)
(* hits nobody ("a stale stop request from an earlier call can never hit a *)
(* later one"; Interrupt::should_stop, ScriptRuntime::call).               *)
StopsItsOwn == "call" \notin interrupted

(* The hot and the retained runtime describe the capabilities the provider *)
(* was registered with, although sources are replaced while others compile *)
(* and rollbacks cross swaps (reload_script, reload_script_source,         *)
(* swap_runtime, rollback).                                                *)
HotKeepsContract ==
    \A r \in {hot, previous} \ {NoRuntime} : CapsOf[compiled[r]] = CapsOf[FirstSource]

(* A caller that gives up stops its own script and no other, and a         *)
(* script that replaces another one promises the same capabilities         *)
(* (lib.rs and script_provider.rs of smiths-script).                       *)
ScriptsIsolated == StopsItsOwn /\ HotKeepsContract
=============================================================================
