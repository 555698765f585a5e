----------------------------- MODULE AiPipeline -----------------------------
(***************************************************************************)
(* The AI tools: the dispatcher of smiths-core ai.rs, which ranks the      *)
(* providers of a capability, keeps a breaker for each and fails over, and *)
(* the MCP tools of tools/pipeline.rs, tools/ai.rs and tools/media.rs that *)
(* chain dispatches and speak the result into a live call.                 *)
(*                                                                         *)
(* A breaker is two atomics that concurrent invocations read and write     *)
(* without a lock: the failure count and the time of the trip.  A tool is  *)
(* the sequence of its stages; what is said, transcribed or synthesized is *)
(* left out, except that a transcript may be empty and an utterance has    *)
(* frames.                                                                 *)
(***************************************************************************)
EXTENDS Integers, Sequences, FiniteSets, SequencesExt

CONSTANTS
    AiCallers,        \* concurrent tool calls
    AiCalls,          \* SIP calls the tools speak into
    ProvidersOf,      \* capability -> its providers, best first
    AiTools,          \* the pipelines that are called
    OpenAfter,        \* OPEN_AFTER
    OpenCooldown,     \* OPEN_COOLDOWN_SECS
    MaxAttempts,      \* DispatchPolicy::max_attempts
    Utterance,        \* frames of one synthesized utterance
    MaxToolCalls,     \* bound: tool calls
    MaxAiClock        \* bound: the clock

-----------------------------------------------------------------------------
(* The tools, each as its stages: a capability is a dispatch, "plugin" a   *)
(* call to one named provider.                                             *)

Translate == <<"ai.llm.chat">>
TranscribeCall == <<"recording", "ai.asr">>
SummarizeCall == <<"recording", "ai.asr", "transcript", "ai.llm.chat">>

(* restyle_call reads its leg after the synthesis, just before it speaks. *)
RestyleCall == <<"recording", "ai.asr", "transcript", "ai.llm.chat", "ai.tts", "leg", "decode",
                "inject">>
RestyleText == <<"transcript", "ai.llm.chat", "ai.tts">>
SearchCallsSemantic == <<"vector", "ai.embed", "vector">>

(* synthesize, transcribe, llm_chat and embed *)
DirectTool == <<"resolve", "controls", "plugin">>

(* speak reads its leg before the synthesis. *)
Speak == <<"leg", "resolve", "controls", "plugin", "decode", "inject">>
SendDtmf == <<"leg", "inject">>

Pipelines == {Translate, TranscribeCall, SummarizeCall, RestyleCall, RestyleText,
              SearchCallsSemantic, DirectTool, Speak, SendDtmf}

Capabilities == {"ai.asr", "ai.llm.chat", "ai.tts", "ai.embed"}
AiProviders == UNION {Range(ProvidersOf[k]) : k \in Capabilities}

ASSUME AiAssumption ==
    /\ DOMAIN ProvidersOf = Capabilities
    /\ \A k \in Capabilities :
         ProvidersOf[k] \in Seq(Range(ProvidersOf[k])) /\ IsInjective(ProvidersOf[k])
    /\ AiTools \subseteq Pipelines
    /\ OpenAfter \in Nat \ {0} /\ OpenCooldown \in Nat /\ MaxAttempts \in Nat \ {0}
    /\ Utterance \in Nat \ {0} /\ MaxToolCalls \in Nat /\ MaxAiClock \in Nat

VARIABLES
    unixNow,       \* the clock
    failuresOf,    \* provider -> consecutive_failures
    trippedAt,     \* provider -> tripped_at_unix, 0 when closed
    toolCall,      \* caller -> the tool call it is in
    legOf,         \* SIP call -> live or ended
    toolCalls      \* tool calls so far

breakersOfAi == <<failuresOf, trippedAt>>
aiVars == <<unixNow, breakersOfAi, toolCall, legOf, toolCalls>>

(* A tool call: the step it is in, its SIP call, the stages and frames     *)
(* left; of the dispatch it is in, the candidates not yet looked at, the   *)
(* ones found healthy and open, the trip time read last, the attempts      *)
(* left and those made.                                                    *)
NoTool == [at |-> "idle", call |-> "none", stages |-> <<>>, frames |-> 0, seen |-> 0,
           rest |-> <<>>, healthy |-> <<>>, open |-> <<>>, queue |-> <<>>, asked |-> <<>>]

AiInit ==
    /\ unixNow = 1
    /\ failuresOf = [p \in AiProviders |-> 0] /\ trippedAt = [p \in AiProviders |-> 0]
    /\ toolCall = [c \in AiCallers |-> NoTool]
    /\ legOf = [k \in AiCalls |-> "live"]
    /\ toolCalls = 0

InStep(c, step) == toolCall[c].at = step
InStage(c, stages) == InStep(c, "stage") /\ Head(toolCall[c].stages) \in stages
Becomes(c, state) == toolCall' = [toolCall EXCEPT ![c] = state]

(* The tool goes on with its next stage, or answers. *)
StageDone(c) ==
    Becomes(c, IF Len(toolCall[c].stages) = 1 THEN NoTool
               ELSE [NoTool EXCEPT !.at = "stage", !.call = toolCall[c].call,
                                   !.stages = Tail(toolCall[c].stages)])

ToolFails(c) == Becomes(c, NoTool)

-----------------------------------------------------------------------------
(* The stages of the tools *)

CallTool(c, tool, k) ==
    /\ InStep(c, "idle") /\ toolCalls < MaxToolCalls
    /\ toolCalls' = toolCalls + 1
    /\ Becomes(c, [NoTool EXCEPT !.at = "stage", !.call = k, !.stages = tool])
    /\ UNCHANGED <<unixNow, breakersOfAi, legOf>>

(* A stage that looks something up or checks an answer, and may refuse. *)
Refusable(c, stage) ==
    /\ InStage(c, {stage})
    /\ StageDone(c) \/ ToolFails(c)
    /\ UNCHANGED <<unixNow, breakersOfAi, legOf, toolCalls>>

(* The audio is inline, or in the recording store. *)
ResolveAudio(c) == Refusable(c, "recording")

(* An empty transcript is not summarized or restyled. *)
TranscriptHasText(c) == Refusable(c, "transcript")

(* The store is wired; its search answers. *)
SearchVectors(c) == Refusable(c, "vector")

(* The named provider exists, has the capability and knows the voice. *)
ResolveAndValidate(c) == Refusable(c, "resolve")

(* The controls submitted are ones it declared, of their type and range. *)
ValidateControls(c) == Refusable(c, "controls")

(* The call to that provider: no breaker, no fail-over. *)
InvokePlugin(c) == Refusable(c, "plugin")

(* The synthesis returned PCM16, which is decimated to 8 kHz. *)
DecodePcm16(c) == Refusable(c, "decode")

LiveMediaLeg(c) ==
    /\ InStage(c, {"leg"})
    /\ IF legOf[toolCall[c].call] = "live" THEN StageDone(c) ELSE ToolFails(c)
    /\ UNCHANGED <<unixNow, breakersOfAi, legOf, toolCalls>>

(* inject_pcm16_into_call and send_dtmf: a frame each 20 ms.  The fabric   *)
(* refuses a frame for the endpoint of a call that has ended.              *)
SendFrame(c) ==
    /\ InStage(c, {"inject"})
    /\ \/ /\ legOf[toolCall[c].call] = "live"
          /\ IF toolCall[c].frames + 1 = Utterance THEN StageDone(c)
             ELSE Becomes(c, [toolCall[c] EXCEPT !.frames = @ + 1])
       \/ legOf[toolCall[c].call] = "ended" /\ ToolFails(c)
    /\ UNCHANGED <<unixNow, breakersOfAi, legOf, toolCalls>>

CallEnds(k) ==
    /\ legOf[k] = "live"
    /\ legOf' = [legOf EXCEPT ![k] = "ended"]
    /\ UNCHANGED <<unixNow, breakersOfAi, toolCall, toolCalls>>

-----------------------------------------------------------------------------
(* AiDispatcher::invoke *)

(* candidates, best first, none of them examined yet. *)
DispatchInvoke(c) ==
    /\ InStage(c, Capabilities)
    /\ LET candidates == ProvidersOf[Head(toolCall[c].stages)]
       IN IF candidates = <<>> THEN ToolFails(c)
          ELSE Becomes(c, [toolCall[c] EXCEPT !.at = "examine", !.rest = candidates])
    /\ UNCHANGED <<unixNow, breakersOfAi, legOf, toolCalls>>

InOrderMut(healthy, open) ==
    SubSeq(healthy, 1, IF Len(healthy) < MaxAttempts THEN Len(healthy) ELSE MaxAttempts)

(* The attempts: the healthy candidates first, then the open ones. *)
InOrder(healthy, open) ==
    LET all == healthy \o open
    IN SubSeq(all, 1, IF Len(all) < MaxAttempts THEN Len(all) ELSE MaxAttempts)

(* The candidate just examined goes to its side of the partition. *)
Partitioned(c, side) ==
    LET t == toolCall[c]
        healthy == IF side = "healthy" THEN Append(t.healthy, Head(t.rest)) ELSE t.healthy
        open == IF side = "open" THEN Append(t.open, Head(t.rest)) ELSE t.open
        last == Len(t.rest) = 1
        queue == IF last THEN InOrder(healthy, open) ELSE <<>>
    IN Becomes(c, [t EXCEPT !.at = IF ~last THEN "examine"
                                   ELSE IF queue = <<>> THEN "all_failed" ELSE "attempt",
                            !.rest = Tail(@), !.healthy = healthy, !.open = open,
                            !.queue = queue, !.seen = 0])

(* is_open: the load of the trip time, and the clock. *)
IsOpenLoad(c) ==
    /\ InStep(c, "examine")
    /\ LET tripped == trippedAt[Head(toolCall[c].rest)]
       IN IF tripped = 0 THEN Partitioned(c, "healthy")
          ELSE IF unixNow - tripped < OpenCooldown THEN Partitioned(c, "open")
          ELSE Becomes(c, [toolCall[c] EXCEPT !.at = "expired", !.seen = tripped])
    /\ UNCHANGED <<unixNow, breakersOfAi, legOf, toolCalls>>

(* is_open: the compare-exchange that closes an expired breaker. *)
IsOpenClose(c) ==
    /\ InStep(c, "expired")
    /\ LET p == Head(toolCall[c].rest)
       IN IF trippedAt[p] = toolCall[c].seen
          THEN /\ trippedAt' = [trippedAt EXCEPT ![p] = 0]
               /\ Becomes(c, [toolCall[c] EXCEPT !.at = "fresh_budget"])
          ELSE Partitioned(c, "healthy") /\ UNCHANGED trippedAt
    /\ UNCHANGED <<unixNow, failuresOf, legOf, toolCalls>>

(* is_open: the store that follows the compare-exchange. *)
IsOpenReset(c) ==
    /\ InStep(c, "fresh_budget")
    /\ failuresOf' = [failuresOf EXCEPT ![Head(toolCall[c].rest)] = 0]
    /\ Partitioned(c, "healthy")
    /\ UNCHANGED <<unixNow, trippedAt, legOf, toolCalls>>

(* A provider answers; record_success stores twice. *)
AttemptSucceeds(c) ==
    /\ InStep(c, "attempt")
    /\ failuresOf' = [failuresOf EXCEPT ![Head(toolCall[c].queue)] = 0]
    /\ Becomes(c, [toolCall[c] EXCEPT !.at = "close"])
    /\ UNCHANGED <<unixNow, trippedAt, legOf, toolCalls>>

RecordSuccessClose(c) ==
    /\ InStep(c, "close")
    /\ trippedAt' = [trippedAt EXCEPT ![Head(toolCall[c].queue)] = 0]
    /\ StageDone(c)
    /\ UNCHANGED <<unixNow, failuresOf, legOf, toolCalls>>

(* The loop goes on with the next attempt, or gives up. *)
NextAttempt(c) ==
    LET t == toolCall[c]
    IN Becomes(c, [t EXCEPT !.at = IF Len(t.queue) = 1 THEN "all_failed" ELSE "attempt",
                            !.queue = Tail(@), !.asked = Append(@, Head(t.queue))])

(* A provider fails or times out; record_failure counts, then trips. *)
AttemptFails(c) ==
    /\ InStep(c, "attempt")
    /\ LET p == Head(toolCall[c].queue)
       IN /\ failuresOf' = [failuresOf EXCEPT ![p] = @ + 1]
          /\ IF failuresOf[p] + 1 >= OpenAfter
             THEN Becomes(c, [toolCall[c] EXCEPT !.at = "trip"])
             ELSE NextAttempt(c)
    /\ UNCHANGED <<unixNow, trippedAt, legOf, toolCalls>>

RecordFailureTrip(c) ==
    /\ InStep(c, "trip")
    /\ trippedAt' = [trippedAt EXCEPT ![Head(toolCall[c].queue)] = unixNow]
    /\ NextAttempt(c)
    /\ UNCHANGED <<unixNow, failuresOf, legOf, toolCalls>>

(* DispatchError::AllFailed ends the tool call. *)
AllFailed(c) ==
    /\ InStep(c, "all_failed")
    /\ ToolFails(c)
    /\ UNCHANGED <<unixNow, breakersOfAi, legOf, toolCalls>>

AiClockTicks ==
    /\ unixNow < MaxAiClock
    /\ unixNow' = unixNow + 1
    /\ UNCHANGED <<breakersOfAi, toolCall, legOf, toolCalls>>

AiNext ==
    \/ \E c \in AiCallers, tool \in AiTools, k \in AiCalls : CallTool(c, tool, k)
    \/ \E c \in AiCallers :
         \/ ResolveAudio(c) \/ TranscriptHasText(c) \/ SearchVectors(c)
         \/ ResolveAndValidate(c) \/ ValidateControls(c) \/ InvokePlugin(c)
         \/ DecodePcm16(c) \/ LiveMediaLeg(c) \/ SendFrame(c)
         \/ DispatchInvoke(c) \/ IsOpenLoad(c) \/ IsOpenClose(c) \/ IsOpenReset(c)
         \/ AttemptSucceeds(c) \/ RecordSuccessClose(c)
         \/ AttemptFails(c) \/ RecordFailureTrip(c) \/ AllFailed(c)
    \/ \E k \in AiCalls : CallEnds(k)
    \/ AiClockTicks

AiSpec == AiInit /\ [][AiNext]_aiVars

-----------------------------------------------------------------------------
(* Whatever other invocations do to the breakers meanwhile, an invocation  *)
(* gives up only when it asked as many candidates as max_attempts allows   *)
(* or every one whose breaker it found closed (every one at all, if it     *)
(* found them all open), none of them twice, and an open one only after    *)
(* every closed one had failed it (AiDispatcher::invoke, is_open).  The    *)
(* dispatcher's doc says open ones are skipped unless all are open, while  *)
(* the code asks them last; whether they are is left open here.            *)
GivesUpLast ==
    \A c \in AiCallers : InStep(c, "all_failed") =>
        LET t == toolCall[c]
            candidates == Range(ProvidersOf[Head(t.stages)])
            asked == Range(t.asked)
            closed == Range(t.healthy)
        IN /\ asked \subseteq candidates
           /\ Len(t.asked) = Cardinality(asked)
           /\ Len(t.asked) = MaxAttempts \/ closed \subseteq asked
           /\ closed = {} => Len(t.asked) = MaxAttempts \/ asked = candidates
           /\ asked \cap Range(t.open) # {} => closed \subseteq asked
           /\ closed \cup Range(t.open) = candidates

=============================================================================
