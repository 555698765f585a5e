----------------------------- MODULE RateLimits -----------------------------
(***************************************************************************)
(* The two token-bucket limiters: per source address in front of the UAS   *)
(* (smiths-sip rate_limit.rs), shared by every SIP listener, and per       *)
(* (caller, tool) in front of the tools (smiths-mcp rate_limit.rs).        *)
(*                                                                         *)
(* The SIP limiter reads its thresholds, the clock and the table's size    *)
(* before it takes the bucket, so other listeners, an idle sweep or a      *)
(* reconfiguration run in between.  The tool limiter reads the clock under *)
(* the bucket's lock.  Rates are tokens per tick of `ticks`.               *)
(***************************************************************************)
EXTENDS Integers, FiniteSets

CONSTANTS
    Listeners,    \* SIP listeners sharing one limiter
    Sources,      \* source addresses
    Thresholds,   \* configurations: [rate, burst]
    MaxSources,   \* with_max_sources
    GcEvery,      \* GC_EVERY_CALLS
    ToolTasks,    \* tasks invoking tools
    ToolCallers,  \* caller identities
    ToolRate, ToolCapacity, MaxBuckets,
    MaxTicks,     \* bound: the clock
    MaxReconfigs, \* bound: reconfigurations
    MaxCalls      \* bound: calls of the limiters

ASSUME RateLimitsAssumption ==
    /\ \A t \in Thresholds : t.rate \in Nat /\ t.burst \in Nat
    /\ {MaxSources, GcEvery, ToolRate, ToolCapacity, MaxBuckets} \subseteq Nat \ {0}
    /\ {MaxTicks, MaxReconfigs, MaxCalls} \subseteq Nat

VARIABLES
    ticks, limit, halfSet, buckets, gcCalls, listener,
    toolBuckets, toolTask, limiterCalls, reconfigs,
    admitted,   \* metered admissions of each source in this epoch
    since,      \* when the epoch began: the thresholds were changed, or acted on from before
    lag,        \* ticks listeners spent between the clock and each source's bucket
    toolAdmits  \* admissions charged to each tool bucket

limitVars == <<ticks, limit, halfSet, buckets, gcCalls, listener, toolBuckets, toolTask,
               limiterCalls, reconfigs, admitted, since, lag, toolAdmits>>

Waiting == [step |-> "idle"]
Everyone == "everyone"            \* caller = None: the tool's global bucket
Larger(a, b) == IF a > b THEN a ELSE b
Smaller(a, b) == IF a < b THEN a ELSE b
None == [on |-> FALSE, tokens |-> 0, last |-> 0]

(* `burst == 0` falls back to `per_sec`. *)
Effective(t) == [rate |-> t.rate, burst |-> IF t.burst = 0 THEN t.rate ELSE t.burst]

SipLimitInit ==
    /\ limit = [rate |-> 0, burst |-> 0] /\ halfSet = FALSE
    /\ buckets = [s \in Sources |-> None] /\ gcCalls = 0
    /\ listener = [l \in Listeners |-> Waiting]
    /\ admitted = [s \in Sources |-> 0] /\ since = 0
    /\ lag = [s \in Sources |-> 0]

ToolLimitInit ==
    /\ toolBuckets = [c \in ToolCallers \cup {Everyone} |-> None]
    /\ toolTask = [t \in ToolTasks |-> Waiting]
    /\ toolAdmits = [c \in ToolCallers \cup {Everyone} |-> 0]

LimitInit ==
    /\ SipLimitInit /\ ToolLimitInit
    /\ ticks = 0 /\ limiterCalls = 0 /\ reconfigs = 0

Tracked(table) == Cardinality({k \in DOMAIN table : table[k].on})

(* Elapsed time times rate, clamped at the depth; a clock reading older    *)
(* than the bucket's counts as no time.                                    *)
Refill(b, now, rate, depth) ==
    Smaller(b.tokens + Larger(now - b.last, 0) * rate, depth)

(* What `entry.last = now` leaves behind. *)
Charge(b, now, rate, depth) ==
    LET t == Refill(b, now, rate, depth)
    IN  [on |-> TRUE, tokens |-> IF t >= 1 THEN t - 1 ELSE t, last |-> now]

-----------------------------------------------------------------------------
NewEpoch ==
    /\ since' = ticks
    /\ admitted' = [s \in Sources |-> 0]
    /\ lag' = [s \in Sources |-> 0]

(* reconfigure: two stores. *)
SetRate(t) ==
    /\ ~halfSet /\ reconfigs < MaxReconfigs
    /\ Effective(t) # limit
    /\ limit' = [limit EXCEPT !.rate = t.rate]
    /\ halfSet' = TRUE /\ reconfigs' = reconfigs + 1
    /\ NewEpoch
    /\ UNCHANGED <<ticks, buckets, gcCalls, listener, toolBuckets, toolTask, limiterCalls, toolAdmits>>

SetBurst(t) ==
    /\ halfSet /\ t.rate = limit.rate
    /\ limit' = Effective(t) /\ halfSet' = FALSE
    /\ NewEpoch
    /\ UNCHANGED <<ticks, buckets, gcCalls, listener, toolBuckets, toolTask, limiterCalls,
                   reconfigs, toolAdmits>>

EvictIdleMut(now) ==
    [s \in Sources |-> IF (now - buckets[s].last) * limit.rate * 2 < limit.burst THEN buckets[s] ELSE None]

(* evict_idle: buckets idle long enough to be full again. *)
EvictIdle(now) ==
    [s \in Sources |-> IF limit.rate # 0 /\ (now - buckets[s].last) * limit.rate < limit.burst
                       THEN buckets[s] ELSE None]

(* allow: a disabled limiter admits at once; every GcEvery-th call sweeps. *)
Allow(l, s) ==
    /\ listener[l].step = "idle" /\ limiterCalls < MaxCalls
    /\ limiterCalls' = limiterCalls + 1
    /\ IF limit.rate = 0
       THEN UNCHANGED <<buckets, gcCalls, listener>>
       ELSE /\ gcCalls' = IF gcCalls + 1 >= GcEvery THEN 0 ELSE gcCalls + 1
            /\ buckets' = IF gcCalls + 1 >= GcEvery THEN EvictIdle(ticks) ELSE buckets
            /\ listener' = [listener EXCEPT ![l] =
                 [step |-> "look", source |-> s, rate |-> limit.rate]]
    /\ UNCHANGED <<ticks, limit, halfSet, toolBuckets, toolTask, reconfigs, admitted, since,
                   lag, toolAdmits>>

(* The burst, the clock and the occupancy, before the entry is taken. *)
Look(l) ==
    /\ listener[l].step = "look"
    /\ listener' = [listener EXCEPT ![l] =
         [step |-> "take", source |-> listener[l].source, rate |-> listener[l].rate,
          burst |-> limit.burst, now |-> ticks,
          full |-> Tracked(buckets) >= MaxSources]]
    /\ UNCHANGED <<ticks, limit, halfSet, buckets, gcCalls, toolBuckets, toolTask, limiterCalls,
                   reconfigs, admitted, since, lag, toolAdmits>>

(* A newcomer to a full table is shed. *)
TakeToken(l) ==
    LET c == listener[l]
        b == IF buckets[c.source].on THEN buckets[c.source]
             ELSE [on |-> TRUE, tokens |-> c.burst, last |-> c.now]
        shed == ~buckets[c.source].on /\ c.full
    IN  /\ c.step = "take"
        /\ listener' = [listener EXCEPT ![l] = Waiting]
        /\ buckets' = IF shed THEN buckets
                      ELSE [buckets EXCEPT ![c.source] = Charge(b, c.now, c.rate, c.burst)]
        /\ \/ [rate |-> c.rate, burst |-> c.burst] # limit /\ NewEpoch
           \/ /\ [rate |-> c.rate, burst |-> c.burst] = limit
              /\ admitted' = [admitted EXCEPT ![c.source] =
                   @ + IF ~shed /\ Refill(b, c.now, c.rate, c.burst) >= 1 THEN 1 ELSE 0]
              /\ lag' = [lag EXCEPT ![c.source] = @ + ticks - c.now]
              /\ UNCHANGED since
        /\ UNCHANGED <<ticks, limit, halfSet, gcCalls, toolBuckets, toolTask, limiterCalls,
                       reconfigs, toolAdmits>>

-----------------------------------------------------------------------------
(* sweep_idle. *)
SweepIdle ==
    [c \in DOMAIN toolBuckets |->
       IF c = Everyone \/ (ticks - toolBuckets[c].last) * ToolRate < ToolCapacity
       THEN toolBuckets[c] ELSE None]

(* resolve_key: a new key needs room, after a sweep if the map is full. *)
ResolveKey(t, c) ==
    /\ toolTask[t].step = "idle" /\ limiterCalls < MaxCalls
    /\ limiterCalls' = limiterCalls + 1
    /\ LET known == c = Everyone \/ toolBuckets[c].on
           swept == IF ~known /\ Tracked(toolBuckets) >= MaxBuckets THEN SweepIdle ELSE toolBuckets
           key   == IF known \/ Tracked(swept) < MaxBuckets THEN c ELSE Everyone
       IN  /\ toolBuckets' = swept
           /\ toolTask' = [toolTask EXCEPT ![t] = [step |-> "charge", key |-> key]]
    /\ UNCHANGED <<ticks, limit, halfSet, buckets, gcCalls, listener, reconfigs, admitted, since,
                   lag, toolAdmits>>

(* try_acquire_for: the entry is created, or found, and charged under its  *)
(* locks.                                                                  *)
TryAcquire(t) ==
    LET k == toolTask[t].key
        b == IF toolBuckets[k].on THEN toolBuckets[k]
             ELSE [on |-> TRUE, tokens |-> ToolCapacity, last |-> ticks]
    IN  /\ toolTask[t].step = "charge"
        /\ toolBuckets' = [toolBuckets EXCEPT ![k] = Charge(b, ticks, ToolRate, ToolCapacity)]
        /\ toolAdmits' = [toolAdmits EXCEPT ![k] =
             @ + IF Refill(b, ticks, ToolRate, ToolCapacity) >= 1 THEN 1 ELSE 0]
        /\ toolTask' = [toolTask EXCEPT ![t] = Waiting]
        /\ UNCHANGED <<ticks, limit, halfSet, buckets, gcCalls, listener, limiterCalls, reconfigs,
                       admitted, since, lag>>

TickOver ==
    /\ ticks < MaxTicks
    /\ ticks' = ticks + 1
    /\ UNCHANGED <<limit, halfSet, buckets, gcCalls, listener, toolBuckets, toolTask, limiterCalls,
                   reconfigs, admitted, since, lag, toolAdmits>>

SipLimitNext ==
    \/ TickOver
    \/ \E t \in Thresholds : SetRate(t) \/ SetBurst(t)
    \/ \E l \in Listeners : Look(l) \/ TakeToken(l) \/ \E s \in Sources : Allow(l, s)

ToolLimitNext ==
    \/ TickOver
    \/ \E t \in ToolTasks : TryAcquire(t) \/ \E c \in ToolCallers \cup {Everyone} : ResolveKey(t, c)

LimitNext == SipLimitNext \/ ToolLimitNext

LimitSpec == LimitInit /\ [][LimitNext]_limitVars

-----------------------------------------------------------------------------
(* While no listener acts on other thresholds than the ones in force a     *)
(* source passes at most a burst and the refill of the elapsed time,       *)
(* whatever was swept or shed and however often the thresholds were        *)
(* changed before.  Time a listener spends between reading the clock and   *)
(* taking the bucket may be refilled twice, since the bucket's instant     *)
(* moves back; the source gains no more than that (allow, evict_idle).     *)
SourcesMetered ==
    ~halfSet => \A s \in Sources :
        admitted[s] <= limit.burst + limit.rate * (ticks - since + lag[s])

(* No identity passes more than the capacity and the refill through its    *)
(* own bucket although idle buckets are swept and made anew, and minting   *)
(* identities does not grow the map beyond its bound, the global bucket    *)
(* and the racing tasks (try_acquire_for, resolve_key, sweep_idle).        *)
ToolsMetered ==
    /\ \A c \in DOMAIN toolBuckets : toolAdmits[c] <= ToolCapacity + ToolRate * ticks
    /\ Tracked(toolBuckets) <= MaxBuckets + Cardinality(ToolTasks)

(* Neither limiter lets anybody through more often than the thresholds in  *)
(* force allow, but for the refill of the time a SIP listener was held up  *)
(* between clock and bucket, with full tables, sweeps and thresholds       *)
(* changed before (rate_limit.rs of the SIP and of the control side).      *)
CallersMetered == SourcesMetered /\ ToolsMetered
=============================================================================
