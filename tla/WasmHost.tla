------------------------------ MODULE WasmHost ------------------------------
(***************************************************************************)
(* The WASM tier (smiths-wasm engine.rs and host.rs, smiths-plugin         *)
(* wasm_provider.rs): guests of one plugin that run at the same time on    *)
(* the blocking pool, each in a store of its own, with fuel, an epoch      *)
(* deadline, the permissions the manifest declared and the host functions, *)
(* and what they share: the epoch counter, the plugin's key-value store    *)
(* and its byte budget, the outbound RTP queue and the tasks they spawn.   *)
(*                                                                         *)
(* What a guest computes is left out: it may call any host function, grow  *)
(* its memory, return, or run on until a limit stops it.                   *)
(***************************************************************************)
EXTENDS Integers, FiniteSets, FiniteSetsExt

CONSTANTS
    WasmGuests,       \* blocking-pool threads that run a guest
    StateKeys,        \* keys of the store
    EntrySizes,       \* key.len + value.len of an entry
    StateBudget,      \* state_budget_bytes
    EpochTickMs,      \* EPOCH_TICK
    GuestDeadlines,   \* wall-clock deadlines of the calls
    GuestFuel,        \* fuel: host calls a guest can make
    RtpCapacity,      \* RTP_QUEUE_CAPACITY
    WasmPermissions,  \* permission sets a manifest may declare
    MaxWasmMs,        \* bound: the clock
    MaxWasmInvokes        \* bound: calls

ASSUME WasmAssumption ==
    /\ EntrySizes \subseteq Nat \ {0} /\ StateBudget \in Nat
    /\ EpochTickMs \in Nat \ {0} /\ GuestDeadlines \subseteq Nat
    /\ GuestFuel \in Nat /\ RtpCapacity \in Nat \ {0}
    /\ MaxWasmMs \in Nat /\ MaxWasmInvokes \in Nat

VARIABLES
    wasmMs,        \* wall clock
    epoch,         \* the engine's epoch
    tickedAt,      \* when the ticker went to sleep
    declared,      \* permissions of the plugin
    kv,            \* key -> size of its entry, 0 when there is none
    used,          \* bytes charged
    guests,        \* thread -> the store it runs
    rtpQueue,      \* packets queued
    draining,      \* the drain task was started
    spawned,       \* timers and call attempts spawned by guests
    wasmCalls        \* calls so far

wasmVars == <<wasmMs, epoch, tickedAt, declared, kv, used, guests, rtpQueue, draining, spawned,
              wasmCalls>>
wasmClock == <<wasmMs, epoch, tickedAt>>
wasmStore == <<kv, used>>
wasmOut == <<rtpQueue, draining, spawned>>

NoGuest == [at |-> "idle", armed |-> 0, deadline |-> 0, stop |-> 0, fuel |-> 0, perms |-> {},
            key |-> "none", size |-> 0, previous |-> 0]

WasmInit ==
    /\ wasmMs = 0 /\ epoch = 0 /\ tickedAt = 0
    /\ declared = {}
    /\ kv = [k \in StateKeys |-> 0] /\ used = 0
    /\ guests = [g \in WasmGuests |-> NoGuest]
    /\ rtpQueue = 0 /\ draining = FALSE /\ spawned = 0 /\ wasmCalls = 0

Guest(g, state) == guests' = [guests EXCEPT ![g] = state]
GuestAt(g, step) == guests[g].at = step
GuestEnds(g) == Guest(g, NoGuest)

-----------------------------------------------------------------------------
(* WasmEngine *)

(* One tick more than the deadline needs, for the tick in progress. *)
TicksFor(deadline) == (deadline + EpochTickMs - 1) \div EpochTickMs + 1

(* new_store: what the guest gets is fixed when its store is built. *)
NewStore(g, deadline, perms) ==
    Guest(g, [NoGuest EXCEPT !.at = "runs", !.armed = wasmMs, !.deadline = deadline,
                             !.stop = epoch + TicksFor(deadline), !.fuel = GuestFuel,
                             !.perms = perms])

(* WasmProvider::load declares the permissions, then runs `describe`. *)
LoadModule(g, perms, deadline) ==
    /\ GuestAt(g, "idle") /\ wasmCalls < MaxWasmInvokes
    /\ wasmCalls' = wasmCalls + 1
    /\ declared' = perms
    /\ NewStore(g, deadline, perms)
    /\ UNCHANGED <<wasmClock, wasmStore, wasmOut>>

(* run_with_deadline; `invoke` differs in what it passes to the guest. *)
RunWithDeadline(g, deadline) ==
    /\ GuestAt(g, "idle") /\ wasmCalls < MaxWasmInvokes
    /\ wasmCalls' = wasmCalls + 1
    /\ NewStore(g, deadline, declared)
    /\ UNCHANGED <<wasmClock, declared, wasmStore, wasmOut>>

CallInvoke(g) == \E deadline \in GuestDeadlines : RunWithDeadline(g, deadline)

(* The guest returns, traps on its own, or grows past the memory cap. *)
GuestReturns(g) ==
    /\ GuestAt(g, "runs") \/ GuestAt(g, "timed_out")
    /\ GuestEnds(g)
    /\ UNCHANGED <<wasmClock, declared, wasmStore, wasmOut, wasmCalls>>

(* The epoch check of the guest's own code; a host function runs to its    *)
(* end first.                                                              *)
EpochTrap(g) ==
    /\ GuestAt(g, "runs") /\ epoch >= guests[g].stop
    /\ Guest(g, [guests[g] EXCEPT !.at = "timed_out"])
    /\ UNCHANGED <<wasmClock, declared, wasmStore, wasmOut, wasmCalls>>

(* The ticker sleeps for at least EPOCH_TICK. *)
IncrementEpoch ==
    /\ wasmMs - tickedAt >= EpochTickMs
    /\ epoch' = epoch + 1 /\ tickedAt' = wasmMs
    /\ UNCHANGED <<wasmMs, declared, wasmStore, guests, wasmOut, wasmCalls>>

WallClock ==
    /\ wasmMs < MaxWasmMs
    /\ wasmMs' = wasmMs + 1
    /\ UNCHANGED <<epoch, tickedAt, declared, wasmStore, guests, wasmOut, wasmCalls>>

-----------------------------------------------------------------------------
(* The host functions.  Each needs its permission, and costs fuel.         *)

HostCall(g) == GuestAt(g, "runs") /\ guests[g].fuel > 0
Burnt(g) == [guests[g] EXCEPT !.fuel = @ - 1]
Require(g, permission) == HostCall(g) /\ permission \in guests[g].perms

PermissionDenied(g, permission) ==
    /\ HostCall(g) /\ permission \notin guests[g].perms
    /\ GuestEnds(g)
    /\ UNCHANGED <<wasmClock, declared, wasmStore, wasmOut, wasmCalls>>

(* log, which needs none. *)
HostLog(g) ==
    /\ HostCall(g)
    /\ Guest(g, Burnt(g))
    /\ UNCHANGED <<wasmClock, declared, wasmStore, wasmOut, wasmCalls>>

Locked(k) == \E g \in WasmGuests : guests[g].at \in {"locked", "reserved"} /\ guests[g].key = k

StateSetMut(g, k, size) ==
    /\ Require(g, "state")
    /\ Guest(g, [Burnt(g) EXCEPT !.at = "locked", !.key = k, !.size = size, !.previous = kv[k]])
    /\ UNCHANGED <<wasmClock, declared, wasmStore, wasmOut, wasmCalls>>

(* PluginStore::insert holds the entry of the key from here to the write. *)
StateSet(g, k, size) ==
    /\ Require(g, "state") /\ ~Locked(k)
    /\ Guest(g, [Burnt(g) EXCEPT !.at = "locked", !.key = k, !.size = size, !.previous = kv[k]])
    /\ UNCHANGED <<wasmClock, declared, wasmStore, wasmOut, wasmCalls>>

(* saturating_sub, then the delta. *)
Charged(g) ==
    LET rest == used - guests[g].previous
    IN (IF rest < 0 THEN 0 ELSE rest) + guests[g].size

InsertReserves(g) ==
    /\ GuestAt(g, "locked") /\ Charged(g) <= StateBudget
    /\ used' = Charged(g)
    /\ Guest(g, [guests[g] EXCEPT !.at = "reserved"])
    /\ UNCHANGED <<wasmClock, declared, kv, wasmOut, wasmCalls>>

BudgetExceeded(g) ==
    /\ GuestAt(g, "locked") /\ Charged(g) > StateBudget
    /\ GuestEnds(g)
    /\ UNCHANGED <<wasmClock, declared, wasmStore, wasmOut, wasmCalls>>

InsertWrites(g) ==
    /\ GuestAt(g, "reserved")
    /\ kv' = [kv EXCEPT ![guests[g].key] = guests[g].size]
    /\ Guest(g, [guests[g] EXCEPT !.at = "runs", !.key = "none", !.size = 0, !.previous = 0])
    /\ UNCHANGED <<wasmClock, declared, used, wasmOut, wasmCalls>>

(* A read waits for a write of the same entry. *)
StateGet(g, k) ==
    /\ Require(g, "state") /\ ~Locked(k)
    /\ Guest(g, Burnt(g))
    /\ UNCHANGED <<wasmClock, declared, wasmStore, wasmOut, wasmCalls>>

(* publish_event tells the bus; nobody may be listening. *)
PublishEvent(g) ==
    /\ Require(g, "events")
    /\ Guest(g, Burnt(g))
    /\ UNCHANGED <<wasmClock, declared, wasmStore, wasmOut, wasmCalls>>

(* timer_set, originate and hangup spawn a task that outlives the guest. *)
SpawnsTask(g) ==
    /\ Guest(g, Burnt(g))
    /\ spawned' = spawned + 1
    /\ UNCHANGED <<wasmClock, declared, wasmStore, rtpQueue, draining, wasmCalls>>

TimerSet(g) == Require(g, "timers") /\ SpawnsTask(g)
Originate(g) == Require(g, "send_sip") /\ SpawnsTask(g)
Hangup(g) == Require(g, "send_sip") /\ SpawnsTask(g)

TaskRuns ==
    /\ spawned > 0
    /\ spawned' = spawned - 1
    /\ UNCHANGED <<wasmClock, declared, wasmStore, guests, rtpQueue, draining, wasmCalls>>

(* The call has media: the drain task starts once, a full queue drops. *)
SendRtp(g) ==
    /\ Require(g, "send_rtp")
    /\ Guest(g, Burnt(g))
    /\ draining' = TRUE
    /\ rtpQueue' = IF rtpQueue < RtpCapacity THEN rtpQueue + 1 ELSE rtpQueue
    /\ UNCHANGED <<wasmClock, declared, wasmStore, spawned, wasmCalls>>

DrainRtp ==
    /\ draining /\ rtpQueue > 0
    /\ rtpQueue' = rtpQueue - 1
    /\ UNCHANGED <<wasmClock, declared, wasmStore, guests, draining, spawned, wasmCalls>>

WasmNext ==
    \/ \E g \in WasmGuests, d \in GuestDeadlines, perms \in WasmPermissions :
         LoadModule(g, perms, d)
    \/ \E g \in WasmGuests :
         \/ CallInvoke(g)
         \/ GuestReturns(g) \/ EpochTrap(g)
         \/ HostLog(g) \/ PublishEvent(g) \/ TimerSet(g) \/ Originate(g) \/ Hangup(g) \/ SendRtp(g)
         \/ InsertReserves(g) \/ BudgetExceeded(g) \/ InsertWrites(g)
         \/ \E k \in StateKeys : StateGet(g, k) \/ \E size \in EntrySizes : StateSet(g, k, size)
         \/ \E permission \in {"state", "events", "timers", "send_rtp", "send_sip"} :
              PermissionDenied(g, permission)
    \/ IncrementEpoch \/ WallClock \/ TaskRuns \/ DrainRtp

WasmSpec == WasmInit /\ [][WasmNext]_wasmVars

-----------------------------------------------------------------------------
(* Whatever writes of whatever keys overlap, the bytes charged are those   *)
(* of the entries, plus the difference each reserved write will make, and  *)
(* never more than the budget: no write is charged or refunded twice.      *)
StateBudgetExact ==
    /\ used <= StateBudget
    /\ used = MapThenSumSet(LAMBDA k : kv[k], StateKeys)
                + MapThenSumSet(LAMBDA g : guests[g].size - guests[g].previous,
                                {g \in WasmGuests : GuestAt(g, "reserved")})

(* "a guest always gets at least `deadline`": a guest that the epoch stops *)
(* had run for its whole deadline, wherever in a tick it was armed.        *)
NeverCutShort ==
    \A g \in WasmGuests :
        GuestAt(g, "timed_out") => wasmMs - guests[g].armed >= guests[g].deadline

(* Guests pay for exactly the state they keep and get at least the time    *)
(* they were promised (host.rs, engine.rs).                                *)
GuestsMetered == StateBudgetExact /\ NeverCutShort
=============================================================================
