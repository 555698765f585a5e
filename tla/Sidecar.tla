------------------------------ MODULE Sidecar ------------------------------
(***************************************************************************)
(* The supervisor of one sidecar plugin and the calls made through it      *)
(* (crates/smiths-sidecar/src/supervisor.rs).                              *)
(*                                                                         *)
(* Callers insert a pending entry, then take the process mutex, write the  *)
(* request to the child's stdin while holding it, and wait for the answer  *)
(* under a timeout.  The reader task hands answers over; when it ends the  *)
(* supervisor kills the child, takes the stdin handle away, fails what is  *)
(* pending and respawns the child within the restart budget.  shutdown is  *)
(* one more caller.                                                        *)
(***************************************************************************)
EXTENDS Naturals, FiniteSets

CONSTANTS
    Callers,      \* callers of Sidecar::call, one call each
    Shutter,      \* the caller of Sidecar::shutdown
    MaxRetries,   \* RestartPolicy::max_retries
    MaxGen        \* children spawned; later spawns fail (bound)

ASSUME CallersAssumption == IsFiniteSet(Callers) /\ Shutter \notin Callers
ASSUME BudgetAssumption == MaxRetries \in Nat /\ MaxGen \in Nat \ {0}

All == Callers \cup {Shutter}
NoOne == "nobody"
ASSUME NobodyAssumption == NoOne \notin All

VARIABLES
    call,       \* [All -> progress of the call]
    pending,    \* callers with an entry in the pending map
    answered,   \* callers whose oneshot holds an answer
    asked,      \* [All -> generation of the child that got the request, or 0]
    lock,       \* holder of the process mutex, or NoOne
    process,    \* the stdin handle: generation of its child, or 0
    gen,        \* generation of the last child spawned
    up,         \* whether that child runs
    stalled,    \* whether it has stopped reading its stdin
    outbox,     \* answers on its stdout the reader has not read
    sup,        \* the supervisor
    attempts,   \* restart attempts since the last healthy child
    healthy,    \* whether the last child stayed up for min_uptime
    cancelled,  \* the shutdown token
    wasted      \* history: restarts since a child was healthy

callVars == <<call, pending, answered, asked>>
childVars == <<gen, up, stalled, outbox>>
supVars == <<sup, attempts, healthy, wasted>>
vars == <<callVars, lock, process, childVars, supVars, cancelled>>

TypeOK ==
    /\ call \in [All -> {"new", "locking", "writing", "waiting", "answer", "closed", "io",
                         "timeout", "cancelled", "joined", "cleared", "done"}]
    /\ pending \subseteq All
    /\ answered \subseteq All
    /\ asked \in [All -> 0 .. MaxGen]
    /\ lock \in All \cup {NoOne}
    /\ process \in 0 .. MaxGen
    /\ gen \in 0 .. MaxGen
    /\ up \in BOOLEAN
    /\ stalled \in BOOLEAN
    /\ outbox \subseteq All
    /\ sup \in {"run", "clear", "fail", "sleep", "spawn", "install", "done"}
    /\ attempts \in 0 .. MaxRetries + 1
    /\ healthy \in BOOLEAN
    /\ cancelled \in BOOLEAN
    /\ wasted \in Nat

(* spawn_with_options: the first child is up before anyone may call. *)
Init ==
    /\ call = [c \in All |-> "new"]
    /\ pending = {}
    /\ answered = {}
    /\ asked = [c \in All |-> 0]
    /\ lock = NoOne
    /\ process = 1
    /\ gen = 1
    /\ up = TRUE
    /\ stalled = FALSE
    /\ outbox = {}
    /\ sup = "run"
    /\ attempts = 0
    /\ healthy = FALSE
    /\ cancelled = FALSE
    /\ wasted = 0

To(c, pc) == call' = [call EXCEPT ![c] = pc]

-----------------------------------------------------------------------------
(* call_with_timeout *)

CallBegins(c) ==
    /\ call[c] = "new"
    /\ pending' = pending \cup {c}
    /\ To(c, "locking")
    /\ UNCHANGED <<answered, asked, lock, process, childVars, supVars, cancelled>>

(* The process mutex: without a child the entry is removed again. *)
Locks(c) ==
    /\ call[c] = "locking"
    /\ lock = NoOne
    /\ IF process = 0
       THEN pending' = pending \ {c} /\ To(c, "closed") /\ UNCHANGED lock
       ELSE lock' = c /\ To(c, "writing") /\ UNCHANGED pending
    /\ UNCHANGED <<answered, asked, process, childVars, supVars, cancelled>>

(* The whole frame is written; a child that is gone may not have read it.  *)
Writes(c) ==
    /\ call[c] = "writing"
    /\ up => ~stalled
    /\ asked' = [asked EXCEPT ![c] = process]
    /\ lock' = NoOne
    /\ To(c, "waiting")
    /\ UNCHANGED <<pending, answered, process, childVars, supVars, cancelled>>

(* The pipe is broken. *)
WriteFails(c) ==
    /\ call[c] = "writing"
    /\ ~up
    /\ pending' = pending \ {c}
    /\ lock' = NoOne
    /\ To(c, "io")
    /\ UNCHANGED <<answered, asked, process, childVars, supVars, cancelled>>

(* The answer is there, or the sender was dropped. *)
Wakes(c) ==
    /\ call[c] = "waiting"
    /\ c \in answered \/ c \notin pending
    /\ To(c, IF c \in answered THEN "answer" ELSE "closed")
    /\ UNCHANGED <<pending, answered, asked, lock, process, childVars, supVars, cancelled>>

TimesOut(c) ==
    /\ call[c] = "waiting"
    /\ c \notin answered
    /\ pending' = pending \ {c}
    /\ To(c, "timeout")
    /\ UNCHANGED <<answered, asked, lock, process, childVars, supVars, cancelled>>

Returned == {"answer", "closed", "io", "timeout"}

-----------------------------------------------------------------------------
(* shutdown, after its courtesy call has returned *)

Cancels ==
    /\ call[Shutter] \in Returned
    /\ cancelled' = TRUE
    /\ To(Shutter, "cancelled")
    /\ UNCHANGED <<pending, answered, asked, lock, process, childVars, supVars>>

Joins ==
    /\ call[Shutter] = "cancelled"
    /\ sup = "done"
    /\ To(Shutter, "joined")
    /\ UNCHANGED <<pending, answered, asked, lock, process, childVars, supVars, cancelled>>

DropsProcess ==
    /\ call[Shutter] = "joined"
    /\ lock = NoOne
    /\ process' = 0
    /\ To(Shutter, "cleared")
    /\ UNCHANGED <<pending, answered, asked, lock, childVars, supVars, cancelled>>

ShutdownEnds ==
    /\ call[Shutter] = "cleared"
    /\ pending' = {}
    /\ To(Shutter, "done")
    /\ UNCHANGED <<answered, asked, lock, process, childVars, supVars, cancelled>>

-----------------------------------------------------------------------------
(* The child and the stdout reader *)

ChildAnswers(c) ==
    /\ up
    /\ asked[c] = gen
    /\ c \notin outbox \cup answered
    /\ outbox' = outbox \cup {c}
    /\ UNCHANGED <<callVars, lock, process, gen, up, stalled, supVars, cancelled>>

ChildCrashes ==
    /\ up
    /\ up' = FALSE
    /\ UNCHANGED <<callVars, lock, process, gen, stalled, outbox, supVars, cancelled>>

ChildStalls ==
    /\ up
    /\ ~stalled
    /\ stalled' = TRUE
    /\ UNCHANGED <<callVars, lock, process, gen, up, outbox, supVars, cancelled>>

(* deliver: a response wakes its caller; one to an unknown id is dropped.  *)
Deliver(c) ==
    /\ pending' = pending \ {c}
    /\ answered' = IF c \in pending THEN answered \cup {c} ELSE answered

ReaderReads(c) ==
    /\ sup = "run"
    /\ c \in outbox
    /\ Deliver(c)
    /\ outbox' = outbox \ {c}
    /\ asked' = [asked EXCEPT ![c] = 0]
    /\ UNCHANGED <<call, lock, process, gen, up, stalled, supVars, cancelled>>

(* The reader ends at the end of stdout, which comes after every frame on  *)
(* it, or at a frame it does not accept; the child is killed.              *)
ReaderEnds ==
    /\ sup = "run"
    /\ ~cancelled
    /\ up \/ outbox = {}
    /\ up' = FALSE
    /\ outbox' = {}
    /\ sup' = "clear"
    /\ healthy' \in BOOLEAN
    /\ UNCHANGED <<callVars, lock, process, gen, stalled, attempts, cancelled, wasted>>

-----------------------------------------------------------------------------
(* supervise_loop *)

(* Mutant: the supervisor waits for the child to exit by itself. *)
KilledByShutdownMut ==
    /\ sup = "run"
    /\ cancelled
    /\ ~up
    /\ outbox' = {}
    /\ sup' = "done"
    /\ UNCHANGED <<callVars, lock, process, gen, up, stalled, attempts, healthy, cancelled, wasted>>

(* run_child is told to shut down: the child is killed. *)
KilledByShutdown ==
    /\ sup = "run"
    /\ cancelled
    /\ up' = FALSE
    /\ outbox' = {}
    /\ sup' = "done"
    /\ UNCHANGED <<callVars, lock, process, gen, stalled, attempts, healthy, cancelled, wasted>>

(* Mutant: the dead child's stdin handle stays in place. *)
ClearsProcessMut ==
    /\ sup = "clear"
    /\ lock = NoOne
    /\ sup' = "fail"
    /\ UNCHANGED <<callVars, lock, process, childVars, attempts, healthy, cancelled, wasted>>

ClearsProcess ==
    /\ sup = "clear"
    /\ lock = NoOne
    /\ process' = 0
    /\ sup' = "fail"
    /\ UNCHANGED <<callVars, lock, childVars, attempts, healthy, cancelled, wasted>>

(* One more attempt, unless the budget is spent. *)
Spends(n) ==
    /\ attempts' = IF MaxRetries = 0 THEN n ELSE n + 1
    /\ sup' = IF attempts' > MaxRetries \/ MaxRetries = 0 THEN "done" ELSE "sleep"

(* fail_pending; a child that stayed up long enough restores the budget.   *)
FailsPending ==
    /\ sup = "fail"
    /\ pending' = {}
    /\ Spends(IF healthy THEN 0 ELSE attempts)
    /\ wasted' = IF healthy THEN 0 ELSE wasted
    /\ healthy' = FALSE
    /\ UNCHANGED <<call, answered, asked, lock, process, childVars, cancelled>>

BackoffEnds ==
    /\ sup = "sleep"
    /\ ~cancelled
    /\ sup' = "spawn"
    /\ UNCHANGED <<callVars, lock, process, childVars, attempts, healthy, cancelled, wasted>>

(* The backoff is interrupted by shutdown. *)
BackoffCancelled ==
    /\ sup = "sleep"
    /\ cancelled
    /\ sup' = "done"
    /\ UNCHANGED <<callVars, lock, process, childVars, attempts, healthy, cancelled, wasted>>

SpawnOnce ==
    /\ sup = "spawn"
    /\ gen < MaxGen
    /\ gen' = gen + 1
    /\ up' = TRUE
    /\ stalled' = FALSE
    /\ wasted' = wasted + 1
    /\ sup' = "install"
    /\ UNCHANGED <<callVars, lock, process, outbox, attempts, healthy, cancelled>>

SpawnFails ==
    /\ sup = "spawn"
    /\ Spends(attempts)
    /\ UNCHANGED <<callVars, lock, process, childVars, healthy, cancelled, wasted>>

Installs ==
    /\ sup = "install"
    /\ lock = NoOne
    /\ process' = gen
    /\ sup' = "run"
    /\ UNCHANGED <<callVars, lock, childVars, attempts, healthy, cancelled, wasted>>

-----------------------------------------------------------------------------
CallStep(c) ==
    \/ Locks(c)
    \/ Writes(c)
    \/ WriteFails(c)
    \/ Wakes(c)
    \/ TimesOut(c)

ShutdownStep ==
    \/ Cancels
    \/ Joins
    \/ DropsProcess
    \/ ShutdownEnds

SupervisorStep ==
    \/ ReaderEnds
    \/ KilledByShutdown
    \/ ClearsProcess
    \/ FailsPending
    \/ BackoffEnds
    \/ BackoffCancelled
    \/ SpawnOnce
    \/ SpawnFails
    \/ Installs

Next ==
    \/ \E c \in All : CallBegins(c) \/ CallStep(c) \/ ChildAnswers(c) \/ ReaderReads(c)
    \/ ShutdownStep
    \/ ChildCrashes
    \/ ChildStalls
    \/ SupervisorStep

Spec == Init /\ [][Next]_vars

(* Tasks that can go on do, and the supervisor notices the end of a        *)
(* child's stdout and the shutdown token.  Nothing makes a child answer,   *)
(* crash, stall or break the protocol.                                     *)
Fairness ==
    /\ \A c \in All : WF_vars(CallStep(c))
    /\ WF_vars(\E c \in All : ReaderReads(c))
    /\ WF_vars(ShutdownStep)
    /\ WF_vars((sup # "run" \/ ~up \/ cancelled) /\ SupervisorStep)

FairSpec == Spec /\ Fairness

-----------------------------------------------------------------------------
(* "inflight RPCs that happened to be outstanding at crash time resolve to *)
(* Error::Closed": a caller that waits with its entry in place was served  *)
(* by the child that is there now, unless the supervisor or shutdown is    *)
(* about to fail it; nobody waits for a child that is gone.                *)
WaitersServed ==
    \A c \in pending :
        call[c] = "waiting" =>
            \/ up /\ asked[c] = gen
            \/ c \in outbox
            \/ sup \in {"clear", "fail"} \/ (sup = "run" /\ ~up)
            \/ cancelled /\ call[Shutter] # "done"

(* A finished shutdown leaves no child running and no handle to one,       *)
(* whatever the supervisor was doing when it was told to stop.             *)
NothingAfterShutdown == call[Shutter] = "done" => ~up /\ process = 0

(* Restarts are bounded: no more of them than max_retries in a row without *)
(* a child that stayed up ("a child that crashes on every start therefore  *)
(* restarts a bounded number of times").                                   *)
RestartsBounded == wasted <= MaxRetries

(* Whatever the child does and whenever shutdown comes, nobody is left     *)
(* waiting on a child that is gone, nothing runs after shutdown, and       *)
(* restarts are bounded (supervisor.rs: call, shutdown, supervise).        *)
SidecarSound == WaitersServed /\ NothingAfterShutdown /\ RestartsBounded

(* No call and no shutdown is under way. *)
Quiet ==
    /\ \A c \in Callers : call[c] \in {"new"} \cup Returned
    /\ call[Shutter] \in {"new", "done"}

(* Every call returns, and shutdown ends, whatever the child does, as long *)
(* as no running child stops reading its stdin for good: the write is not  *)
(* under the timeout, and it holds the mutex shutdown and the supervisor   *)
(* need (call_with_timeout, shutdown, supervise_loop).  A caller calls     *)
(* once, so a call that never returned would end the quiet for ever.       *)
CallsReturn == []<>~(up /\ stalled) => []<>Quiet
=============================================================================
