------------------------------- MODULE MCUas -------------------------------
(***************************************************************************)
(* Calls as the engine handles them: the workers that serialise the items  *)
(* of one Call-ID, the life of an inbound dialog, with and without         *)
(* max_call_duration, and the control tools over outbound calls with the   *)
(* shutdown drain.  A behaviour exercises one of them (`uasFocus`, chosen  *)
(* once) and leaves the others where they started.                         *)
(***************************************************************************)
EXTENDS UasWorker, UasDialog, CallControl

VARIABLE uasFocus

About(component) == uasFocus = component

\* No duration guard ends the call, and no send fails: the 2xx loop has to.
Unguarded == INSTANCE UasDialog WITH SendFails <- FALSE, Guarded <- FALSE, MaxArrivals <- 3

UasInit ==
    /\ Init /\ DialogInit /\ CallsInit
    /\ uasFocus \in {"worker", "dialog", "unguarded", "calls"}

UasNext ==
    /\ UNCHANGED uasFocus
    /\ \/ About("worker") /\ Next /\ UNCHANGED <<dialogVars, controlVars>>
       \/ About("dialog") /\ DialogNext /\ UNCHANGED <<vars, controlVars>>
       \/ About("unguarded") /\ Unguarded!DialogNext /\ UNCHANGED <<vars, controlVars>>
       \/ About("calls") /\ CallsNext /\ UNCHANGED <<vars, dialogVars>>

\* The fairness of the three modules, each for the behaviours about it.
WorkersFair ==
    /\ WF_vars(About("worker") /\ disp # "idle" /\ (DispatchSends \/ DispatchMisses))
    /\ WF_vars(About("worker") /\ DispatchSpawns)
    /\ \A w \in Workers : WF_vars(About("worker") /\ WorkerStep(w))

\* Whether max_call_duration is set matters to the worker and the 2xx loop only.
EitherDialog == About("dialog") \/ About("unguarded")
EitherWorker ==
    \/ About("dialog") /\ DialogWorkerStep
    \/ About("unguarded") /\ Unguarded!DialogWorkerStep
EitherLoop(l) ==
    \/ About("dialog") /\ LoopStep(l)
    \/ About("unguarded") /\ Unguarded!LoopStep(l)

DialogsFair ==
    /\ WF_dialogVars(EitherDialog /\ ForwardInternal)
    /\ WF_dialogVars(EitherWorker)
    /\ \A l \in Loops : WF_dialogVars(EitherLoop(l))
    /\ \A t \in Tags : WF_dialogVars(EitherDialog /\ SessionTimerFires(t))
    /\ \A t \in Tags : WF_dialogVars(EitherDialog /\ GuardFires(t))

CallTasksFair ==
    /\ \A c \in Calls : WF_controlVars(About("calls") /\ PlaceStep(c))
    /\ \A u \in Users : WF_controlVars(About("calls") /\ ToolStep(u))
    /\ WF_controlVars(About("calls") /\ ControlHandles)
    /\ WF_controlVars(About("calls") /\ DrainStep)

UasSpec ==
    /\ UasInit
    /\ [][UasNext]_<<uasFocus, vars, dialogVars, controlVars>>
    /\ WorkersFair /\ DialogsFair /\ CallTasksFair

\* What each of the three has begun and owes an end to.
InProgress ==
    CASE About("worker")    -> Unserved
      [] About("dialog")    -> \E t \in Tags : dlg[t] # "none"
      [] About("unguarded") -> \E t \in Tags : dlg[t] = "Early"
      [] About("calls")     -> drain.pc = "on"

(* What was begun ends: no item or dispatch waits for ever on a retiring   *)
(* worker; with max_call_duration every dialog ends, and without it an     *)
(* answered call leaves Early, by its ACK or by the 2xx loop giving up;    *)
(* and the shutdown drain ends whatever the peers do (uas.rs: dispatch,    *)
(* run_worker, arm_duration_guard, spawn_invite_2xx_retransmit;            *)
(* shutdown.rs: hang_up_everything).                                       *)
BegunEnds == InProgress ~> ~InProgress
=============================================================================
