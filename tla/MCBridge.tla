------------------------------ MODULE MCBridge ------------------------------
(***************************************************************************)
(* What happens to established calls: rendezvous and the bridges between   *)
(* them, and a dialog that is refreshed by re-INVITE.  A                   *)
(* behaviour exercises one of them (`bridgeFocus`, chosen once) and leaves *)
(* the other where it started.                                             *)
(***************************************************************************)
EXTENDS UasBridge, TLC

VARIABLES
    bridgeFocus,
    \* those of the refreshed dialog
    txn, cancelled, queue, refreshJob, dialogState, branch, media, dialogsMade, loop, handle,
    timer, armings, guard, internal, dialogCdr, dialogByes, dialogEnds, dialogCut, live, admitted,
    dialogsAcked, arrivals

refreshVars ==
    <<txn, cancelled, queue, refreshJob, dialogState, branch, media, dialogsMade, loop, handle,
      timer, armings, guard, internal, dialogCdr, dialogByes, dialogEnds, dialogCut, live, admitted,
      dialogsAcked, arrivals>>

\* The calls differ in nothing but what happens to them.
CallSymmetry == Permutations(Calls)

Refreshed == INSTANCE UasDialog WITH
    Methods <- {"INVITE", "REINVITE", "ACK"},
    SendFails <- FALSE, Guarded <- FALSE, MaxArrivals <- 3, MaxInvites <- 2,
    job <- refreshJob, dlg <- dialogState, made <- dialogsMade, cdr <- dialogCdr,
    byes <- dialogByes, ends <- dialogEnds, cut <- dialogCut, acked <- dialogsAcked

BridgeInit ==
    /\ Init /\ Refreshed!DialogInit
    /\ bridgeFocus \in {"bridge", "refresh"}
    /\ bridgeFocus # "bridge" => \A c \in Calls : codec[c] = "pcmu"

BridgeNext ==
    /\ UNCHANGED bridgeFocus
    /\ \/ bridgeFocus = "bridge" /\ Next /\ UNCHANGED refreshVars
       \/ bridgeFocus = "refresh" /\ Refreshed!DialogNext /\ UNCHANGED vars

BridgeSpec ==
    BridgeInit /\ [][BridgeNext]_<<bridgeFocus, vars, refreshVars>>

(* The claims about a dialog hold with a re-INVITE that renegotiates its   *)
(* media and re-arms its timers, and with a second dialog of the Call-ID,  *)
(* while the 2xx loops, the session timer, a late AckTimeout and the       *)
(* teardown of the bridged partner cross them (uas.rs: handle_reinvite,    *)
(* commit_in_dialog_update, rearm_session_timer, teardown_call).           *)
RefreshesSound == Refreshed!DialogsSound
=============================================================================
