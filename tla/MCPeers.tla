------------------------------ MODULE MCPeers ------------------------------
(***************************************************************************)
(* What the engine keeps with other processes: the connections of the      *)
(* stream transports, and a plugin sidecar with its supervisor.  They      *)
(* share no state, so a behaviour exercises one of them (`peerFocus`,      *)
(* chosen once) and leaves the other where it started.                     *)
(***************************************************************************)
EXTENDS StreamTransport, Sidecar

VARIABLE peerFocus

MCConnectStages == HttpConnectConnector

PeersInit ==
    /\ StreamInit /\ Init
    /\ peerFocus \in {"stream", "sidecar"}
    /\ peerFocus = "sidecar" => streamKind = "tcp"

PeersNext ==
    /\ UNCHANGED peerFocus
    /\ \/ peerFocus = "stream" /\ StreamNext /\ UNCHANGED vars
       \/ peerFocus = "sidecar" /\ Next /\ UNCHANGED streamVars

\* The tasks of a connection do not exist until one is made, and a sidecar at
\* rest has nothing to do, so the fairness of either asks nothing of a behaviour
\* about the other.
PeersSpec ==
    /\ PeersInit
    /\ [][PeersNext]_<<peerFocus, streamVars, vars>>
    /\ StreamFairness /\ Fairness
=============================================================================
