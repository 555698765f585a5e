------------------------------- MODULE MCNat -------------------------------
(***************************************************************************)
(* NAT traversal: the TURN server with its clients, and a pair of ICE      *)
(* agents.  The two share no state, so a behaviour exercises one of them   *)
(* (`natFocus`, chosen once) and leaves the other where it started.        *)
(***************************************************************************)
EXTENDS Turn, IceAgent

VARIABLE natFocus

(* Where what an agent sends to the Host and to the Mapped address of its peer arrives *)
(* from: on a shared network, behind NATs, over two paths, to an address that answers  *)
(* from another one, or one way only.                                                  *)
Reaches(h, mp) == [r \in Addrs |-> IF r = Host THEN h ELSE mp]
NatTopologies ==
    LET from(h, l) == [x \in Agents |-> IF x = Small THEN h ELSE l]
    IN  {[net |-> from(Reaches(Host, 0), Reaches(Host, 0)), nat |-> {}],
         [net |-> from(Reaches(Mapped, 0), Reaches(0, Host)), nat |-> {Small}],
         [net |-> from(Reaches(0, Host), Reaches(Mapped, 0)), nat |-> {Large}],
         [net |-> from(Reaches(0, Mapped), Reaches(0, Mapped)), nat |-> Agents],
         [net |-> from(Reaches(Host, Mapped), Reaches(Host, Mapped)), nat |-> {Small}],
         [net |-> from(Reaches(Host, 0), Reaches(Host, Host)), nat |-> {Small}],
         [net |-> from(Reaches(Host, 0), Reaches(0, 0)), nat |-> {}]}

NatInit == TurnInit /\ IceInit /\ natFocus \in {"turn", "ice"}

NatNext ==
    /\ UNCHANGED natFocus
    /\ \/ natFocus = "turn" /\ TurnNext /\ UNCHANGED iceVars
       \/ natFocus = "ice" /\ IceNext /\ UNCHANGED turnVars

NatSpec == NatInit /\ [][NatNext]_<<natFocus, turnVars, iceVars>>
=============================================================================
