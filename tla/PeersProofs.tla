----------------------------- MODULE PeersProofs -----------------------------
(***************************************************************************)
(* The safety of what the engine does with others: the plugin sidecar with *)
(* its supervisor (SidecarSound), the pool of the stream transports        *)
(* (PoolServed), the script plugins (ScriptsIsolated) and ICE with the     *)
(* peer's agent (SelectedPathWorks), for every number of callers,          *)
(* restarts, peers, connections, replacements and checks.                  *)
(*                                                                         *)
(* None of the properties is inductive.  SidecarInv adds who holds the     *)
(* process mutex, which child the stdin handle belongs to in each state of *)
(* the supervisor, and that no caller waits while there is no child.       *)
(* StreamInv adds that an entry of the pool names the NEWEST connection of *)
(* its peer, and that a caller dials a peer and pushes to a connection     *)
(* that was made.  ScriptInv adds that a call is the only one of its       *)
(* generation and that every runtime on its way to be the hot one keeps    *)
(* the contract.  IceInv adds that a check is known by its number, that an *)
(* answer comes back along the way of its check, and that what an agent    *)
(* holds for succeeded, asked for or worth a nomination is so.             *)
(***************************************************************************)
EXTENDS Sidecar, StreamTransport, Script, IceAgent, FiniteSetTheorems, SequenceTheorems, TLAPS

-----------------------------------------------------------------------------
(* The sidecar supervisor *)

\* The process mutex is held by the caller that writes, and by no other.
LockInv == \A c \in All : call[c] = "writing" <=> lock = c

\* The stdin handle is that of the last child, from its installation until the
\* supervisor has noticed its end; whoever holds the mutex found it in place.
StdinInv ==
    /\ gen # 0
    /\ process \in {0, gen}
    /\ sup \in {"run", "clear"} => process = gen
    /\ sup \in {"fail", "sleep", "spawn", "install"} => process = 0
    /\ sup = "done" /\ ~cancelled => process = 0
    /\ sup \in {"clear", "fail", "sleep", "spawn", "done"} => ~up
    /\ lock # NoOne => process # 0

\* shutdown goes on only when the supervisor has ended.
ShutdownInv ==
    /\ call[Shutter] \in {"joined", "cleared", "done"} => sup = "done"
    /\ call[Shutter] \in {"cleared", "done"} => process = 0

\* From fail_pending to the next installation, after the last restart and after
\* shutdown there is nobody to answer, and nobody waits.
NobodyWaits ==
    \/ sup \in {"sleep", "spawn", "install"}
    \/ sup = "done" /\ ~cancelled
    \/ call[Shutter] = "done"
    => \A c \in pending : call[c] # "waiting"

\* Every restart was paid for by an attempt.
BudgetInv ==
    /\ sup \in {"run", "clear", "fail", "install"} => wasted <= attempts /\ attempts <= MaxRetries
    /\ sup \in {"sleep", "spawn"} => wasted < attempts /\ attempts <= MaxRetries
    /\ wasted <= MaxRetries

SidecarInv ==
    /\ TypeOK
    /\ LockInv
    /\ StdinInv
    /\ ShutdownInv
    /\ NobodyWaits
    /\ WaitersServed
    /\ BudgetInv

-----------------------------------------------------------------------------
(* shutdown is one of the callers. *)
LEMMA ShutterInAll == Shutter \in All
  BY DEF All

(* The first child is up and nobody has called yet (spawn_with_options).   *)
LEMMA SidecarInit == Init => SidecarInv
<1> SUFFICES ASSUME Init PROVE SidecarInv
  OBVIOUS
<1> USE DEF Init
<1>1. TypeOK
  <2>1. gen \in 0 .. MaxGen /\ process \in 0 .. MaxGen /\ 0 \in 0 .. MaxGen
        /\ attempts \in 0 .. MaxRetries + 1 /\ wasted \in Nat
    BY BudgetAssumption
  <2> QED
    BY <2>1 DEF TypeOK
<1>2. LockInv
  BY NobodyAssumption DEF LockInv
<1>3. StdinInv
  BY DEF StdinInv
<1>4. ShutdownInv
  BY ShutterInAll DEF ShutdownInv
<1>5. NobodyWaits
  BY ShutterInAll DEF NobodyWaits
<1>6. WaitersServed
  BY DEF WaitersServed
<1>7. BudgetInv
  BY BudgetAssumption DEF BudgetInv
<1> QED
  BY <1>1, <1>2, <1>3, <1>4, <1>5, <1>6, <1>7 DEF SidecarInv

(* A caller inserts its pending entry. *)
LEMMA CallBeginsKeeps ==
    ASSUME SidecarInv, NEW c \in All, CallBegins(c)
    PROVE  SidecarInv'
<1> USE ShutterInAll, NobodyAssumption, BudgetAssumption DEF CallBegins, To, SidecarInv, TypeOK
<1>1. TypeOK'
  BY DEF callVars, childVars, supVars
<1>2. LockInv'
  BY DEF LockInv, callVars, childVars, supVars
<1>3. StdinInv'
  BY DEF StdinInv, LockInv, ShutdownInv, callVars, childVars, supVars
<1>4. ShutdownInv'
  BY DEF ShutdownInv, StdinInv, callVars, childVars, supVars
<1>5. NobodyWaits'
  BY DEF NobodyWaits, StdinInv, LockInv, ShutdownInv, callVars, childVars, supVars
<1>6. WaitersServed'
  BY DEF WaitersServed, NobodyWaits, StdinInv, LockInv, ShutdownInv, callVars, childVars, supVars
<1>7. BudgetInv'
  BY DEF BudgetInv, callVars, childVars, supVars
<1> QED
  BY <1>1, <1>2, <1>3, <1>4, <1>5, <1>6, <1>7 DEF SidecarInv

(* A caller takes the process mutex, or finds no child. *)
LEMMA LocksKeeps ==
    ASSUME SidecarInv, NEW c \in All, Locks(c)
    PROVE  SidecarInv'
<1> USE ShutterInAll, NobodyAssumption, BudgetAssumption DEF Locks, To, SidecarInv, TypeOK
<1>1. TypeOK'
  BY DEF callVars, childVars, supVars
<1>2. LockInv'
  BY DEF LockInv, callVars, childVars, supVars
<1>3. StdinInv'
  BY DEF StdinInv, LockInv, ShutdownInv, callVars, childVars, supVars
<1>4. ShutdownInv'
  BY DEF ShutdownInv, StdinInv, callVars, childVars, supVars
<1>5. NobodyWaits'
  BY DEF NobodyWaits, StdinInv, LockInv, ShutdownInv, callVars, childVars, supVars
<1>6. WaitersServed'
  BY DEF WaitersServed, NobodyWaits, StdinInv, LockInv, ShutdownInv, callVars, childVars, supVars
<1>7. BudgetInv'
  BY DEF BudgetInv, callVars, childVars, supVars
<1> QED
  BY <1>1, <1>2, <1>3, <1>4, <1>5, <1>6, <1>7 DEF SidecarInv

(* The request is written and the mutex given back. *)
LEMMA WritesKeeps ==
    ASSUME SidecarInv, NEW c \in All, Writes(c)
    PROVE  SidecarInv'
<1> USE ShutterInAll, NobodyAssumption, BudgetAssumption DEF Writes, To, SidecarInv, TypeOK
<1>1. TypeOK'
  BY DEF callVars, childVars, supVars
<1>2. LockInv'
  BY DEF LockInv, callVars, childVars, supVars
<1>3. StdinInv'
  BY DEF StdinInv, LockInv, ShutdownInv, callVars, childVars, supVars
<1>4. ShutdownInv'
  BY DEF ShutdownInv, StdinInv, callVars, childVars, supVars
<1>5. NobodyWaits'
  BY DEF NobodyWaits, StdinInv, LockInv, ShutdownInv, callVars, childVars, supVars
<1>6. WaitersServed'
  BY DEF WaitersServed, NobodyWaits, StdinInv, LockInv, ShutdownInv, callVars, childVars, supVars
<1>7. BudgetInv'
  BY DEF BudgetInv, callVars, childVars, supVars
<1> QED
  BY <1>1, <1>2, <1>3, <1>4, <1>5, <1>6, <1>7 DEF SidecarInv

(* The pipe is broken. *)
LEMMA WriteFailsKeeps ==
    ASSUME SidecarInv, NEW c \in All, WriteFails(c)
    PROVE  SidecarInv'
<1> USE ShutterInAll, NobodyAssumption, BudgetAssumption DEF WriteFails, To, SidecarInv, TypeOK
<1>1. TypeOK'
  BY DEF callVars, childVars, supVars
<1>2. LockInv'
  BY DEF LockInv, callVars, childVars, supVars
<1>3. StdinInv'
  BY DEF StdinInv, LockInv, ShutdownInv, callVars, childVars, supVars
<1>4. ShutdownInv'
  BY DEF ShutdownInv, StdinInv, callVars, childVars, supVars
<1>5. NobodyWaits'
  BY DEF NobodyWaits, StdinInv, LockInv, ShutdownInv, callVars, childVars, supVars
<1>6. WaitersServed'
  BY DEF WaitersServed, NobodyWaits, StdinInv, LockInv, ShutdownInv, callVars, childVars, supVars
<1>7. BudgetInv'
  BY DEF BudgetInv, callVars, childVars, supVars
<1> QED
  BY <1>1, <1>2, <1>3, <1>4, <1>5, <1>6, <1>7 DEF SidecarInv

(* A waiting caller is woken. *)
LEMMA WakesKeeps ==
    ASSUME SidecarInv, NEW c \in All, Wakes(c)
    PROVE  SidecarInv'
<1> USE ShutterInAll, NobodyAssumption, BudgetAssumption DEF Wakes, To, SidecarInv, TypeOK
<1>1. TypeOK'
  BY DEF callVars, childVars, supVars
<1>2. LockInv'
  BY DEF LockInv, callVars, childVars, supVars
<1>3. StdinInv'
  BY DEF StdinInv, LockInv, ShutdownInv, callVars, childVars, supVars
<1>4. ShutdownInv'
  BY DEF ShutdownInv, StdinInv, callVars, childVars, supVars
<1>5. NobodyWaits'
  BY DEF NobodyWaits, StdinInv, LockInv, ShutdownInv, callVars, childVars, supVars
<1>6. WaitersServed'
  BY DEF WaitersServed, NobodyWaits, StdinInv, LockInv, ShutdownInv, callVars, childVars, supVars
<1>7. BudgetInv'
  BY DEF BudgetInv, callVars, childVars, supVars
<1> QED
  BY <1>1, <1>2, <1>3, <1>4, <1>5, <1>6, <1>7 DEF SidecarInv

(* A call times out. *)
LEMMA TimesOutKeeps ==
    ASSUME SidecarInv, NEW c \in All, TimesOut(c)
    PROVE  SidecarInv'
<1> USE ShutterInAll, NobodyAssumption, BudgetAssumption DEF TimesOut, To, SidecarInv, TypeOK
<1>1. TypeOK'
  BY DEF callVars, childVars, supVars
<1>2. LockInv'
  BY DEF LockInv, callVars, childVars, supVars
<1>3. StdinInv'
  BY DEF StdinInv, LockInv, ShutdownInv, callVars, childVars, supVars
<1>4. ShutdownInv'
  BY DEF ShutdownInv, StdinInv, callVars, childVars, supVars
<1>5. NobodyWaits'
  BY DEF NobodyWaits, StdinInv, LockInv, ShutdownInv, callVars, childVars, supVars
<1>6. WaitersServed'
  BY DEF WaitersServed, NobodyWaits, StdinInv, LockInv, ShutdownInv, callVars, childVars, supVars
<1>7. BudgetInv'
  BY DEF BudgetInv, callVars, childVars, supVars
<1> QED
  BY <1>1, <1>2, <1>3, <1>4, <1>5, <1>6, <1>7 DEF SidecarInv

(* The child answers a request it was asked. *)
LEMMA ChildAnswersKeeps ==
    ASSUME SidecarInv, NEW c \in All, ChildAnswers(c)
    PROVE  SidecarInv'
<1> USE ShutterInAll, NobodyAssumption, BudgetAssumption DEF ChildAnswers, SidecarInv, TypeOK
<1>1. TypeOK'
  BY DEF callVars, childVars, supVars
<1>2. LockInv'
  BY DEF LockInv, callVars, childVars, supVars
<1>3. StdinInv'
  BY DEF StdinInv, LockInv, ShutdownInv, callVars, childVars, supVars
<1>4. ShutdownInv'
  BY DEF ShutdownInv, StdinInv, callVars, childVars, supVars
<1>5. NobodyWaits'
  BY DEF NobodyWaits, StdinInv, LockInv, ShutdownInv, callVars, childVars, supVars
<1>6. WaitersServed'
  BY DEF WaitersServed, NobodyWaits, StdinInv, LockInv, ShutdownInv, callVars, childVars, supVars
<1>7. BudgetInv'
  BY DEF BudgetInv, callVars, childVars, supVars
<1> QED
  BY <1>1, <1>2, <1>3, <1>4, <1>5, <1>6, <1>7 DEF SidecarInv

(* The reader hands an answer over. *)
LEMMA ReaderReadsKeeps ==
    ASSUME SidecarInv, NEW c \in All, ReaderReads(c)
    PROVE  SidecarInv'
<1> USE ShutterInAll, NobodyAssumption, BudgetAssumption DEF ReaderReads, Deliver, SidecarInv, TypeOK
<1>1. TypeOK'
  BY DEF callVars, childVars, supVars
<1>2. LockInv'
  BY DEF LockInv, callVars, childVars, supVars
<1>3. StdinInv'
  BY DEF StdinInv, LockInv, ShutdownInv, callVars, childVars, supVars
<1>4. ShutdownInv'
  BY DEF ShutdownInv, StdinInv, callVars, childVars, supVars
<1>5. NobodyWaits'
  BY DEF NobodyWaits, StdinInv, LockInv, ShutdownInv, callVars, childVars, supVars
<1>6. WaitersServed'
  BY DEF WaitersServed, NobodyWaits, StdinInv, LockInv, ShutdownInv, callVars, childVars, supVars
<1>7. BudgetInv'
  BY DEF BudgetInv, callVars, childVars, supVars
<1> QED
  BY <1>1, <1>2, <1>3, <1>4, <1>5, <1>6, <1>7 DEF SidecarInv

(* shutdown flips the token. *)
LEMMA CancelsKeeps ==
    ASSUME SidecarInv, Cancels
    PROVE  SidecarInv'
<1> USE ShutterInAll, NobodyAssumption, BudgetAssumption DEF Cancels, To, Returned, SidecarInv, TypeOK
<1>1. TypeOK'
  BY DEF callVars, childVars, supVars
<1>2. LockInv'
  BY DEF LockInv, callVars, childVars, supVars
<1>3. StdinInv'
  BY DEF StdinInv, LockInv, ShutdownInv, callVars, childVars, supVars
<1>4. ShutdownInv'
  BY DEF ShutdownInv, StdinInv, callVars, childVars, supVars
<1>5. NobodyWaits'
  BY DEF NobodyWaits, StdinInv, LockInv, ShutdownInv, callVars, childVars, supVars
<1>6. WaitersServed'
  BY DEF WaitersServed, NobodyWaits, StdinInv, LockInv, ShutdownInv, callVars, childVars, supVars
<1>7. BudgetInv'
  BY DEF BudgetInv, callVars, childVars, supVars
<1> QED
  BY <1>1, <1>2, <1>3, <1>4, <1>5, <1>6, <1>7 DEF SidecarInv

(* shutdown has joined the supervisor. *)
LEMMA JoinsKeeps ==
    ASSUME SidecarInv, Joins
    PROVE  SidecarInv'
<1> USE ShutterInAll, NobodyAssumption, BudgetAssumption DEF Joins, To, SidecarInv, TypeOK
<1>1. TypeOK'
  BY DEF callVars, childVars, supVars
<1>2. LockInv'
  BY DEF LockInv, callVars, childVars, supVars
<1>3. StdinInv'
  BY DEF StdinInv, LockInv, ShutdownInv, callVars, childVars, supVars
<1>4. ShutdownInv'
  BY DEF ShutdownInv, StdinInv, callVars, childVars, supVars
<1>5. NobodyWaits'
  BY DEF NobodyWaits, StdinInv, LockInv, ShutdownInv, callVars, childVars, supVars
<1>6. WaitersServed'
  BY DEF WaitersServed, NobodyWaits, StdinInv, LockInv, ShutdownInv, callVars, childVars, supVars
<1>7. BudgetInv'
  BY DEF BudgetInv, callVars, childVars, supVars
<1> QED
  BY <1>1, <1>2, <1>3, <1>4, <1>5, <1>6, <1>7 DEF SidecarInv

(* shutdown drops the stdin handle. *)
LEMMA DropsProcessKeeps ==
    ASSUME SidecarInv, DropsProcess
    PROVE  SidecarInv'
<1> USE ShutterInAll, NobodyAssumption, BudgetAssumption DEF DropsProcess, To, SidecarInv, TypeOK
<1>1. TypeOK'
  BY DEF callVars, childVars, supVars
<1>2. LockInv'
  BY DEF LockInv, callVars, childVars, supVars
<1>3. StdinInv'
  BY DEF StdinInv, LockInv, ShutdownInv, callVars, childVars, supVars
<1>4. ShutdownInv'
  BY DEF ShutdownInv, StdinInv, callVars, childVars, supVars
<1>5. NobodyWaits'
  BY DEF NobodyWaits, StdinInv, LockInv, ShutdownInv, callVars, childVars, supVars
<1>6. WaitersServed'
  BY DEF WaitersServed, NobodyWaits, StdinInv, LockInv, ShutdownInv, callVars, childVars, supVars
<1>7. BudgetInv'
  BY DEF BudgetInv, callVars, childVars, supVars
<1> QED
  BY <1>1, <1>2, <1>3, <1>4, <1>5, <1>6, <1>7 DEF SidecarInv

(* shutdown fails what is still pending. *)
LEMMA ShutdownEndsKeeps ==
    ASSUME SidecarInv, ShutdownEnds
    PROVE  SidecarInv'
<1> USE ShutterInAll, NobodyAssumption, BudgetAssumption DEF ShutdownEnds, To, SidecarInv, TypeOK
<1>1. TypeOK'
  BY DEF callVars, childVars, supVars
<1>2. LockInv'
  BY DEF LockInv, callVars, childVars, supVars
<1>3. StdinInv'
  BY DEF StdinInv, LockInv, ShutdownInv, callVars, childVars, supVars
<1>4. ShutdownInv'
  BY DEF ShutdownInv, StdinInv, callVars, childVars, supVars
<1>5. NobodyWaits'
  BY DEF NobodyWaits, StdinInv, LockInv, ShutdownInv, callVars, childVars, supVars
<1>6. WaitersServed'
  BY DEF WaitersServed, NobodyWaits, StdinInv, LockInv, ShutdownInv, callVars, childVars, supVars
<1>7. BudgetInv'
  BY DEF BudgetInv, callVars, childVars, supVars
<1> QED
  BY <1>1, <1>2, <1>3, <1>4, <1>5, <1>6, <1>7 DEF SidecarInv

(* The child dies. *)
LEMMA ChildCrashesKeeps ==
    ASSUME SidecarInv, ChildCrashes
    PROVE  SidecarInv'
<1> USE ShutterInAll, NobodyAssumption, BudgetAssumption DEF ChildCrashes, SidecarInv, TypeOK
<1>1. TypeOK'
  BY DEF callVars, childVars, supVars
<1>2. LockInv'
  BY DEF LockInv, callVars, childVars, supVars
<1>3. StdinInv'
  BY DEF StdinInv, LockInv, ShutdownInv, callVars, childVars, supVars
<1>4. ShutdownInv'
  BY DEF ShutdownInv, StdinInv, callVars, childVars, supVars
<1>5. NobodyWaits'
  BY DEF NobodyWaits, StdinInv, LockInv, ShutdownInv, callVars, childVars, supVars
<1>6. WaitersServed'
  BY DEF WaitersServed, NobodyWaits, StdinInv, LockInv, ShutdownInv, callVars, childVars, supVars
<1>7. BudgetInv'
  BY DEF BudgetInv, callVars, childVars, supVars
<1> QED
  BY <1>1, <1>2, <1>3, <1>4, <1>5, <1>6, <1>7 DEF SidecarInv

(* The child stops reading. *)
LEMMA ChildStallsKeeps ==
    ASSUME SidecarInv, ChildStalls
    PROVE  SidecarInv'
<1> USE ShutterInAll, NobodyAssumption, BudgetAssumption DEF ChildStalls, SidecarInv, TypeOK
<1>1. TypeOK'
  BY DEF callVars, childVars, supVars
<1>2. LockInv'
  BY DEF LockInv, callVars, childVars, supVars
<1>3. StdinInv'
  BY DEF StdinInv, LockInv, ShutdownInv, callVars, childVars, supVars
<1>4. ShutdownInv'
  BY DEF ShutdownInv, StdinInv, callVars, childVars, supVars
<1>5. NobodyWaits'
  BY DEF NobodyWaits, StdinInv, LockInv, ShutdownInv, callVars, childVars, supVars
<1>6. WaitersServed'
  BY DEF WaitersServed, NobodyWaits, StdinInv, LockInv, ShutdownInv, callVars, childVars, supVars
<1>7. BudgetInv'
  BY DEF BudgetInv, callVars, childVars, supVars
<1> QED
  BY <1>1, <1>2, <1>3, <1>4, <1>5, <1>6, <1>7 DEF SidecarInv

(* The reader ends and the child is killed. *)
LEMMA ReaderEndsKeeps ==
    ASSUME SidecarInv, ReaderEnds
    PROVE  SidecarInv'
<1> USE ShutterInAll, NobodyAssumption, BudgetAssumption DEF ReaderEnds, SidecarInv, TypeOK
<1>1. TypeOK'
  BY DEF callVars, childVars, supVars
<1>2. LockInv'
  BY DEF LockInv, callVars, childVars, supVars
<1>3. StdinInv'
  BY DEF StdinInv, LockInv, ShutdownInv, callVars, childVars, supVars
<1>4. ShutdownInv'
  BY DEF ShutdownInv, StdinInv, callVars, childVars, supVars
<1>5. NobodyWaits'
  BY DEF NobodyWaits, StdinInv, LockInv, ShutdownInv, callVars, childVars, supVars
<1>6. WaitersServed'
  BY DEF WaitersServed, NobodyWaits, StdinInv, LockInv, ShutdownInv, callVars, childVars, supVars
<1>7. BudgetInv'
  BY DEF BudgetInv, callVars, childVars, supVars
<1> QED
  BY <1>1, <1>2, <1>3, <1>4, <1>5, <1>6, <1>7 DEF SidecarInv

(* The supervisor kills the child and ends. *)
LEMMA KilledByShutdownKeeps ==
    ASSUME SidecarInv, KilledByShutdown
    PROVE  SidecarInv'
<1> USE ShutterInAll, NobodyAssumption, BudgetAssumption DEF KilledByShutdown, SidecarInv, TypeOK
<1>1. TypeOK'
  BY DEF callVars, childVars, supVars
<1>2. LockInv'
  BY DEF LockInv, callVars, childVars, supVars
<1>3. StdinInv'
  BY DEF StdinInv, LockInv, ShutdownInv, callVars, childVars, supVars
<1>4. ShutdownInv'
  BY DEF ShutdownInv, StdinInv, callVars, childVars, supVars
<1>5. NobodyWaits'
  BY DEF NobodyWaits, StdinInv, LockInv, ShutdownInv, callVars, childVars, supVars
<1>6. WaitersServed'
  BY DEF WaitersServed, NobodyWaits, StdinInv, LockInv, ShutdownInv, callVars, childVars, supVars
<1>7. BudgetInv'
  BY DEF BudgetInv, callVars, childVars, supVars
<1> QED
  BY <1>1, <1>2, <1>3, <1>4, <1>5, <1>6, <1>7 DEF SidecarInv

(* The supervisor takes the stdin handle away. *)
LEMMA ClearsProcessKeeps ==
    ASSUME SidecarInv, ClearsProcess
    PROVE  SidecarInv'
<1> USE ShutterInAll, NobodyAssumption, BudgetAssumption DEF ClearsProcess, SidecarInv, TypeOK
<1>1. TypeOK'
  BY DEF callVars, childVars, supVars
<1>2. LockInv'
  BY DEF LockInv, callVars, childVars, supVars
<1>3. StdinInv'
  BY DEF StdinInv, LockInv, ShutdownInv, callVars, childVars, supVars
<1>4. ShutdownInv'
  BY DEF ShutdownInv, StdinInv, callVars, childVars, supVars
<1>5. NobodyWaits'
  BY DEF NobodyWaits, StdinInv, LockInv, ShutdownInv, callVars, childVars, supVars
<1>6. WaitersServed'
  BY DEF WaitersServed, NobodyWaits, StdinInv, LockInv, ShutdownInv, callVars, childVars, supVars
<1>7. BudgetInv'
  BY DEF BudgetInv, callVars, childVars, supVars
<1> QED
  BY <1>1, <1>2, <1>3, <1>4, <1>5, <1>6, <1>7 DEF SidecarInv

(* fail_pending, and one more attempt or the end. *)
LEMMA FailsPendingKeeps ==
    ASSUME SidecarInv, FailsPending
    PROVE  SidecarInv'
<1> USE ShutterInAll, NobodyAssumption, BudgetAssumption DEF FailsPending, Spends, SidecarInv, TypeOK
<1>1. TypeOK'
  <2>1. attempts' \in 0 .. MaxRetries + 1 /\ sup' \in {"done", "sleep"}
    BY DEF BudgetInv
  <2>2. wasted' \in Nat /\ healthy' \in BOOLEAN
    OBVIOUS
  <2> QED
    BY <2>1, <2>2 DEF callVars, childVars, supVars
<1>2. LockInv'
  BY DEF LockInv, callVars, childVars, supVars
<1>3. StdinInv'
  BY DEF StdinInv, LockInv, ShutdownInv, callVars, childVars, supVars
<1>4. ShutdownInv'
  BY DEF ShutdownInv, StdinInv, callVars, childVars, supVars
<1>5. NobodyWaits'
  BY DEF NobodyWaits, StdinInv, LockInv, ShutdownInv, callVars, childVars, supVars
<1>6. WaitersServed'
  BY DEF WaitersServed, NobodyWaits, StdinInv, LockInv, ShutdownInv, callVars, childVars, supVars
<1>7. BudgetInv'
  BY DEF BudgetInv, callVars, childVars, supVars
<1> QED
  BY <1>1, <1>2, <1>3, <1>4, <1>5, <1>6, <1>7 DEF SidecarInv

(* The backoff is over. *)
LEMMA BackoffEndsKeeps ==
    ASSUME SidecarInv, BackoffEnds
    PROVE  SidecarInv'
<1> USE ShutterInAll, NobodyAssumption, BudgetAssumption DEF BackoffEnds, SidecarInv, TypeOK
<1>1. TypeOK'
  BY DEF callVars, childVars, supVars
<1>2. LockInv'
  BY DEF LockInv, callVars, childVars, supVars
<1>3. StdinInv'
  BY DEF StdinInv, LockInv, ShutdownInv, callVars, childVars, supVars
<1>4. ShutdownInv'
  BY DEF ShutdownInv, StdinInv, callVars, childVars, supVars
<1>5. NobodyWaits'
  BY DEF NobodyWaits, StdinInv, LockInv, ShutdownInv, callVars, childVars, supVars
<1>6. WaitersServed'
  BY DEF WaitersServed, NobodyWaits, StdinInv, LockInv, ShutdownInv, callVars, childVars, supVars
<1>7. BudgetInv'
  BY DEF BudgetInv, callVars, childVars, supVars
<1> QED
  BY <1>1, <1>2, <1>3, <1>4, <1>5, <1>6, <1>7 DEF SidecarInv

(* The backoff is interrupted. *)
LEMMA BackoffCancelledKeeps ==
    ASSUME SidecarInv, BackoffCancelled
    PROVE  SidecarInv'
<1> USE ShutterInAll, NobodyAssumption, BudgetAssumption DEF BackoffCancelled, SidecarInv, TypeOK
<1>1. TypeOK'
  BY DEF callVars, childVars, supVars
<1>2. LockInv'
  BY DEF LockInv, callVars, childVars, supVars
<1>3. StdinInv'
  BY DEF StdinInv, LockInv, ShutdownInv, callVars, childVars, supVars
<1>4. ShutdownInv'
  BY DEF ShutdownInv, StdinInv, callVars, childVars, supVars
<1>5. NobodyWaits'
  BY DEF NobodyWaits, StdinInv, LockInv, ShutdownInv, callVars, childVars, supVars
<1>6. WaitersServed'
  BY DEF WaitersServed, NobodyWaits, StdinInv, LockInv, ShutdownInv, callVars, childVars, supVars
<1>7. BudgetInv'
  BY DEF BudgetInv, callVars, childVars, supVars
<1> QED
  BY <1>1, <1>2, <1>3, <1>4, <1>5, <1>6, <1>7 DEF SidecarInv

(* The child is respawned. *)
LEMMA SpawnOnceKeeps ==
    ASSUME SidecarInv, SpawnOnce
    PROVE  SidecarInv'
<1> USE ShutterInAll, NobodyAssumption, BudgetAssumption DEF SpawnOnce, SidecarInv, TypeOK
<1>1. TypeOK'
  <2>1. gen' \in 0 .. MaxGen /\ wasted' \in Nat
    OBVIOUS
  <2> QED
    BY <2>1 DEF callVars, childVars, supVars
<1>2. LockInv'
  BY DEF LockInv, callVars, childVars, supVars
<1>3. StdinInv'
  BY DEF StdinInv, LockInv, ShutdownInv, callVars, childVars, supVars
<1>4. ShutdownInv'
  BY DEF ShutdownInv, StdinInv, callVars, childVars, supVars
<1>5. NobodyWaits'
  BY DEF NobodyWaits, StdinInv, LockInv, ShutdownInv, callVars, childVars, supVars
<1>6. WaitersServed'
  BY DEF WaitersServed, NobodyWaits, StdinInv, LockInv, ShutdownInv, callVars, childVars, supVars
<1>7. BudgetInv'
  BY DEF BudgetInv, callVars, childVars, supVars
<1> QED
  BY <1>1, <1>2, <1>3, <1>4, <1>5, <1>6, <1>7 DEF SidecarInv

(* The respawn fails. *)
LEMMA SpawnFailsKeeps ==
    ASSUME SidecarInv, SpawnFails
    PROVE  SidecarInv'
<1> USE ShutterInAll, NobodyAssumption, BudgetAssumption DEF SpawnFails, Spends, SidecarInv, TypeOK
<1>1. TypeOK'
  <2>1. attempts' \in 0 .. MaxRetries + 1 /\ sup' \in {"done", "sleep"}
    BY DEF BudgetInv
  <2> QED
    BY <2>1 DEF callVars, childVars, supVars
<1>2. LockInv'
  BY DEF LockInv, callVars, childVars, supVars
<1>3. StdinInv'
  BY DEF StdinInv, LockInv, ShutdownInv, callVars, childVars, supVars
<1>4. ShutdownInv'
  BY DEF ShutdownInv, StdinInv, callVars, childVars, supVars
<1>5. NobodyWaits'
  BY DEF NobodyWaits, StdinInv, LockInv, ShutdownInv, callVars, childVars, supVars
<1>6. WaitersServed'
  BY DEF WaitersServed, NobodyWaits, StdinInv, LockInv, ShutdownInv, callVars, childVars, supVars
<1>7. BudgetInv'
  BY DEF BudgetInv, callVars, childVars, supVars
<1> QED
  BY <1>1, <1>2, <1>3, <1>4, <1>5, <1>6, <1>7 DEF SidecarInv

(* The new child gets the place of the old one. *)
LEMMA InstallsKeeps ==
    ASSUME SidecarInv, Installs
    PROVE  SidecarInv'
<1> USE ShutterInAll, NobodyAssumption, BudgetAssumption DEF Installs, SidecarInv, TypeOK
<1>1. TypeOK'
  BY DEF callVars, childVars, supVars
<1>2. LockInv'
  BY DEF LockInv, callVars, childVars, supVars
<1>3. StdinInv'
  BY DEF StdinInv, LockInv, ShutdownInv, callVars, childVars, supVars
<1>4. ShutdownInv'
  BY DEF ShutdownInv, StdinInv, callVars, childVars, supVars
<1>5. NobodyWaits'
  BY DEF NobodyWaits, StdinInv, LockInv, ShutdownInv, callVars, childVars, supVars
<1>6. WaitersServed'
  BY DEF WaitersServed, NobodyWaits, StdinInv, LockInv, ShutdownInv, callVars, childVars, supVars
<1>7. BudgetInv'
  BY DEF BudgetInv, callVars, childVars, supVars
<1> QED
  BY <1>1, <1>2, <1>3, <1>4, <1>5, <1>6, <1>7 DEF SidecarInv

(* Every step of the callers, the child and the supervisor. *)
LEMMA SidecarStep == SidecarInv /\ [Next]_vars => SidecarInv'
<1> SUFFICES ASSUME SidecarInv, [Next]_vars PROVE SidecarInv'
  OBVIOUS
<1>1. CASE \E c \in All : CallBegins(c)
  BY <1>1, CallBeginsKeeps
<1>2. CASE \E c \in All : Locks(c)
  BY <1>2, LocksKeeps
<1>3. CASE \E c \in All : Writes(c)
  BY <1>3, WritesKeeps
<1>4. CASE \E c \in All : WriteFails(c)
  BY <1>4, WriteFailsKeeps
<1>5. CASE \E c \in All : Wakes(c)
  BY <1>5, WakesKeeps
<1>6. CASE \E c \in All : TimesOut(c)
  BY <1>6, TimesOutKeeps
<1>7. CASE \E c \in All : ChildAnswers(c)
  BY <1>7, ChildAnswersKeeps
<1>8. CASE \E c \in All : ReaderReads(c)
  BY <1>8, ReaderReadsKeeps
<1>9. CASE Cancels
  BY <1>9, CancelsKeeps
<1>10. CASE Joins
  BY <1>10, JoinsKeeps
<1>11. CASE DropsProcess
  BY <1>11, DropsProcessKeeps
<1>12. CASE ShutdownEnds
  BY <1>12, ShutdownEndsKeeps
<1>13. CASE ChildCrashes
  BY <1>13, ChildCrashesKeeps
<1>14. CASE ChildStalls
  BY <1>14, ChildStallsKeeps
<1>15. CASE ReaderEnds
  BY <1>15, ReaderEndsKeeps
<1>16. CASE KilledByShutdown
  BY <1>16, KilledByShutdownKeeps
<1>17. CASE ClearsProcess
  BY <1>17, ClearsProcessKeeps
<1>18. CASE FailsPending
  BY <1>18, FailsPendingKeeps
<1>19. CASE BackoffEnds
  BY <1>19, BackoffEndsKeeps
<1>20. CASE BackoffCancelled
  BY <1>20, BackoffCancelledKeeps
<1>21. CASE SpawnOnce
  BY <1>21, SpawnOnceKeeps
<1>22. CASE SpawnFails
  BY <1>22, SpawnFailsKeeps
<1>23. CASE Installs
  BY <1>23, InstallsKeeps
<1>24. CASE UNCHANGED vars
  BY <1>24 DEF vars, callVars, childVars, supVars, SidecarInv, TypeOK, LockInv, StdinInv,
     ShutdownInv, NobodyWaits, WaitersServed, BudgetInv
<1> QED
  BY <1>1, <1>2, <1>3, <1>4, <1>5, <1>6, <1>7, <1>8, <1>9, <1>10, <1>11, <1>12, <1>13, <1>14, <1>15, <1>16, <1>17, <1>18, <1>19, <1>20, <1>21, <1>22, <1>23, <1>24
  DEF Next, CallStep, ShutdownStep, SupervisorStep

(* For every set of callers, every restart budget and every number of      *)
(* children, whatever the child does and whenever shutdown comes: nobody   *)
(* waits on a child that is gone, no child and no handle outlives a        *)
(* finished shutdown, and no more than max_retries restarts happen in a    *)
(* row without a healthy child (supervisor.rs: call_with_timeout,          *)
(* shutdown, supervise_loop).                                              *)
THEOREM SidecarIsSound == Spec => []SidecarSound
<1>1. SidecarInv => SidecarSound
  BY DEF SidecarInv, SidecarSound, StdinInv, ShutdownInv, NothingAfterShutdown, BudgetInv,
         RestartsBounded
<1> QED
  BY <1>1, SidecarInit, SidecarStep, PTL DEF Spec

-----------------------------------------------------------------------------
(* The stream transports *)


Gone == {"left", "done"}
Streams ==
    [peer : StreamPeers, reader : {"reading", "framing", "done"},
     writer : {"waiting", "writing", "closing"} \cup Gone, cancel : BOOLEAN, queue : Nat,
     peerOpen : BOOLEAN, parsed : Nat, ending : {"partial", "overflow"}]
StageNames == {"dial", "method", "auth", "reply", "status"}
Senders ==
    [at : {"idle", "push", "evict", "connect"}, peer : StreamPeers \cup {"none"}, conn : Nat,
     stages : Seq(StageNames), redialled : BOOLEAN]

\* A caller pushes to a connection that was made, and dials a peer.
SendInv ==
    /\ sends \in [StreamSenders -> Senders]
    /\ handshaking \subseteq StreamPeers
    /\ \A s \in StreamSenders :
        /\ sends[s].at = "push" => sends[s].conn \in 1 .. Len(streams)
        /\ sends[s].at # "idle" => sends[s].peer \in StreamPeers

PoolInv ==
    /\ streams \in Seq(Streams)
    /\ \A p \in DOMAIN pool :
        /\ p \in StreamPeers /\ pool[p] \in 1 .. Len(streams)
        /\ streams[pool[p]].peer = p /\ streams[pool[p]].writer \notin Gone
        /\ \A c \in 1 .. Len(streams) : c > pool[p] => streams[c].peer # p

StreamInv == SendInv /\ PoolInv

LEMMA ConnsAreIndices ==
  ASSUME PoolInv
  PROVE  Conns = 1 .. Len(streams) /\ Len(streams) \in Nat
BY DEF PoolInv, Conns

LEMMA InvServesPool == StreamInv => PoolServed
BY ConnsAreIndices DEF StreamInv, PoolInv, PoolServed, Gone

LEMMA SendersRest ==
  NotSending \in Senders /\ NotSending.at = "idle" /\ NotSending.peer = "none"
<1>1. <<>> \in Seq(StageNames)
  OBVIOUS
<1> QED
  BY <1>1 DEF NotSending, Senders

(* What a task does to its own connection does not matter to the pool as    *)
(* long as its writer stays in it.                                         *)
LEMMA TaskStep ==
  ASSUME StreamInv, NEW c \in Conns, NEW r \in Streams, streams' = [streams EXCEPT ![c] = r],
         r.peer = streams[c].peer, r.writer \in Gone => streams[c].writer \in Gone,
         UNCHANGED <<pool, handshaking>>,
         sends' = sends \/ \E s \in StreamSenders : sends' = [sends EXCEPT ![s] = NotSending]
  PROVE  StreamInv'
<1> USE DEF StreamInv
<1>1. c \in 1 .. Len(streams) /\ Len(streams) \in Nat
  BY ConnsAreIndices
<1>2. streams \in Seq(Streams)
  BY DEF PoolInv
<1>3. /\ streams' \in Seq(Streams) /\ Len(streams') = Len(streams)
      /\ \A d \in 1 .. Len(streams) : streams'[d] = IF d = c THEN r ELSE streams[d]
  BY <1>1, <1>2, ExceptSeq
<1>4. PoolInv'
  BY <1>1, <1>3 DEF PoolInv
<1>5. SendInv'
  BY <1>3, SendersRest DEF SendInv
<1> QED
  BY <1>4, <1>5

LEMMA SendStep ==
  ASSUME StreamInv, NEW s \in StreamSenders, NEW r \in Senders,
  sends' = [sends EXCEPT ![s] = r],
         r.at = "push" => r.conn \in 1 .. Len(streams),
         r.at # "idle" => r.peer \in StreamPeers,
         UNCHANGED <<streams, pool, handshaking>>
  PROVE  StreamInv'
<1>1. sends \in [StreamSenders -> Senders]
  BY DEF StreamInv, SendInv
<1>2. /\ sends' \in [StreamSenders -> Senders] /\ sends'[s] = r
      /\ \A v \in StreamSenders : v # s => sends'[v] = sends[v]
  BY <1>1
<1> QED
  BY <1>2 DEF StreamInv, SendInv, PoolInv

(* register_stream: the entry names the newest connection of its peer. *)
LEMMA Registered ==
  ASSUME PoolInv, NEW p \in StreamPeers, RegisterStream(p)
  PROVE  PoolInv' /\ Len(streams') = Len(streams) + 1 /\ Len(streams) \in Nat
<1> DEFINE n == Len(streams) + 1
<1>1. streams \in Seq(Streams) /\ Len(streams) \in Nat
  BY DEF PoolInv
<1>2. NewStream(p) \in Streams /\ NewStream(p).peer = p /\ NewStream(p).writer \notin Gone
  BY DEF NewStream, Streams, Gone
<1>3. /\ streams' \in Seq(Streams) /\ Len(streams') = n /\ streams'[n] = NewStream(p)
      /\ \A c \in 1 .. Len(streams) : streams'[c] = streams[c]
  BY <1>1, <1>2 DEF RegisterStream
<1>4. /\ DOMAIN pool' = DOMAIN pool \cup {p} /\ pool'[p] = n
      /\ \A q \in DOMAIN pool : q # p => pool'[q] = pool[q]
  BY DEF RegisterStream, PoolWith
<1>5. ASSUME NEW q \in DOMAIN pool'
      PROVE  /\ q \in StreamPeers /\ pool'[q] \in 1 .. n
             /\ streams'[pool'[q]].peer = q /\ streams'[pool'[q]].writer \notin Gone
             /\ \A c \in 1 .. n : c > pool'[q] => streams'[c].peer # q
  <2>1. CASE q = p
    BY <2>1, <1>1, <1>2, <1>3, <1>4
  <2>2. CASE q # p
    <3>1. q \in DOMAIN pool /\ pool'[q] = pool[q]
      BY <2>2, <1>4
    <3>2. /\ q \in StreamPeers /\ pool[q] \in 1 .. Len(streams)
          /\ streams[pool[q]].peer = q /\ streams[pool[q]].writer \notin Gone
          /\ \A c \in 1 .. Len(streams) : c > pool[q] => streams[c].peer # q
      BY <3>1 DEF PoolInv
    <3>3. \A c \in 1 .. n : c \in 1 .. Len(streams) \/ c = n
      BY <1>1
    <3> QED
      BY <2>2, <3>1, <3>2, <3>3, <1>1, <1>2, <1>3
  <2> QED
    BY <2>1, <2>2
<1>6. PoolInv'
  BY <1>3, <1>5 DEF PoolInv
<1> QED
  BY <1>1, <1>3, <1>6

LEMMA Evicted ==
  ASSUME PoolInv, NEW p, pool' = PoolWithout(p), UNCHANGED streams
  PROVE  PoolInv'
<1>1. DOMAIN pool' = DOMAIN pool \ {p} /\ \A q \in DOMAIN pool' : pool'[q] = pool[q]
  BY DEF PoolWithout, Restrict
<1> QED
  BY <1>1 DEF PoolInv

LEMMA StreamInitInv == StreamInit => StreamInv
<1> SUFFICES ASSUME StreamInit PROVE StreamInv
  OBVIOUS
<1>1. PoolInv
  <2>1. DOMAIN pool = {} /\ streams \in Seq(Streams)
    BY DEF StreamInit
  <2> QED
    BY <2>1 DEF PoolInv
<1>2. SendInv
  <2>1. \A s \in StreamSenders : sends[s] = NotSending
    BY DEF StreamInit
  <2> QED
    BY <2>1, SendersRest DEF SendInv, StreamInit
<1> QED
  BY <1>1, <1>2 DEF StreamInv

LEMMA WriterCancelledInv ==
  ASSUME StreamInv, NEW c \in Conns, WriterCancelled(c)
  PROVE  StreamInv'
<1>1. streams[c] \in Streams
  BY ConnsAreIndices DEF StreamInv, PoolInv
<1> DEFINE r == [streams[c] EXCEPT !.writer = "closing"]
<1>2. r \in Streams /\ r.peer = streams[c].peer
      /\ (r.writer \in Gone => streams[c].writer \in Gone)
  BY <1>1 DEF WriterCancelled, Streams, Gone
<1>3. streams' = [streams EXCEPT ![c] = r]
  BY DEF WriterCancelled
<1> QED
  BY <1>2, <1>3, TaskStep DEF WriterCancelled

LEMMA WriterTakesInv ==
  ASSUME StreamInv, NEW c \in Conns, WriterTakes(c)
  PROVE  StreamInv'
<1>1. streams[c] \in Streams
  BY ConnsAreIndices DEF StreamInv, PoolInv
<1> DEFINE r == [streams[c] EXCEPT !.writer = "writing", !.queue = streams[c].queue - 1]
<1> streams[c].queue - 1 \in Nat
  BY <1>1 DEF WriterTakes, Streams
<1>2. r \in Streams /\ r.peer = streams[c].peer
      /\ (r.writer \in Gone => streams[c].writer \in Gone)
  BY <1>1 DEF WriterTakes, Streams, Gone
<1>3. streams' = [streams EXCEPT ![c] = r]
  BY DEF WriterTakes
<1> QED
  BY <1>2, <1>3, TaskStep DEF WriterTakes

LEMMA WriterEndsInv ==
  ASSUME StreamInv, NEW c \in Conns, WriterEnds(c)
  PROVE  StreamInv'
<1>1. streams[c] \in Streams
  BY ConnsAreIndices DEF StreamInv, PoolInv
<1> DEFINE r == [streams[c] EXCEPT !.writer = "done", !.cancel = TRUE]
<1>2. r \in Streams /\ r.peer = streams[c].peer
      /\ (r.writer \in Gone => streams[c].writer \in Gone)
  BY <1>1 DEF WriterEnds, Streams, Gone
<1>3. streams' = [streams EXCEPT ![c] = r]
  BY DEF WriterEnds
<1> QED
  BY <1>2, <1>3, TaskStep DEF WriterEnds

LEMMA StreamReaderEndsInv ==
  ASSUME StreamInv, NEW c \in Conns, StreamReaderEnds(c)
  PROVE  StreamInv'
<1>1. streams[c] \in Streams
  BY ConnsAreIndices DEF StreamInv, PoolInv
<1> DEFINE r == [streams[c] EXCEPT !.reader = "done", !.cancel = TRUE]
<1>2. r \in Streams /\ r.peer = streams[c].peer
      /\ (r.writer \in Gone => streams[c].writer \in Gone)
  BY <1>1 DEF StreamReaderEnds, Streams, Gone
<1>3. streams' = [streams EXCEPT ![c] = r]
  BY DEF StreamReaderEnds
<1> QED
  BY <1>2, <1>3, TaskStep DEF StreamReaderEnds

LEMMA IdleTimeoutInv ==
  ASSUME StreamInv, NEW c \in Conns, IdleTimeout(c)
  PROVE  StreamInv'
<1>1. streams[c] \in Streams
  BY ConnsAreIndices DEF StreamInv, PoolInv
<1> DEFINE r == [streams[c] EXCEPT !.reader = "done", !.cancel = TRUE]
<1>2. r \in Streams /\ r.peer = streams[c].peer
      /\ (r.writer \in Gone => streams[c].writer \in Gone)
  BY <1>1 DEF IdleTimeout, Streams, Gone
<1>3. streams' = [streams EXCEPT ![c] = r]
  BY DEF IdleTimeout
<1> QED
  BY <1>2, <1>3, TaskStep DEF IdleTimeout

LEMMA OverflowClosesInv ==
  ASSUME StreamInv, NEW c \in Conns, OverflowCloses(c)
  PROVE  StreamInv'
<1>1. streams[c] \in Streams
  BY ConnsAreIndices DEF StreamInv, PoolInv
<1> DEFINE r == [streams[c] EXCEPT !.reader = "done", !.cancel = TRUE]
<1>2. r \in Streams /\ r.peer = streams[c].peer
      /\ (r.writer \in Gone => streams[c].writer \in Gone)
  BY <1>1 DEF OverflowCloses, Streams, Gone
<1>3. streams' = [streams EXCEPT ![c] = r]
  BY DEF OverflowCloses
<1> QED
  BY <1>2, <1>3, TaskStep DEF OverflowCloses

LEMMA PartialWaitsInv ==
  ASSUME StreamInv, NEW c \in Conns, PartialWaits(c)
  PROVE  StreamInv'
<1>1. streams[c] \in Streams
  BY ConnsAreIndices DEF StreamInv, PoolInv
<1> DEFINE r == [streams[c] EXCEPT !.reader = "reading"]
<1>2. r \in Streams /\ r.peer = streams[c].peer
      /\ (r.writer \in Gone => streams[c].writer \in Gone)
  BY <1>1 DEF PartialWaits, Streams, Gone
<1>3. streams' = [streams EXCEPT ![c] = r]
  BY DEF PartialWaits
<1> QED
  BY <1>2, <1>3, TaskStep DEF PartialWaits

LEMMA PeerClosesInv ==
  ASSUME StreamInv, NEW c \in Conns, PeerCloses(c)
  PROVE  StreamInv'
<1>1. streams[c] \in Streams
  BY ConnsAreIndices DEF StreamInv, PoolInv
<1> DEFINE r == [streams[c] EXCEPT !.peerOpen = FALSE]
<1>2. r \in Streams /\ r.peer = streams[c].peer
      /\ (r.writer \in Gone => streams[c].writer \in Gone)
  BY <1>1 DEF PeerCloses, Streams, Gone
<1>3. streams' = [streams EXCEPT ![c] = r]
  BY DEF PeerCloses
<1> QED
  BY <1>2, <1>3, TaskStep DEF PeerCloses

LEMMA WriterWritesInv ==
  ASSUME StreamInv, NEW c \in Conns, WriterWrites(c)
  PROVE  StreamInv'
<1>1. streams[c] \in Streams
  BY ConnsAreIndices DEF StreamInv, PoolInv
<1>2. CASE streams' = [streams EXCEPT ![c].writer = "waiting"]
  <2> DEFINE r == [streams[c] EXCEPT !.writer = "waiting"]
  <2>1. r \in Streams /\ r.peer = streams[c].peer
        /\ (r.writer \in Gone => streams[c].writer \in Gone)
    BY <1>1, <1>2 DEF WriterWrites, Streams, Gone
  <2>2. streams' = [streams EXCEPT ![c] = r]
    BY <1>2
  <2> QED
    BY <2>1, <2>2, TaskStep DEF WriterWrites
<1>3. CASE streams' = [streams EXCEPT ![c].writer = "closing"]
  <2> DEFINE r == [streams[c] EXCEPT !.writer = "closing"]
  <2>1. r \in Streams /\ r.peer = streams[c].peer
        /\ (r.writer \in Gone => streams[c].writer \in Gone)
    BY <1>1, <1>3 DEF WriterWrites, Streams, Gone
  <2>2. streams' = [streams EXCEPT ![c] = r]
    BY <1>3
  <2> QED
    BY <2>1, <2>2, TaskStep DEF WriterWrites
<1> QED
  BY <1>2, <1>3 DEF WriterWrites

LEMMA ReaderDeliversInv ==
  ASSUME StreamInv, NEW c \in Conns, ReaderDelivers(c)
  PROVE  StreamInv'
<1>1. streams[c] \in Streams
  BY ConnsAreIndices DEF StreamInv, PoolInv
<1>2. CASE streams' = [streams EXCEPT ![c].parsed = @ - 1]
  <2> DEFINE r == [streams[c] EXCEPT !.parsed = streams[c].parsed - 1]
  <2>1. r \in Streams /\ r.peer = streams[c].peer
        /\ (r.writer \in Gone => streams[c].writer \in Gone)
    BY <1>1, <1>2 DEF ReaderDelivers, Streams, Gone
  <2>2. streams' = [streams EXCEPT ![c] = r]
    BY <1>2
  <2> QED
    BY <2>1, <2>2, TaskStep DEF ReaderDelivers
<1>3. CASE streams' = [streams EXCEPT ![c].reader = "done", ![c].cancel = TRUE]
  <2> DEFINE r == [streams[c] EXCEPT !.reader = "done", !.cancel = TRUE]
  <2>1. r \in Streams /\ r.peer = streams[c].peer
        /\ (r.writer \in Gone => streams[c].writer \in Gone)
    BY <1>1, <1>3 DEF ReaderDelivers, Streams, Gone
  <2>2. streams' = [streams EXCEPT ![c] = r]
    BY <1>3
  <2> QED
    BY <2>1, <2>2, TaskStep DEF ReaderDelivers
<1> QED
  BY <1>2, <1>3 DEF ReaderDelivers

LEMMA StreamReadsInv ==
  ASSUME StreamInv, NEW c \in Conns, NEW n \in 0 .. 1, NEW ending \in {"partial", "overflow"},
  StreamReads(c, n, ending)
  PROVE  StreamInv'
<1>1. streams[c] \in Streams
  BY ConnsAreIndices DEF StreamInv, PoolInv
<1> DEFINE r == [streams[c] EXCEPT !.reader = "framing", !.parsed = n, !.ending = ending]
<1> n \in Nat
  OBVIOUS
<1>2. r \in Streams /\ r.peer = streams[c].peer
      /\ (r.writer \in Gone => streams[c].writer \in Gone)
  BY <1>1 DEF StreamReads, Streams, Gone
<1>3. streams' = [streams EXCEPT ![c] = r]
  BY DEF StreamReads
<1> QED
  BY <1>2, <1>3, TaskStep DEF StreamReads

(* The writer takes its own entry out before it is gone. *)
LEMMA WriterLeavesPoolInv ==
  ASSUME StreamInv, NEW c \in Conns, WriterLeavesPool(c)
  PROVE  StreamInv'
<1> USE DEF StreamInv
<1> DEFINE r == [streams[c] EXCEPT !.writer = "left"]
<1>1. c \in 1 .. Len(streams) /\ streams \in Seq(Streams) /\ streams[c] \in Streams
  BY ConnsAreIndices DEF PoolInv
<1>2. r \in Streams /\ r.peer = streams[c].peer
  BY <1>1 DEF Streams, Gone
<1>3. streams' = [streams EXCEPT ![c] = r]
  BY DEF WriterLeavesPool
<1>4. /\ streams' \in Seq(Streams) /\ Len(streams') = Len(streams)
      /\ \A d \in 1 .. Len(streams) : streams'[d] = IF d = c THEN r ELSE streams[d]
  BY <1>1, <1>2, <1>3, ExceptSeq
<1>5. \A q \in DOMAIN pool' : q \in DOMAIN pool /\ pool'[q] = pool[q] /\ pool[q] # c
  <2>1. \A q \in DOMAIN pool : pool[q] = c => q = streams[c].peer
    BY DEF PoolInv
  <2> QED
    BY <2>1 DEF WriterLeavesPool, PoolWithout, Restrict
<1>6. PoolInv'
  <2> SUFFICES ASSUME NEW q \in DOMAIN pool'
               PROVE  /\ q \in StreamPeers /\ pool'[q] \in 1 .. Len(streams')
                      /\ streams'[pool'[q]].peer = q /\ streams'[pool'[q]].writer \notin Gone
                      /\ \A d \in 1 .. Len(streams') : d > pool'[q] => streams'[d].peer # q
    BY <1>4 DEF PoolInv
  <2>1. /\ q \in StreamPeers /\ pool[q] \in 1 .. Len(streams) /\ pool[q] # c
        /\ pool'[q] = pool[q]
        /\ streams[pool[q]].peer = q /\ streams[pool[q]].writer \notin Gone
        /\ \A d \in 1 .. Len(streams) : d > pool[q] => streams[d].peer # q
    BY <1>5 DEF PoolInv
  <2> HIDE DEF r
  <2> QED
    BY <1>1, <1>2, <1>4, <2>1
<1>7. SendInv'
  BY <1>4 DEF WriterLeavesPool, SendInv
<1> QED
  BY <1>6, <1>7

LEMMA SendStartsInv ==
  ASSUME StreamInv, NEW s \in StreamSenders, NEW p \in StreamPeers, SendStarts(s, p)
  PROVE  StreamInv'
<1> DEFINE push == [NotSending EXCEPT !.at = "push", !.peer = p, !.conn = pool[p]]
           evict == [NotSending EXCEPT !.at = "evict", !.peer = p]
<1>1. CASE p \in DOMAIN pool
  <2>1. pool[p] \in 1 .. Len(streams) /\ pool[p] \in Nat
    BY <1>1 DEF StreamInv, PoolInv
  <2>2. push \in Senders /\ push.at = "push" /\ push.conn = pool[p] /\ push.peer = p
    BY <2>1, SendersRest DEF Senders
  <2>3. sends' = [sends EXCEPT ![s] = push]
    BY <1>1 DEF SendStarts
  <2>4. UNCHANGED <<streams, pool, handshaking>>
    BY DEF SendStarts
  <2> HIDE DEF push
  <2> QED
    BY <2>1, <2>2, <2>3, <2>4, SendStep
<1>2. CASE p \notin DOMAIN pool /\ streamKind = "tcp"
  <2>1. evict \in Senders /\ evict.at = "evict" /\ evict.peer = p
    BY SendersRest DEF Senders
  <2>2. sends' = [sends EXCEPT ![s] = evict]
    BY <1>2 DEF SendStarts
  <2>3. UNCHANGED <<streams, pool, handshaking>>
    BY DEF SendStarts
  <2> HIDE DEF evict
  <2> QED
    BY <2>1, <2>2, <2>3, SendStep
<1>3. CASE p \notin DOMAIN pool /\ streamKind # "tcp"
  BY <1>3, SendersRest, SendStep DEF SendStarts
<1> QED
  BY <1>1, <1>2, <1>3

LEMMA SendPushesInv ==
  ASSUME StreamInv, NEW s \in StreamSenders, SendPushes(s)
  PROVE  StreamInv'
<1> DEFINE c == sends[s].conn
           r == [streams[c] EXCEPT !.queue = @ + 1]
           j == [sends[s] EXCEPT !.at = "evict"]
<1>1. c \in Conns /\ streams[c] \in Streams /\ sends[s] \in Senders
      /\ sends[s].peer \in StreamPeers \cup {"none"}
  BY ConnsAreIndices DEF StreamInv, PoolInv, SendInv, SendPushes, Senders
<1>2. CASE streams' = [streams EXCEPT ![c].queue = @ + 1]
           /\ sends' = [sends EXCEPT ![s] = NotSending]
  <2>1. r \in Streams /\ r.peer = streams[c].peer /\ r.writer = streams[c].writer
    BY <1>1 DEF Streams
  <2>2. streams' = [streams EXCEPT ![c] = r]
    BY <1>2
  <2> QED
    BY <1>1, <1>2, <2>1, <2>2, TaskStep DEF SendPushes
<1>3. CASE sends' = [sends EXCEPT ![s] = NotSending] /\ UNCHANGED streams
  BY <1>3, SendersRest, SendStep DEF SendPushes
<1>4. CASE sends' = [sends EXCEPT ![s] = j] /\ UNCHANGED streams
  <2>1. j \in Senders /\ j.at = "evict" /\ j.peer = sends[s].peer
    BY <1>1 DEF Senders
  <2>2. sends[s].peer \in StreamPeers
    BY DEF StreamInv, SendInv, SendPushes
  <2> QED
    BY <1>4, <2>1, <2>2, SendStep DEF SendPushes
<1> QED
  BY <1>2, <1>3, <1>4 DEF SendPushes

LEMMA StagesTyped == ConnectStages \in Seq(StageNames)
<1>1. <<"dial">> \in Seq(StageNames) /\ <<"dial", "status">> \in Seq(StageNames)
  BY DEF StageNames
<1>2. <<"dial", "method", "auth", "reply">> \in Seq(StageNames)
  BY DEF StageNames
<1> QED
  BY <1>1, <1>2, StreamAssumption DEF DirectConnector, Socks5Connector, HttpConnectConnector

LEMMA SendEvictsInv ==
  ASSUME StreamInv, NEW s \in StreamSenders, SendEvicts(s)
  PROVE  StreamInv'
<1> DEFINE j == [sends[s] EXCEPT !.at = "connect", !.stages = ConnectStages]
<1>1. sends[s] \in Senders /\ sends[s].peer \in StreamPeers
  BY DEF StreamInv, SendInv, SendEvicts
<1>2. j \in Senders /\ j.at = "connect" /\ j.peer = sends[s].peer
  BY <1>1, StagesTyped DEF Senders
<1>3. sends' = [sends EXCEPT ![s] = j]
  BY DEF SendEvicts
<1>4. PoolInv'
  BY Evicted DEF StreamInv, SendEvicts
<1>5. SendInv'
  <2>1. sends' \in [StreamSenders -> Senders] /\ sends'[s] = j
        /\ \A v \in StreamSenders : v # s => sends'[v] = sends[v]
    BY <1>2, <1>3 DEF StreamInv, SendInv
  <2> QED
    BY <2>1, <1>1, <1>2 DEF StreamInv, SendInv, SendEvicts
<1> QED
  BY <1>4, <1>5 DEF StreamInv

LEMMA ConnectStepInv ==
  ASSUME StreamInv, NEW s \in StreamSenders, ConnectStep(s)
  PROVE  StreamInv'
<1> DEFINE j == [sends[s] EXCEPT !.stages = Tail(@)]
<1>1. sends[s] \in Senders /\ sends[s].peer \in StreamPeers /\ sends[s].at = "connect"
      /\ sends[s].stages # <<>>
  BY DEF StreamInv, SendInv, ConnectStep
<1>2. CASE sends' = [sends EXCEPT ![s] = j]
  <2> sends[s].stages \in Seq(StageNames)
    BY <1>1 DEF Senders
  <2>1. Tail(sends[s].stages) \in Seq(StageNames)
    BY <1>1
  <2>2. j \in Senders /\ j.at = "connect" /\ j.peer = sends[s].peer
    BY <1>1, <2>1 DEF Senders
  <2> QED
    BY <1>1, <1>2, <2>2, SendStep DEF ConnectStep
<1>3. CASE sends' = [sends EXCEPT ![s] = NotSending]
  BY <1>3, SendersRest, SendStep DEF ConnectStep
<1> QED
  BY <1>2, <1>3 DEF ConnectStep

LEMMA SendRegistersInv ==
  ASSUME StreamInv, NEW s \in StreamSenders, SendRegisters(s)
  PROVE  StreamInv'
<1> DEFINE n == Len(streams) + 1
           j == [sends[s] EXCEPT !.at = "push", !.conn = n, !.redialled = TRUE]
<1>1. sends[s] \in Senders /\ sends[s].peer \in StreamPeers
  BY DEF StreamInv, SendInv, SendRegisters
<1>2. PoolInv' /\ Len(streams') = Len(streams) + 1 /\ Len(streams) \in Nat
  BY <1>1, Registered DEF StreamInv, SendRegisters
<1> n \in Nat
  BY <1>2
<1> HIDE DEF n
<1>3. j \in Senders /\ j.at = "push" /\ j.conn = n /\ j.peer = sends[s].peer
  BY <1>1 DEF Senders
<1>4. sends' = [sends EXCEPT ![s] = j]
  BY DEF SendRegisters, n
<1>5. sends' \in [StreamSenders -> Senders] /\ sends'[s] = j
      /\ \A v \in StreamSenders : v # s => sends'[v] = sends[v]
  BY <1>3, <1>4 DEF StreamInv, SendInv
<1> HIDE DEF j
<1>6. SendInv'
  BY <1>1, <1>2, <1>3, <1>5 DEF StreamInv, SendInv, SendRegisters, n
<1> QED
  BY <1>2, <1>6 DEF StreamInv

(* The accept loops. *)
LEMMA AcceptsInv ==
  ASSUME StreamInv, NEW p \in StreamPeers, AcceptTcp(p) \/ AcceptTls(p) \/ TlsHandshake(p)
  PROVE  StreamInv'
<1>1. CASE RegisterStream(p) /\ UNCHANGED sends /\ handshaking' \subseteq handshaking
  <2>1. PoolInv' /\ Len(streams') = Len(streams) + 1 /\ Len(streams) \in Nat
    BY <1>1, Registered DEF StreamInv
  <2> QED
    BY <1>1, <2>1 DEF StreamInv, SendInv
<1>2. CASE UNCHANGED <<streams, pool, sends>> /\ handshaking' \subseteq handshaking \cup {p}
  BY <1>2 DEF StreamInv, SendInv, PoolInv
<1> QED
  BY <1>1, <1>2 DEF AcceptTcp, AcceptTls, TlsHandshake

LEMMA StreamStepInv == StreamInv /\ [StreamNext]_streamVars => StreamInv'
<1> SUFFICES ASSUME StreamInv, [StreamNext]_streamVars PROVE StreamInv'
  OBVIOUS
<1>1. CASE \E p \in StreamPeers : AcceptTcp(p) \/ AcceptTls(p) \/ TlsHandshake(p)
  BY <1>1, AcceptsInv
<1>2. CASE \E s \in StreamSenders, p \in StreamPeers : SendStarts(s, p)
  BY <1>2, SendStartsInv
<1>3. CASE \E s \in StreamSenders :
             SendPushes(s) \/ SendEvicts(s) \/ ConnectStep(s) \/ SendRegisters(s)
  BY <1>3, SendPushesInv, SendEvictsInv, ConnectStepInv, SendRegistersInv
<1>4. CASE \E c \in Conns :
             \/ WriterCancelled(c) \/ WriterTakes(c) \/ WriterWrites(c)
             \/ WriterLeavesPool(c) \/ WriterEnds(c)
             \/ StreamReaderEnds(c) \/ IdleTimeout(c) \/ ReaderDelivers(c)
             \/ OverflowCloses(c) \/ PartialWaits(c)
             \/ \E n \in 0..1, ending \in {"partial", "overflow"} : StreamReads(c, n, ending)
             \/ PeerCloses(c)
  BY <1>4, WriterCancelledInv, WriterTakesInv, WriterWritesInv, WriterLeavesPoolInv,
     WriterEndsInv,
     StreamReaderEndsInv, IdleTimeoutInv, ReaderDeliversInv, OverflowClosesInv, PartialWaitsInv,
     StreamReadsInv, PeerClosesInv
<1>5. CASE UasReceives \/ StreamShutdown \/ UNCHANGED streamVars
  BY <1>5 DEF UasReceives, StreamShutdown, streamVars, StreamInv, SendInv, PoolInv
<1> QED
  BY <1>1, <1>2, <1>3, <1>4, <1>5 DEF StreamNext

(* For any number of peers, callers and connections and any queue, an entry *)
(* of the pool names a connection of its peer whose writer still runs, the *)
(* newest that does (stream.rs: register_stream, PoolSlot; tcp.rs: send).  *)
THEOREM PoolIsServed == StreamSpec => []PoolServed
BY StreamInitInv, StreamStepInv, InvServesPool, PTL DEF StreamSpec
-----------------------------------------------------------------------------
(* Script plugins *)

CallerSteps == {"idle", "call", "timedOut", "ok", "error", "rollback", "restore"}
InvocationSet == [caller : CallerSteps, script : {"none", "queued", "running"}, runtime : Nat,
                  generation : Nat]
Made(r) == r \in 1 .. Len(compiled)

ScriptType ==
    /\ compiled \in Seq(Sources) /\ Len(compiled) <= MaxCompiles
    /\ invocation \in [ScriptCallers -> InvocationSet]
    /\ generations \in [Runtimes -> Nat] /\ stopAsked \in [Runtimes -> Nat]
    /\ restoring \in [ScriptCallers -> Nat]
    /\ DOMAIN editor = Editors

(* A call that is not over is the only one of its generation, and while    *)
(* its caller waits nobody has asked to stop that generation.              *)
Under(c) == invocation[c].caller # "idle" \/ invocation[c].script # "none"
GenerationInv ==
    /\ \A r \in Runtimes : stopAsked[r] <= generations[r]
    /\ \A c \in ScriptCallers : Under(c) =>
         /\ Made(invocation[c].runtime)
         /\ invocation[c].generation <= generations[invocation[c].runtime]
    /\ \A c, d \in ScriptCallers :
         Under(c) /\ Under(d) /\ invocation[c].runtime = invocation[d].runtime
             /\ invocation[c].generation = invocation[d].generation => c = d
    /\ \A c \in ScriptCallers : invocation[c].caller = "call" =>
         stopAsked[invocation[c].runtime] # invocation[c].generation

(* Every runtime on its way to be the hot one keeps the contract: the      *)
(* retained one, the one a rollback has taken and the one about to be      *)
(* swapped in.                                                             *)
Keeps(r) == Made(r) /\ SameCapabilities(r)
ContractInv ==
    /\ Keeps(hot)
    /\ previous # NoRuntime => Keeps(previous)
    /\ \A c \in ScriptCallers : invocation[c].caller = "restore" => Keeps(restoring[c])
    /\ \A e \in Editors : editor[e].at = "describe" => Made(editor[e].runtime)
    /\ \A e \in Editors : editor[e].at = "swap" => Keeps(editor[e].runtime)

SourceInv == entryFile \in Sources /\ newFile \in Sources \cup {"absent"}

ScriptInv == ScriptType /\ GenerationInv /\ ContractInv /\ StopsItsOwn

LEMMA ScriptStarts == ScriptInit => ScriptInv
<1> SUFFICES ASSUME ScriptInit PROVE ScriptInv OBVIOUS
<1>1. ScriptType
    BY ScriptAssumption
    DEF ScriptInit, ScriptType, NoInvocation, InvocationSet, CallerSteps, NoRuntime
<1>2. GenerationInv BY DEF ScriptInit, GenerationInv, NoInvocation, Under
<1>3. ContractInv BY DEF ScriptInit, ContractInv, Keeps, Made, SameCapabilities, NoInvocation
<1> QED BY <1>1, <1>2, <1>3 DEF ScriptInv, StopsItsOwn, ScriptInit

(* Runtimes that exist are runtimes, and the tables have a place for them. *)
LEMMA MadeIsRuntime == ASSUME ScriptType, NEW r, Made(r) PROVE r \in Runtimes /\ r \in Nat
BY ScriptAssumption DEF ScriptType, Made, Runtimes

(* A call whose caller and script move on, on no other runtime. *)
LEMMA CallMoves ==
    ASSUME NEW c \in ScriptCallers, ScriptInv, Under(c),
           NEW x \in InvocationSet, invocation' = [invocation EXCEPT ![c] = x],
           x.runtime = invocation[c].runtime, x.generation = invocation[c].generation,
           x.caller = "call" => invocation[c].caller = "call",
           UNCHANGED <<compiled, generations, stopAsked>>
    PROVE  GenerationInv' /\ invocation' \in [ScriptCallers -> InvocationSet]
<1>1. invocation' \in [ScriptCallers -> InvocationSet] BY DEF ScriptInv, ScriptType
<1>2. \A d \in ScriptCallers :
          /\ invocation'[d].runtime = invocation[d].runtime
          /\ invocation'[d].generation = invocation[d].generation
          /\ Under(d)' => Under(d)
          /\ invocation'[d].caller = "call" => invocation[d].caller = "call"
    BY DEF ScriptInv, ScriptType, Under
<1> QED BY <1>1, <1>2 DEF ScriptInv, GenerationInv, Made

(* Nothing that was compiled is compiled again. *)
LEMMA ContractKept ==
    ASSUME ScriptInv, UNCHANGED <<compiled, hot, previous, restoring, editor>>,
           \A c \in ScriptCallers : invocation'[c].caller = "restore" => invocation[c].caller = "restore"
    PROVE  ContractInv'
BY DEF ScriptInv, ContractInv, Keeps, Made, SameCapabilities

LEMMA InvokeKeeps == ASSUME NEW c \in ScriptCallers, ScriptInv, Invoke(c) PROVE ScriptInv'
<1> USE DEF ScriptInv
<1>1. Made(hot) /\ hot \in Runtimes /\ hot \in Nat BY MadeIsRuntime DEF ContractInv, Keeps
<1>2. generations[hot] \in Nat /\ stopAsked[hot] \in Nat /\ stopAsked[hot] <= generations[hot]
    BY <1>1 DEF ScriptType, GenerationInv
<1> DEFINE x == [caller |-> "call", script |-> "queued", runtime |-> hot, generation |-> generations[hot] + 1]
<1>3. x \in InvocationSet BY <1>1, <1>2 DEF InvocationSet, CallerSteps
<1>4. /\ x.caller = "call" /\ x.script = "queued" /\ x.runtime = hot /\ x.generation = generations[hot] + 1
    OBVIOUS
<1>5. invocation' = [invocation EXCEPT ![c] = x] /\ generations' = [generations EXCEPT ![hot] = generations[hot] + 1]
      /\ ~Under(c) /\ UNCHANGED <<compiled, stopAsked, restoring, editor, hot, previous, interrupted>>
    BY DEF Invoke, NextGeneration, Under, providerVars, historyVars
<1> HIDE DEF x
<1>6. ScriptType' BY <1>1, <1>2, <1>3, <1>5 DEF ScriptType
<1>7. \A d \in ScriptCallers \ {c} : invocation'[d] = invocation[d] BY <1>5 DEF ScriptType
<1>8. invocation'[c] = x BY <1>5 DEF ScriptType
<1>9. \A r \in Runtimes : generations'[r] = IF r = hot THEN generations[hot] + 1 ELSE generations[r]
    BY <1>1, <1>5 DEF ScriptType
<1>10. GenerationInv'
  <2>1. \A r \in Runtimes : generations[r] \in Nat /\ stopAsked[r] \in Nat BY DEF ScriptType
  <2>2. \A d \in ScriptCallers \ {c} : Under(d)' =>
            Under(d) /\ Made(invocation[d].runtime) /\ invocation[d].runtime \in Runtimes
            /\ invocation[d].generation <= generations[invocation[d].runtime]
            /\ invocation[d].generation \in Nat
    BY <1>7, MadeIsRuntime DEF GenerationInv, Under, ScriptType, InvocationSet
  <2>3. \A r \in Runtimes : stopAsked'[r] <= generations'[r] BY <1>5, <1>9, <2>1 DEF GenerationInv
  <2>4. ASSUME NEW d \in ScriptCallers, Under(d)'
        PROVE  /\ invocation'[d].runtime \in 1 .. Len(compiled')
               /\ invocation'[d].generation <= generations'[invocation'[d].runtime]
    <3>1. CASE d = c BY <1>1, <1>2, <1>4, <1>5, <1>8, <1>9, <3>1 DEF Made
    <3>2. CASE d # c BY <1>5, <1>7, <1>9, <2>1, <2>2, <2>4, <3>2 DEF Made
    <3> QED BY <3>1, <3>2
  <2>5. ASSUME NEW d \in ScriptCallers \ {c}, Under(d)', invocation'[d].runtime = hot
        PROVE  invocation'[d].generation # generations[hot] + 1
    BY <1>1, <1>2, <1>7, <2>2, <2>5
  <2>6. ASSUME NEW d \in ScriptCallers, NEW f \in ScriptCallers, Under(d)', Under(f)',
               invocation'[d].runtime = invocation'[f].runtime,
               invocation'[d].generation = invocation'[f].generation
        PROVE  d = f
    <3>1. CASE d # c /\ f # c BY <1>7, <2>2, <2>6, <3>1 DEF GenerationInv
    <3>2. CASE d = c /\ f # c BY <1>4, <1>8, <2>5, <2>6, <3>2
    <3>3. CASE f = c /\ d # c BY <1>4, <1>8, <2>5, <2>6, <3>3
    <3> QED BY <3>1, <3>2, <3>3
  <2>7. ASSUME NEW d \in ScriptCallers, invocation'[d].caller = "call"
        PROVE  stopAsked'[invocation'[d].runtime] # invocation'[d].generation
    <3>1. CASE d = c BY <1>2, <1>4, <1>5, <1>8, <3>1
    <3>2. CASE d # c BY <1>5, <1>7, <2>7, <3>2 DEF GenerationInv
    <3> QED BY <3>1, <3>2
  <2> QED BY <2>3, <2>4, <2>6, <2>7 DEF GenerationInv, Made
<1>11. ContractInv'
    BY <1>4, <1>5, <1>7, <1>8, ContractKept
<1> QED BY <1>5, <1>6, <1>10, <1>11 DEF StopsItsOwn

(* What a step of one call does to the invariant, given what it makes of   *)
(* the call: it neither starts to wait nor takes a runtime to restore.     *)
LEMMA OneCallKeeps ==
    ASSUME NEW c \in ScriptCallers, ScriptInv, Under(c),
           NEW x \in InvocationSet, invocation' = [invocation EXCEPT ![c] = x],
           x.runtime = invocation[c].runtime, x.generation = invocation[c].generation,
           x.caller = "call" => invocation[c].caller = "call",
           x.caller = "restore" => invocation[c].caller = "restore",
           StopsItsOwn',
           UNCHANGED <<compiled, generations, stopAsked, hot, previous, restoring, editor>>
    PROVE  ScriptInv'
<1>1. GenerationInv' /\ invocation' \in [ScriptCallers -> InvocationSet] BY CallMoves
<1>2. ScriptType' BY <1>1 DEF ScriptInv, ScriptType
<1>3. \A d \in ScriptCallers : invocation'[d].caller = "restore" => invocation[d].caller = "restore"
    BY DEF ScriptInv, ScriptType
<1>4. ContractInv' BY <1>3, ContractKept
<1> QED BY <1>1, <1>2, <1>4 DEF ScriptInv

LEMMA TakeLaneKeeps == ASSUME NEW c \in ScriptCallers, ScriptInv, TakeLane(c) PROVE ScriptInv'
<1> DEFINE x == [invocation[c] EXCEPT !.script = "running"]
<1>1. x \in InvocationSet /\ x.runtime = invocation[c].runtime
      /\ x.generation = invocation[c].generation /\ x.caller = invocation[c].caller
    BY DEF ScriptInv, ScriptType, InvocationSet
<1>2. Under(c) /\ invocation' = [invocation EXCEPT ![c] = x]
      /\ UNCHANGED <<compiled, generations, stopAsked, hot, previous, restoring, editor>>
    BY DEF TakeLane, Under, providerVars
<1>3. StopsItsOwn' BY DEF TakeLane, historyVars, ScriptInv, StopsItsOwn
<1> HIDE DEF x
<1> QED BY <1>1, <1>2, <1>3, OneCallKeeps

LEMMA ScriptEndsKeeps ==
    ASSUME NEW c \in ScriptCallers, ScriptInv, invocation[c].script = "running", StopsItsOwn',
           NEW outcome \in {"ok", "error"}, ScriptEnds(c, outcome)
    PROVE  ScriptInv'
<1> DEFINE y == IF invocation[c].caller = "call" THEN outcome ELSE invocation[c].caller
           x == [invocation[c] EXCEPT !.script = "none", !.caller = y]
<1>1. y \in CallerSteps /\ y # "call" /\ (y = "restore" => invocation[c].caller = "restore")
    BY DEF ScriptInv, ScriptType, InvocationSet, CallerSteps
<1>2. Under(c) /\ invocation' = [invocation EXCEPT ![c] = x]
      /\ UNCHANGED <<compiled, generations, stopAsked, hot, previous, restoring, editor>>
    BY DEF ScriptEnds, Under, providerVars, ScriptInv, ScriptType, InvocationSet
<1> HIDE DEF y
<1>3. x \in InvocationSet /\ x.runtime = invocation[c].runtime
      /\ x.generation = invocation[c].generation /\ x.caller = y
    BY <1>1 DEF ScriptInv, ScriptType, InvocationSet
<1> HIDE DEF x
<1> QED BY <1>1, <1>2, <1>3, OneCallKeeps

(* A script that its stop flag ends has no caller waiting for it. *)
LEMMA StopScriptKeeps == ASSUME NEW c \in ScriptCallers, ScriptInv, StopScript(c) PROVE ScriptInv'
<1>1. invocation[c].caller # "call" BY DEF StopScript, ShouldStop, ScriptInv, GenerationInv
<1>2. StopsItsOwn' BY <1>1 DEF StopScript, ScriptInv, StopsItsOwn
<1> QED BY <1>2, ScriptEndsKeeps DEF StopScript

LEMMA CallRhaiKeeps == ASSUME NEW c \in ScriptCallers, ScriptInv, CallRhai(c) PROVE ScriptInv'
<1>1. StopsItsOwn' BY DEF CallRhai, ScriptInv, StopsItsOwn
<1> QED BY <1>1, ScriptEndsKeeps DEF CallRhai

(* The steps that only move the caller on. *)
LEMMA CallerMoves ==
    ASSUME NEW c \in ScriptCallers, ScriptInv, invocation[c].caller # "idle",
           NEW y \in CallerSteps \ {"call", "restore"},
           invocation' = [invocation EXCEPT ![c].caller = y],
           UNCHANGED <<compiled, generations, stopAsked, hot, previous, restoring, editor, interrupted>>
    PROVE  ScriptInv'
<1> DEFINE x == [invocation[c] EXCEPT !.caller = y]
<1>1. x \in InvocationSet /\ x.runtime = invocation[c].runtime
      /\ x.generation = invocation[c].generation /\ x.caller = y
    BY DEF ScriptInv, ScriptType, InvocationSet
<1>2. Under(c) /\ invocation' = [invocation EXCEPT ![c] = x] BY DEF Under
<1>3. StopsItsOwn' BY DEF ScriptInv, StopsItsOwn
<1> HIDE DEF x
<1> QED BY <1>1, <1>2, <1>3, OneCallKeeps

LEMMA CallTimesOutKeeps ==
    ASSUME NEW c \in ScriptCallers, ScriptInv, CallTimesOut(c) PROVE ScriptInv'
BY CallerMoves DEF CallTimesOut, CallerSteps, laneVars, providerVars, historyVars

LEMMA InvokeSucceedsKeeps ==
    ASSUME NEW c \in ScriptCallers, ScriptInv, InvokeSucceeds(c) PROVE ScriptInv'
BY CallerMoves DEF InvokeSucceeds, CallerSteps, laneVars, historyVars

LEMMA InvokeFailsKeeps ==
    ASSUME NEW c \in ScriptCallers, ScriptInv, InvokeFails(c) PROVE ScriptInv'
<1> DEFINE y == IF errorsInARow + 1 >= RollbackAfter THEN "rollback" ELSE "idle"
<1>1. y \in CallerSteps \ {"call", "restore"} BY DEF CallerSteps
<1>2. invocation' = [invocation EXCEPT ![c].caller = y] /\ invocation[c].caller # "idle"
      /\ UNCHANGED <<compiled, generations, stopAsked, hot, previous, restoring, editor, interrupted>>
    BY DEF InvokeFails, laneVars
<1> HIDE DEF y
<1> QED BY <1>1, <1>2, CallerMoves

(* Only the generation of the one who gave up is asked to stop. *)
LEMMA RequestStopKeeps ==
    ASSUME NEW c \in ScriptCallers, ScriptInv, RequestStop(c) PROVE ScriptInv'
<1> USE DEF ScriptInv
<1> DEFINE x == [invocation[c] EXCEPT !.caller = "error"]
<1>1. PICK r : r = invocation[c].runtime OBVIOUS
<1>2. PICK g : g = invocation[c].generation OBVIOUS
<1>3. x \in InvocationSet /\ x.runtime = r /\ x.generation = g /\ x.caller = "error" /\ g \in Nat
    BY <1>1, <1>2 DEF ScriptType, InvocationSet, CallerSteps
<1>4. Under(c) /\ invocation[c].caller = "timedOut"
      /\ invocation' = [invocation EXCEPT ![c] = x] /\ stopAsked' = [stopAsked EXCEPT ![r] = g]
      /\ UNCHANGED <<compiled, generations, hot, previous, restoring, editor, interrupted>>
    BY <1>1, <1>2 DEF RequestStop, Under, providerVars, historyVars
<1>5. Made(r) /\ g <= generations[r] BY <1>1, <1>2, <1>4 DEF GenerationInv
<1>6. r \in Runtimes BY <1>5, MadeIsRuntime
<1> HIDE DEF x
<1>7. ScriptType' BY <1>3, <1>4, <1>6 DEF ScriptType
<1>8. \A d \in ScriptCallers :
          /\ invocation'[d].runtime = invocation[d].runtime
          /\ invocation'[d].generation = invocation[d].generation
          /\ Under(d)' => Under(d)
          /\ invocation'[d].caller = "call" => invocation[d].caller = "call" /\ d # c
          /\ invocation'[d].caller = "restore" => invocation[d].caller = "restore"
    BY <1>1, <1>2, <1>3, <1>4 DEF ScriptType, Under
<1>9. \A s \in Runtimes : stopAsked'[s] = IF s = r THEN g ELSE stopAsked[s]
    BY <1>4, <1>6 DEF ScriptType
<1>10. \A s \in Runtimes : stopAsked'[s] <= generations'[s]
    BY <1>4, <1>5, <1>9 DEF GenerationInv
<1>11. ASSUME NEW d \in ScriptCallers, invocation'[d].caller = "call"
       PROVE  stopAsked'[invocation'[d].runtime] # invocation'[d].generation
  <2>1. invocation[d].caller = "call" /\ d # c /\ Under(d) BY <1>8, <1>11 DEF Under
  <2>2. Made(invocation[d].runtime) BY <2>1 DEF GenerationInv
  <2>3. invocation[d].runtime \in Runtimes BY <2>2, MadeIsRuntime
  <2>4. CASE invocation[d].runtime = r
    BY <1>1, <1>2, <1>4, <1>8, <1>9, <2>1, <2>3, <2>4 DEF GenerationInv
  <2>5. CASE invocation[d].runtime # r BY <1>8, <1>9, <2>1, <2>3, <2>5 DEF GenerationInv
  <2> QED BY <2>4, <2>5
<1>12. GenerationInv' BY <1>4, <1>8, <1>10, <1>11 DEF GenerationInv, Made
<1>13. ContractInv' BY <1>4, <1>8, ContractKept
<1> QED BY <1>4, <1>7, <1>12, <1>13 DEF StopsItsOwn

(* What a rollback takes keeps the contract, and so what it restores. *)
LEMMA TakePreviousKeeps ==
    ASSUME NEW c \in ScriptCallers, ScriptInv, TakePrevious(c) PROVE ScriptInv'
<1> USE DEF ScriptInv
<1> DEFINE y == IF previous = NoRuntime THEN "idle" ELSE "restore"
           x == [invocation[c] EXCEPT !.caller = y]
<1>1. x \in InvocationSet /\ x.runtime = invocation[c].runtime
      /\ x.generation = invocation[c].generation /\ x.caller = y
    BY DEF ScriptType, InvocationSet, CallerSteps
<1>2. Under(c) /\ invocation' = [invocation EXCEPT ![c] = x] /\ previous' = NoRuntime
      /\ restoring' = [restoring EXCEPT ![c] = previous]
      /\ UNCHANGED <<compiled, generations, stopAsked, hot, editor, interrupted>>
    BY DEF TakePrevious, Under, laneVars, historyVars
<1>3. y # "call" /\ (y = "restore" => previous # NoRuntime) OBVIOUS
<1>4. previous \in Nat BY MadeIsRuntime DEF ContractInv, Keeps, NoRuntime
<1> HIDE DEF x, y
<1>5. GenerationInv' /\ invocation' \in [ScriptCallers -> InvocationSet]
    BY <1>1, <1>2, <1>3, CallMoves
<1>6. ScriptType' BY <1>2, <1>4, <1>5 DEF ScriptType
<1>7. ASSUME NEW d \in ScriptCallers, invocation'[d].caller = "restore"
      PROVE  restoring'[d] \in 1 .. Len(compiled) /\ SameCapabilities(restoring'[d])
  <2>1. CASE d = c BY <1>1, <1>2, <1>3, <1>7, <2>1 DEF ScriptType, ContractInv, Keeps, Made
  <2>2. CASE d # c
    BY <1>2, <1>7, <2>2 DEF ScriptType, ContractInv, Keeps, Made
  <2> QED BY <2>1, <2>2
<1>8. ContractInv'
    BY <1>2, <1>7 DEF ContractInv, Keeps, Made, SameCapabilities
<1> QED BY <1>2, <1>5, <1>6, <1>8 DEF StopsItsOwn

LEMMA RestorePreviousKeeps ==
    ASSUME NEW c \in ScriptCallers, ScriptInv, RestorePrevious(c) PROVE ScriptInv'
<1> USE DEF ScriptInv
<1> DEFINE x == [invocation[c] EXCEPT !.caller = "idle"]
<1>1. x \in InvocationSet /\ x.runtime = invocation[c].runtime
      /\ x.generation = invocation[c].generation /\ x.caller = "idle"
    BY DEF ScriptType, InvocationSet, CallerSteps
<1>2. Under(c) /\ invocation[c].caller = "restore" /\ invocation' = [invocation EXCEPT ![c] = x]
      /\ hot' = restoring[c] /\ restoring' = [restoring EXCEPT ![c] = NoRuntime]
      /\ UNCHANGED <<compiled, generations, stopAsked, previous, editor, interrupted>>
    BY DEF RestorePrevious, Under, laneVars
<1> HIDE DEF x
<1>3. GenerationInv' /\ invocation' \in [ScriptCallers -> InvocationSet] BY <1>1, <1>2, CallMoves
<1>4. ScriptType' BY <1>2, <1>3 DEF ScriptType, NoRuntime
<1>5. \A d \in ScriptCallers : invocation'[d].caller = "restore" =>
          invocation[d].caller = "restore" /\ restoring'[d] = restoring[d]
    BY <1>1, <1>2 DEF ScriptType
<1>6. ContractInv' BY <1>2, <1>5 DEF ContractInv, Keeps, Made, SameCapabilities
<1> QED BY <1>2, <1>3, <1>4, <1>6 DEF StopsItsOwn

(* Editors touch no call; what is left to show is what they promise.       *)
LEMMA EditorMoves ==
    ASSUME ScriptInv, UNCHANGED callVarsOfScript, ContractInv',
           compiled' \in Seq(Sources), Len(compiled') <= MaxCompiles, Len(compiled) <= Len(compiled'),
           DOMAIN editor' = Editors
    PROVE  ScriptInv'
<1> USE DEF ScriptInv
<1>1. UNCHANGED <<invocation, generations, stopAsked, restoring, interrupted>>
    BY DEF callVarsOfScript, laneVars, historyVars
<1>2. ScriptType' BY <1>1 DEF ScriptType
<1>3. Len(compiled) \in Nat /\ Len(compiled') \in Nat BY DEF ScriptType
<1>4. \A r : Made(r) => r \in 1 .. Len(compiled') BY <1>3 DEF Made
<1>5. GenerationInv' BY <1>1, <1>4 DEF GenerationInv, Under, Made
<1> QED BY <1>1, <1>2, <1>5 DEF StopsItsOwn

(* An editor that neither compiles nor swaps. *)
LEMMA EditorWaits ==
    ASSUME NEW e \in Editors, ScriptInv, UNCHANGED callVarsOfScript, UNCHANGED <<compiled, hot, previous>>,
           NEW x, editor' = [editor EXCEPT ![e] = x],
           x.at = "describe" => Made(x.runtime), x.at = "swap" => Keeps(x.runtime)
    PROVE  ScriptInv'
<1>1. \A f \in Editors : editor'[f] = IF f = e THEN x ELSE editor[f] BY DEF ScriptInv, ScriptType
<1>2. invocation' = invocation /\ restoring' = restoring BY DEF callVarsOfScript
<1>3. ContractInv' BY <1>1, <1>2 DEF ScriptInv, ContractInv, Keeps, Made, SameCapabilities
<1> QED BY <1>3, EditorMoves DEF ScriptInv, ScriptType

LEMMA EditorGoesTo ==
    ASSUME NEW e \in Editors, ScriptInv, UNCHANGED callVarsOfScript, UNCHANGED <<compiled, hot, previous>>,
           NEW y \in {"idle", "rename", "compile"}, Edits(e, [at |-> y])
    PROVE  ScriptInv'
<1>1. [at |-> y].at = y OBVIOUS
<1> QED BY <1>1, EditorWaits DEF Edits

LEMMA WriteSourceKeeps ==
    ASSUME NEW e \in Editors, NEW source \in Sources, ScriptInv, WriteSource(e, source) PROVE ScriptInv'
BY EditorGoesTo DEF WriteSource, providerVars

LEMMA RenameSourceKeeps == ASSUME NEW e \in Editors, ScriptInv, RenameSource(e) PROVE ScriptInv'
BY EditorGoesTo DEF RenameSource, providerVars

LEMMA ReloadScriptKeeps == ASSUME NEW e \in Editors, ScriptInv, ReloadScript(e) PROVE ScriptInv'
BY EditorGoesTo DEF ReloadScript, providerVars

LEMMA DescribeNewKeeps == ASSUME NEW e \in Editors, ScriptInv, DescribeNew(e) PROVE ScriptInv'
<1>1. CASE Edits(e, [at |-> "idle"]) BY <1>1, EditorGoesTo DEF DescribeNew, providerVars
<1>2. CASE SameCapabilities(editor[e].runtime) /\ Edits(e, [editor[e] EXCEPT !.at = "swap"])
  <2>1. [editor[e] EXCEPT !.at = "swap"].runtime = editor[e].runtime OBVIOUS
  <2>2. [editor[e] EXCEPT !.at = "swap"].at # "describe" OBVIOUS
  <2>3. Keeps(editor[e].runtime) BY <1>2 DEF DescribeNew, Keeps, ScriptInv, ContractInv
  <2> QED BY <1>2, <2>1, <2>2, <2>3, EditorWaits DEF DescribeNew, Edits, providerVars
<1> QED BY <1>1, <1>2 DEF DescribeNew

(* A new runtime goes after the others, which stay what they were. *)
LEMMA LoadRhaiKeeps == ASSUME NEW e \in Editors, ScriptInv, SourceInv, LoadRhai(e) PROVE ScriptInv'
<1>1. CASE Edits(e, [at |-> "idle"]) /\ UNCHANGED compiled
    BY <1>1, EditorGoesTo DEF LoadRhai, providerVars
<1>2. CASE /\ Len(compiled) < MaxCompiles
           /\ compiled' = Append(compiled, entryFile)
           /\ Edits(e, [at |-> "describe", runtime |-> Len(compiled) + 1])
  <2> DEFINE x == [at |-> "describe", runtime |-> Len(compiled) + 1]
  <2>1. x.at = "describe" /\ x.runtime = Len(compiled) + 1 OBVIOUS
  <2>2. compiled \in Seq(Sources) /\ entryFile \in Sources /\ Len(compiled) \in Nat
    BY DEF ScriptInv, ScriptType, SourceInv
  <2>3. compiled' \in Seq(Sources) /\ Len(compiled') = Len(compiled) + 1
        /\ \A r \in 1 .. Len(compiled) : compiled'[r] = compiled[r]
    BY <1>2, <2>2
  <2>4. UNCHANGED <<hot, previous, invocation, restoring>> /\ UNCHANGED callVarsOfScript
    BY DEF LoadRhai, providerVars, callVarsOfScript
  <2>5. editor' = [editor EXCEPT ![e] = x] BY <1>2 DEF Edits
  <2> HIDE DEF x
  <2>6. \A f \in Editors : editor'[f] = IF f = e THEN x ELSE editor[f]
    BY <2>5 DEF ScriptInv, ScriptType
  <2>7. \A r : Made(r) => r \in 1 .. Len(compiled') BY <2>2, <2>3 DEF Made
  <2>8. \A r : Keeps(r) => r \in 1 .. Len(compiled') /\ CapsOf[compiled'[r]] = CapsOf[FirstSource]
    BY <2>3, <2>7 DEF Keeps, Made, SameCapabilities
  <2>9. x.runtime \in 1 .. Len(compiled') BY <2>1, <2>2, <2>3
  <2>10. ContractInv'
    BY <2>1, <2>4, <2>6, <2>7, <2>8, <2>9 DEF ScriptInv, ContractInv, Keeps, Made, SameCapabilities
  <2>11. Len(compiled') <= MaxCompiles /\ Len(compiled) <= Len(compiled')
    BY <1>2, <2>2, <2>3, ScriptAssumption
  <2> QED BY <2>3, <2>4, <2>5, <2>10, <2>11, EditorMoves DEF ScriptInv, ScriptType
<1> QED BY <1>1, <1>2 DEF LoadRhai

LEMMA SwapRuntimeKeeps == ASSUME NEW e \in Editors, ScriptInv, SwapRuntime(e) PROVE ScriptInv'
<1>1. Keeps(editor[e].runtime) BY DEF SwapRuntime, ScriptInv, ContractInv
<1>2. UNCHANGED <<compiled, invocation, restoring>> /\ UNCHANGED callVarsOfScript
      /\ hot' = editor[e].runtime /\ previous' = hot
    BY DEF SwapRuntime, callVarsOfScript
<1>3. editor' = [editor EXCEPT ![e] = [at |-> "idle"]] BY DEF SwapRuntime, Edits
<1>4. \A f \in Editors : editor'[f].at \in {"describe", "swap"} => editor'[f] = editor[f]
    BY <1>3 DEF ScriptInv, ScriptType
<1>5. ContractInv'
    BY <1>1, <1>2, <1>4 DEF ScriptInv, ContractInv, Keeps, Made, SameCapabilities
<1> QED BY <1>2, <1>3, <1>5, EditorMoves DEF ScriptInv, ScriptType

(* The entry file always holds a source. *)
LEMMA SourcesStay == SourceInv /\ [ScriptNext]_scriptVars => SourceInv'
<1> SUFFICES ASSUME SourceInv, [ScriptNext]_scriptVars PROVE SourceInv' OBVIOUS
<1>1. CASE UNCHANGED fileVars BY <1>1 DEF fileVars, SourceInv
<1>2. ASSUME NEW e \in Editors, NEW source \in Sources, WriteSource(e, source) PROVE SourceInv'
    BY <1>2 DEF WriteSource, SourceInv
<1>3. ASSUME NEW e \in Editors, RenameSource(e) PROVE SourceInv'
    BY <1>3 DEF RenameSource, SourceInv, fileVars
<1>4. CASE \E c \in ScriptCallers :
         \/ Invoke(c) \/ TakeLane(c) \/ CallRhai(c) \/ StopScript(c) \/ CallTimesOut(c)
         \/ RequestStop(c) \/ InvokeSucceeds(c) \/ InvokeFails(c) \/ TakePrevious(c)
         \/ RestorePrevious(c)
    BY <1>1, <1>4 DEF Invoke, TakeLane, CallRhai, StopScript, ScriptEnds, CallTimesOut, RequestStop,
                      InvokeSucceeds, InvokeFails, TakePrevious, RestorePrevious
<1>5. CASE \E e \in Editors : ReloadScript(e) \/ LoadRhai(e) \/ DescribeNew(e) \/ SwapRuntime(e)
    BY <1>1, <1>5 DEF ReloadScript, LoadRhai, DescribeNew, SwapRuntime
<1>6. CASE UNCHANGED scriptVars BY <1>1, <1>6 DEF scriptVars
<1> QED BY <1>2, <1>3, <1>4, <1>5, <1>6 DEF ScriptNext

LEMMA ScriptStepKeeps == ScriptInv /\ SourceInv /\ [ScriptNext]_scriptVars => ScriptInv'
<1> SUFFICES ASSUME ScriptInv, SourceInv, [ScriptNext]_scriptVars PROVE ScriptInv' OBVIOUS
<1>1. ASSUME NEW c \in ScriptCallers,
             \/ Invoke(c) \/ TakeLane(c) \/ CallRhai(c) \/ StopScript(c) \/ CallTimesOut(c)
             \/ RequestStop(c) \/ InvokeSucceeds(c) \/ InvokeFails(c) \/ TakePrevious(c)
             \/ RestorePrevious(c)
      PROVE  ScriptInv'
    BY <1>1, InvokeKeeps, TakeLaneKeeps, CallRhaiKeeps, StopScriptKeeps, CallTimesOutKeeps,
       RequestStopKeeps, InvokeSucceedsKeeps, InvokeFailsKeeps, TakePreviousKeeps,
       RestorePreviousKeeps
<1>2. ASSUME NEW e \in Editors,
             \/ \E source \in Sources : WriteSource(e, source)
             \/ RenameSource(e) \/ ReloadScript(e) \/ LoadRhai(e) \/ DescribeNew(e)
             \/ SwapRuntime(e)
      PROVE  ScriptInv'
    BY <1>2, WriteSourceKeeps, RenameSourceKeeps, ReloadScriptKeeps, LoadRhaiKeeps,
       DescribeNewKeeps, SwapRuntimeKeeps
<1>3. CASE UNCHANGED scriptVars
  <2>1. UNCHANGED <<compiled, hot, previous, generations, stopAsked, invocation, restoring, editor,
                    interrupted>>
    BY <1>3 DEF scriptVars, providerVars, laneVars, historyVars
  <2> QED BY <2>1 DEF ScriptInv, ScriptType, GenerationInv, Under, Made, ContractInv, Keeps,
                      SameCapabilities, StopsItsOwn
<1> QED BY <1>1, <1>2, <1>3 DEF ScriptNext

(* Under every interleaving of calls, timeouts, rollbacks and replacements *)
(* a stop request ends only the script of the caller that gave up, and the *)
(* hot and the retained runtime describe what the plugin was registered    *)
(* for (ScriptRuntime::call, Interrupt, ScriptProvider).                   *)
THEOREM ScriptsAreIsolated == ScriptSpec => []ScriptsIsolated
<1>1. ScriptInv => ScriptsIsolated
    BY DEF ScriptInv, ScriptsIsolated, HotKeepsContract, ContractInv, Keeps, SameCapabilities
<1>2. ScriptInit => SourceInv BY ScriptAssumption DEF ScriptInit, SourceInv
<1> QED BY <1>1, <1>2, ScriptStarts, SourcesStay, ScriptStepKeeps, PTL DEF ScriptSpec
-----------------------------------------------------------------------------
(* ICE agents *)

PairStates == {"none", "Waiting", "InProgress", "Succeeded", "Failed"}
Triggers == [pair : Pairs, nominate : BOOLEAN]
AgentRec ==
    [role : Roles, state : {"Checking", "Completed", "Failed"}, locals : SUBSET Addrs,
     remotes : SUBSET Addrs, pair : [Pairs -> PairStates], asked : SUBSET Pairs,
     selected : Pairs \cup {NoPair}, inflight : BOOLEAN, triggered : Seq(Triggers),
     pending : SUBSET Checks]

Nominated(x, p) == \E c \in Nominations : Ends(c.src, c.pair) = Ends(x, p)

\* What an agent takes for granted about its pairs is so.
AgentOk(x, a) ==
    /\ \A p \in Pairs : a.pair[p] = "Succeeded" => Works(x, p)
    /\ \A p \in a.asked : Nominated(x, p)
    /\ \A i \in DOMAIN a.triggered : a.triggered[i].nominate => Works(x, a.triggered[i].pair)
    /\ \A c \in a.pending : c \in checksSent /\ c.src = x
    /\ a.state = "Completed" => Works(x, a.selected) /\ Nominated(x, a.selected)

\* A check is known by its sender and its number, and nominates a pair that works.
ChecksInv ==
    /\ checksSent \subseteq Checks /\ IsFiniteSet(checksSent)
    /\ \A c \in checksSent : c.id <= Cardinality({q \in checksSent : q.src = c.src})
    /\ \A c, d \in checksSent : c.src = d.src /\ c.id = d.id => c = d
    /\ \A c \in Nominations : Works(c.src, c.pair)

\* An answer comes back along the way of its check.
AnswersInv ==
    \A m \in answersSent : \E c \in checksSent :
        /\ c.src = m.to /\ c.id = m.id
        /\ m.mapped = net[c.src][c.pair[2]] /\ m.mapped # 0
        /\ m.from = net[Peer(c.src)][m.mapped]

DriverInv ==
    /\ (\E x \in Agents : driver[x] = "new") =>
         (\A x \in Agents : driver[x] = "new") /\ checksSent = {} /\ answersSent = {}
    /\ \A x \in Agents : driver[x] = "selected" => agent[x].state = "Completed"

NetType == net \in [Agents -> [Addrs -> Addrs \cup {0}]]
AgentsInv == agent \in [Agents -> AgentRec] /\ \A x \in Agents : AgentOk(x, agent[x])

IceInv == NetType /\ DOMAIN driver = Agents /\ AgentsInv /\ ChecksInv /\ AnswersInv /\ DriverInv

-----------------------------------------------------------------------------
LEMMA PeerFacts == \A x \in Agents : Peer(x) \in Agents /\ Peer(x) # x /\ Peer(Peer(x)) = x
BY AgentsAssumption DEF Agents, Peer

(* Both ends of a pair that works name the same path. *)
LEMMA BothEnds ==
    ASSUME NEW x \in Agents, NEW p, NEW q, Works(x, p), q[2] = net[x][p[2]]
    PROVE  Ends(Peer(x), q) = Ends(x, p)
BY AgentsAssumption DEF Works, Ends, Peer, Agents

(* The methods keep what the agent knows *)

LEMMA NewAgentOk ==
    ASSUME NEW x \in Agents, NEW r \in Roles, NEW ls \in SUBSET Addrs
    PROVE  NewAgent(r, ls) \in AgentRec /\ AgentOk(x, NewAgent(r, ls))
<1> DEFINE a == [role |-> r, state |-> "Checking", locals |-> ls, remotes |-> {},
                 pair |-> [p \in Pairs |-> "none"], asked |-> {}, selected |-> NoPair,
                 inflight |-> FALSE, triggered |-> <<>>, pending |-> {}]
           f == Form([p \in Pairs |-> "none"], ls, Host)
           b == [role |-> r, state |-> "Checking", locals |-> ls, remotes |-> {Host},
                 pair |-> f, asked |-> {}, selected |-> NoPair,
                 inflight |-> FALSE, triggered |-> <<>>, pending |-> {}]
<1>1. NewAgent(r, ls) = b BY DEF NewAgent, AddRemoteCandidate
<1>2. f \in [Pairs -> PairStates] /\ \A p \in Pairs : f[p] # "Succeeded" BY DEF Form, PairStates
<1> HIDE DEF f
<1>3. <<>> \in Seq(Triggers) /\ DOMAIN <<>> = {} OBVIOUS
<1>4. b \in AgentRec BY <1>2, <1>3 DEF AgentRec, Addrs
<1>5. AgentOk(x, b) BY <1>2, <1>3 DEF AgentOk
<1> QED BY <1>1, <1>4, <1>5

LEMMA AddRemoteOk ==
    ASSUME NEW x \in Agents, NEW a \in AgentRec, AgentOk(x, a), NEW r \in Addrs
    PROVE  /\ AddRemoteCandidate(a, r) \in AgentRec /\ AgentOk(x, AddRemoteCandidate(a, r))
           /\ a.state = "Completed" => AddRemoteCandidate(a, r).state = "Completed"
<1> DEFINE f == Form(a.pair, a.locals, r)
           s == IF a.state = "Failed" THEN "Checking" ELSE a.state
           b == [a EXCEPT !.remotes = @ \cup {r}, !.pair = f, !.state = s]
<1>1. AddRemoteCandidate(a, r) = IF r \in a.remotes THEN a ELSE b BY DEF AddRemoteCandidate, AgentRec
<1>2. a.pair \in [Pairs -> PairStates] BY DEF AgentRec
<1>3. f \in [Pairs -> PairStates] /\ \A p \in Pairs : f[p] = "Succeeded" => a.pair[p] = "Succeeded"
    BY <1>2 DEF Form, PairStates
<1>4. s \in {"Checking", "Completed", "Failed"} /\ (s = "Completed" <=> a.state = "Completed")
    BY DEF AgentRec
<1> HIDE DEF f, s
<1>5. b \in AgentRec /\ b.pair = f /\ b.state = s /\ b.asked = a.asked /\ b.triggered = a.triggered
      /\ b.pending = a.pending /\ b.selected = a.selected
    BY <1>3, <1>4 DEF AgentRec
<1> HIDE DEF b
<1>6. AgentOk(x, b) BY <1>3, <1>4, <1>5 DEF AgentOk
<1> QED BY <1>1, <1>4, <1>5, <1>6

LEMMA UpdateFailureOk ==
    ASSUME NEW x \in Agents, NEW a \in AgentRec, AgentOk(x, a)
    PROVE  UpdateFailure(a) \in AgentRec /\ AgentOk(x, UpdateFailure(a))
<1> DEFINE b == [a EXCEPT !.state = "Failed"]
<1>1. UpdateFailure(a) \in {a, b} BY DEF UpdateFailure
<1>2. b \in AgentRec /\ b.pair = a.pair /\ b.state = "Failed" /\ b.asked = a.asked
      /\ b.triggered = a.triggered /\ b.pending = a.pending
    BY DEF AgentRec
<1> HIDE DEF b
<1>3. AgentOk(x, b) BY <1>2 DEF AgentOk
<1> QED BY <1>1, <1>2, <1>3

LEMMA NominateOk ==
    ASSUME NEW x \in Agents, NEW a \in AgentRec, AgentOk(x, a), NEW p \in Pairs,
           Works(x, p), Nominated(x, p)
    PROVE  Nominate(a, p) \in AgentRec /\ AgentOk(x, Nominate(a, p))
<1> DEFINE b == [a EXCEPT !.selected = p, !.state = "Completed", !.pending = {}, !.triggered = <<>>]
<1>1. Nominate(a, p) \in {a, b} BY DEF Nominate
<1>2. <<>> \in Seq(Triggers) /\ DOMAIN <<>> = {} OBVIOUS
<1>3. b \in AgentRec /\ b.pair = a.pair /\ b.asked = a.asked /\ b.triggered = <<>>
      /\ b.pending = {} /\ b.selected = p
    BY <1>2 DEF AgentRec
<1> HIDE DEF b
<1>4. AgentOk(x, b) BY <1>2, <1>3 DEF AgentOk
<1> QED BY <1>1, <1>3, <1>4

LEMMA CheckFailsOk ==
    ASSUME NEW x \in Agents, NEW a \in AgentRec, AgentOk(x, a), NEW c \in Checks
    PROVE  CheckFails(a, c) \in AgentRec /\ AgentOk(x, CheckFails(a, c))
<1> DEFINE f == [a.pair EXCEPT ![c.pair] = "Failed"]
           i == a.inflight /\ ~c.nominating
           b == [a EXCEPT !.pair = f, !.inflight = i]
<1>1. CheckFails(a, c) = b BY DEF CheckFails, AgentRec
<1>2. f \in [Pairs -> PairStates] /\ \A p \in Pairs : f[p] = "Succeeded" => a.pair[p] = "Succeeded"
    BY DEF AgentRec, PairStates, Checks
<1>3. i \in BOOLEAN BY DEF AgentRec
<1> HIDE DEF f, i
<1>4. b \in AgentRec /\ b.pair = f /\ b.state = a.state /\ b.asked = a.asked
      /\ b.triggered = a.triggered /\ b.pending = a.pending /\ b.selected = a.selected
    BY <1>2, <1>3 DEF AgentRec
<1> HIDE DEF b
<1>5. AgentOk(x, b) BY <1>2, <1>4 DEF AgentOk
<1> QED BY <1>1, <1>4, <1>5

(* A check that is over is forgotten. *)
LEMMA ForgetOk ==
    ASSUME NEW x \in Agents, NEW a \in AgentRec, AgentOk(x, a), NEW c
    PROVE  LET b == [a EXCEPT !.pending = @ \ {c}]
           IN  /\ b \in AgentRec /\ AgentOk(x, b)
               /\ b.role = a.role /\ b.pair = a.pair /\ b.asked = a.asked /\ b.inflight = a.inflight
<1> DEFINE b == [a EXCEPT !.pending = @ \ {c}]
<1>1. b \in AgentRec /\ b.role = a.role /\ b.pair = a.pair /\ b.state = a.state /\ b.asked = a.asked
      /\ b.triggered = a.triggered /\ b.pending = a.pending \ {c} /\ b.selected = a.selected
      /\ b.inflight = a.inflight
    BY DEF AgentRec
<1> HIDE DEF b
<1>2. AgentOk(x, b) BY <1>1 DEF AgentOk
<1> QED BY <1>1, <1>2 DEF b

(* Checks that leave the queue *)
LEMMA DequeueOk ==
    ASSUME NEW x \in Agents, NEW a \in AgentRec, AgentOk(x, a), NEW i \in DOMAIN a.triggered
    PROVE  LET b == [a EXCEPT !.triggered = SubSeq(@, i + 1, Len(@))]
           IN  b \in AgentRec /\ AgentOk(x, b)
<1> DEFINE t == SubSeq(a.triggered, i + 1, Len(a.triggered))
           b == [a EXCEPT !.triggered = t]
<1>1. a.triggered \in Seq(Triggers) BY DEF AgentRec
<1>2. i \in 1 .. Len(a.triggered) BY <1>1
<1>3. t \in Seq(Triggers) /\ \A j \in DOMAIN t : \E k \in DOMAIN a.triggered : t[j] = a.triggered[k]
  <2> HIDE DEF Triggers
  <2>1. PICK q \in Seq(Triggers) : q = a.triggered BY <1>1
  <2>2. SubSeq(q, i + 1, Len(q)) \in Seq(Triggers) BY <1>2, <2>1
  <2>3. Len(SubSeq(q, i + 1, Len(q))) = Len(q) - i
        /\ \A j \in 1 .. Len(q) - i : SubSeq(q, i + 1, Len(q))[j] = q[i + j]
    BY <1>2, <2>1, SMTT(30)
  <2>4. \A j \in 1 .. Len(q) - i : i + j \in 1 .. Len(q) BY <1>2, <2>1
  <2>5. DOMAIN SubSeq(q, i + 1, Len(q)) = 1 .. Len(q) - i /\ DOMAIN q = 1 .. Len(q) BY <2>2, <2>3
  <2> QED BY <2>1, <2>2, <2>3, <2>4, <2>5
<1> HIDE DEF t
<1>4. b \in AgentRec /\ b.pair = a.pair /\ b.state = a.state /\ b.asked = a.asked
      /\ b.triggered = t /\ b.pending = a.pending /\ b.selected = a.selected
    BY <1>3 DEF AgentRec
<1> HIDE DEF b
<1>5. AgentOk(x, b) BY <1>3, <1>4 DEF AgentOk
<1> QED BY <1>4, <1>5 DEF b, t

LEMMA EmptyQueueOk ==
    ASSUME NEW x \in Agents, NEW a \in AgentRec, AgentOk(x, a)
    PROVE  LET b == [a EXCEPT !.triggered = <<>>]
           IN  b \in AgentRec /\ AgentOk(x, b)
<1> DEFINE b == [a EXCEPT !.triggered = <<>>]
<1>1. <<>> \in Seq(Triggers) /\ DOMAIN <<>> = {} OBVIOUS
<1>2. b \in AgentRec /\ b.pair = a.pair /\ b.state = a.state /\ b.asked = a.asked
      /\ b.triggered = <<>> /\ b.pending = a.pending /\ b.selected = a.selected
    BY <1>1 DEF AgentRec
<1> HIDE DEF b
<1>3. AgentOk(x, b) BY <1>1, <1>2 DEF AgentOk
<1> QED BY <1>2, <1>3 DEF b

(* A check that joins the queue, at either end. *)
LEMMA AppendTrigger ==
    ASSUME NEW q \in Seq(Triggers), NEW p \in Pairs, NEW n \in BOOLEAN
    PROVE  /\ Append(q, Trigger(p, n)) \in Seq(Triggers)
           /\ \A i \in DOMAIN Append(q, Trigger(p, n)) :
                \/ Append(q, Trigger(p, n))[i] = Trigger(p, n)
                \/ i \in DOMAIN q /\ Append(q, Trigger(p, n))[i] = q[i]
<1>1. PICK t \in Triggers : t = Trigger(p, n) BY DEF Trigger, Triggers
<1> HIDE DEF Triggers
<1> QED BY <1>1

LEMMA PrependOne ==
    ASSUME NEW S, NEW t \in S, NEW q \in Seq(S)
    PROVE  /\ <<t>> \o q \in Seq(S)
           /\ \A i \in DOMAIN (<<t>> \o q) :
                (<<t>> \o q)[i] = t \/ \E j \in DOMAIN q : (<<t>> \o q)[i] = q[j]
<1>1. PICK u : u = <<t>> OBVIOUS
<1>2. u \in Seq(S) /\ Len(u) = 1 /\ u[1] = t BY <1>1
<1>3. u \o q \in Seq(S) /\ Len(u \o q) = Len(q) + 1
  <2>1. u \o q \in Seq(S) /\ Len(u \o q) = Len(u) + Len(q)
    BY <1>2, ConcatProperties, ZenonT(30)
  <2>2. Len(q) \in Nat BY LenProperties
  <2> QED BY <1>2, <2>1, <2>2
<1>4. \A i \in 1 .. Len(q) + 1 : (u \o q)[i] = IF i = 1 THEN t ELSE q[i - 1]
  <2>1. \A i \in 1 .. Len(u) + Len(q) :
            (u \o q)[i] = IF i <= Len(u) THEN u[i] ELSE q[i - Len(u)]
    BY <1>2, ConcatProperties
  <2>2. Len(q) \in Nat BY LenProperties
  <2>3. \A i \in 1 .. Len(q) + 1 : i <= 1 <=> i = 1 BY <2>2
  <2>4. Len(u) + Len(q) = Len(q) + 1 BY <1>2, <2>2
  <2> QED BY <1>2, <2>1, <2>3, <2>4
<1>5. \A i \in 1 .. Len(q) + 1 : i # 1 => i - 1 \in 1 .. Len(q) BY LenProperties
<1>6. DOMAIN (u \o q) = 1 .. Len(q) + 1 /\ DOMAIN q = 1 .. Len(q) BY <1>3, LenProperties
<1> QED BY <1>1, <1>3, <1>4, <1>5, <1>6

LEMMA PrependTrigger ==
    ASSUME NEW q \in Seq(Triggers), NEW p \in Pairs, NEW n \in BOOLEAN
    PROVE  /\ <<Trigger(p, n)>> \o q \in Seq(Triggers)
           /\ \A i \in DOMAIN (<<Trigger(p, n)>> \o q) :
                \/ (<<Trigger(p, n)>> \o q)[i] = Trigger(p, n)
                \/ \E j \in DOMAIN q : (<<Trigger(p, n)>> \o q)[i] = q[j]
<1>1. PICK t \in Triggers : t = Trigger(p, n) BY DEF Trigger, Triggers
<1> HIDE DEF Triggers
<1> QED BY <1>1, PrependOne

(* A check of a pair is to be repeated. *)
Recheck(a, p, r, i) ==
    [a EXCEPT !.role = r, !.pair[p] = "Waiting", !.inflight = i,
              !.triggered = Append(@, Trigger(p, FALSE))]

(* A pair that waits to be checked again. *)
LEMMA CheckAgainOk ==
    ASSUME NEW x \in Agents, NEW a \in AgentRec, AgentOk(x, a), NEW p \in Pairs,
           NEW r \in Roles, NEW i \in BOOLEAN
    PROVE  Recheck(a, p, r, i) \in AgentRec /\ AgentOk(x, Recheck(a, p, r, i))
<1> DEFINE f == [a.pair EXCEPT ![p] = "Waiting"]
           t == Append(a.triggered, Trigger(p, FALSE))
           b == [a EXCEPT !.role = r, !.pair = f, !.inflight = i, !.triggered = t]
<1>1. f \in [Pairs -> PairStates] /\ \A q \in Pairs : f[q] = "Succeeded" => a.pair[q] = "Succeeded"
    BY DEF AgentRec, PairStates
<1>2. a.triggered \in Seq(Triggers) BY DEF AgentRec
<1>3. t \in Seq(Triggers)
      /\ \A j \in DOMAIN t : t[j] = Trigger(p, FALSE) \/ (j \in DOMAIN a.triggered /\ t[j] = a.triggered[j])
    BY <1>2, AppendTrigger
<1>4. ~Trigger(p, FALSE).nominate BY DEF Trigger
<1>5. b = Recheck(a, p, r, i) BY DEF Recheck
<1> HIDE DEF f, t
<1>6. b \in AgentRec /\ b.pair = f /\ b.state = a.state /\ b.asked = a.asked
      /\ b.triggered = t /\ b.pending = a.pending /\ b.selected = a.selected
    BY <1>1, <1>3 DEF AgentRec
<1> HIDE DEF b
<1>7. \A j \in DOMAIN t : t[j].nominate => Works(x, t[j].pair) BY <1>3, <1>4 DEF AgentOk
<1>8. AgentOk(x, b) BY <1>1, <1>6, <1>7 DEF AgentOk
<1> QED BY <1>5, <1>6, <1>8

(* A check of this socket's pair: the agent may complete on it. *)
LEMMA CheckedOk ==
    ASSUME NEW x \in Agents, NEW a \in AgentRec, AgentOk(x, a), NEW p \in Pairs
    PROVE  Checked(a, p) \in AgentRec /\ AgentOk(x, Checked(a, p))
<1>1. CASE a.pair[p] = "Succeeded" /\ p \in a.asked
  <2>1. Works(x, p) /\ Nominated(x, p) BY <1>1 DEF AgentOk
  <2> QED BY <1>1, <2>1, NominateOk DEF Checked
<1>2. CASE a.pair[p] = "Succeeded" /\ p \notin a.asked BY <1>2 DEF Checked
<1>3. CASE a.pair[p] = "InProgress" BY <1>3 DEF Checked
<1>4. CASE a.pair[p] # "Succeeded" /\ a.pair[p] # "InProgress"
  <2>1. PICK r \in Roles, i \in BOOLEAN : r = a.role /\ i = a.inflight BY DEF AgentRec
  <2>2. Checked(a, p) = [a EXCEPT !.pair[p] = "Waiting", !.triggered = Append(@, Trigger(p, FALSE))]
    BY <1>4 DEF Checked
  <2>3. Checked(a, p) = Recheck(a, p, r, i) BY <2>1, <2>2 DEF AgentRec, Recheck
  <2> QED BY <2>1, <2>3, CheckAgainOk
<1> QED BY <1>1, <1>2, <1>3, <1>4

(* What the answer to a check tells an agent: the pair works. *)
LEMMA SucceedsOk ==
    ASSUME NEW x \in Agents, NEW a \in AgentRec, AgentOk(x, a), NEW c \in Checks, NEW m,
           m.mapped \in Addrs, Symmetric(c, m) => Works(x, c.pair),
           c.nominating => Nominated(x, c.pair)
    PROVE  Succeeds(a, c, m) \in AgentRec /\ AgentOk(x, Succeeds(a, c, m))
<1> DEFINE f == [a.pair EXCEPT ![c.pair] = "Succeeded"]
           b == [a EXCEPT !.pair = f, !.locals = @ \cup {m.mapped}]
           t == <<Trigger(c.pair, TRUE)>> \o b.triggered
           d == [b EXCEPT !.inflight = TRUE, !.triggered = t]
<1>1. c.pair \in Pairs BY DEF Checks
<1>2. CASE ~Symmetric(c, m)
  <2>1. Succeeds(a, c, m) = UpdateFailure(CheckFails(a, c)) BY <1>2 DEF Succeeds
  <2>2. PICK g : g = CheckFails(a, c) OBVIOUS
  <2>3. g \in AgentRec /\ AgentOk(x, g) BY <2>2, CheckFailsOk
  <2> QED BY <2>1, <2>2, <2>3, UpdateFailureOk
<1>3. CASE Symmetric(c, m)
  <2>1. Works(x, c.pair) BY <1>3
  <2>2. f \in [Pairs -> PairStates]
        /\ \A p \in Pairs : f[p] = "Succeeded" => p = c.pair \/ a.pair[p] = "Succeeded"
    BY <1>1 DEF AgentRec, PairStates
  <2>3. Succeeds(a, c, m) \in {Nominate(b, c.pair), b, d}
        /\ (Succeeds(a, c, m) = Nominate(b, c.pair) \/ Succeeds(a, c, m) \in {b, d})
    BY <1>3 DEF Succeeds, AgentRec
  <2>4. Succeeds(a, c, m) = IF c.nominating \/ c.pair \in a.asked THEN Nominate(b, c.pair)
                            ELSE IF a.role = "controlling" /\ ~a.inflight /\ a.selected = NoPair THEN d
                            ELSE b
    BY <1>3 DEF Succeeds, AgentRec
  <2> HIDE DEF f
  <2>5. b \in AgentRec /\ b.pair = f /\ b.state = a.state /\ b.asked = a.asked
        /\ b.triggered = a.triggered /\ b.pending = a.pending /\ b.selected = a.selected
    BY <2>2 DEF AgentRec
  <2> HIDE DEF b
  <2>6. AgentOk(x, b) BY <2>1, <2>2, <2>5 DEF AgentOk
  <2>7. CASE c.nominating \/ c.pair \in a.asked
    <3>1. Nominated(x, c.pair) BY <2>7 DEF AgentOk
    <3> QED BY <1>1, <2>1, <2>4, <2>5, <2>6, <2>7, <3>1, NominateOk
  <2>8. b.triggered \in Seq(Triggers) BY <2>5 DEF AgentRec
  <2>9. t \in Seq(Triggers) /\ \A i \in DOMAIN t :
            t[i] = Trigger(c.pair, TRUE) \/ \E j \in DOMAIN b.triggered : t[i] = b.triggered[j]
    BY <1>1, <2>8, PrependTrigger
  <2>10. Trigger(c.pair, TRUE).pair = c.pair BY DEF Trigger
  <2> HIDE DEF t
  <2>11. \A i \in DOMAIN t : t[i].nominate => Works(x, t[i].pair)
    BY <2>1, <2>6, <2>9, <2>10 DEF AgentOk
  <2>12. d \in AgentRec /\ d.pair = b.pair /\ d.state = b.state /\ d.asked = b.asked
         /\ d.triggered = t /\ d.pending = b.pending /\ d.selected = b.selected
    BY <2>5, <2>9 DEF AgentRec
  <2> HIDE DEF d
  <2>13. AgentOk(x, d) BY <2>6, <2>11, <2>12 DEF AgentOk
  <2> QED BY <2>4, <2>5, <2>6, <2>7, <2>12, <2>13
<1> QED BY <1>2, <1>3

-----------------------------------------------------------------------------
(* Steps *)

LEMMA StaysOk ==
    ASSUME NEW x, NEW a, AgentOk(x, a), net' = net, checksSent \subseteq checksSent'
    PROVE  AgentOk(x, a)'
<1>1. \A p : Works(x, p) => Works(x, p)' BY DEF Works
<1>2. \A y, p : Ends(y, p)' = Ends(y, p) BY DEF Ends
<1>3. Nominations \subseteq Nominations' BY DEF Nominations
<1>4. \A p : Nominated(x, p) => Nominated(x, p)' BY <1>2, <1>3 DEF Nominated
<1> QED BY <1>1, <1>4 DEF AgentOk

LEMMA AgentsStay ==
    ASSUME AgentsInv, UNCHANGED <<net, agent, checksSent>> PROVE AgentsInv'
<1>1. ASSUME NEW x \in Agents PROVE AgentOk(x, agent[x])'
  <2>1. PICK a : a = agent[x] OBVIOUS
  <2>2. AgentOk(x, a) BY <2>1 DEF AgentsInv
  <2>3. AgentOk(x, a)' BY <2>2, StaysOk
  <2>4. a = agent'[x] BY <2>1
  <2> QED BY <2>3, <2>4, ZenonT(60) DEF AgentOk, Nominated, Nominations, Works, Ends
<1> QED BY <1>1, SMTT(30) DEF AgentsInv

LEMMA AgentMoves ==
    ASSUME IceInv, NEW x \in Agents, NEW b \in AgentRec, AgentOk(x, b)', Becomes(x, b),
           net' = net, checksSent \subseteq checksSent'
    PROVE  AgentsInv'
<1>1. agent' = [agent EXCEPT ![x] = b] BY DEF Becomes
<1>2. agent' \in [Agents -> AgentRec] BY <1>1 DEF IceInv, AgentsInv
<1>3. ASSUME NEW y \in Agents PROVE AgentOk(y, agent[y])'
  <2>1. PICK a : a = agent'[y] OBVIOUS
  <2>2. CASE y = x
    <3>1. a = b BY <1>1, <2>1, <2>2 DEF IceInv, AgentsInv
    <3>2. AgentOk(y, a)' BY <2>2, <3>1
    <3> QED BY <2>1, <3>2 DEF AgentOk, Nominated, Nominations, Works, Ends
  <2>3. CASE y # x
    <3>1. a = agent[y] BY <1>1, <2>1, <2>3 DEF IceInv, AgentsInv
    <3>2. AgentOk(y, a) BY <3>1 DEF IceInv, AgentsInv
    <3>3. AgentOk(y, a)' BY <3>2, StaysOk
    <3> QED BY <2>1, <3>3 DEF AgentOk, Nominated, Nominations, Works, Ends
  <2> QED BY <2>2, <2>3
<1> QED BY <1>2, <1>3 DEF AgentsInv

(* A step of one agent that sends nothing. *)
LEMMA QuietStep ==
    ASSUME IceInv, NEW x \in Agents, NEW b \in AgentRec, AgentOk(x, b), Becomes(x, b),
           agent[x].state = "Completed" => b.state = "Completed",
           UNCHANGED <<net, driver, checksSent, answersSent>>
    PROVE  IceInv'
<1>1. AgentOk(x, b)' BY StaysOk
<1>2. AgentsInv' BY <1>1, AgentMoves
<1>3. ChecksInv' /\ AnswersInv' /\ NetType'
    BY SMTT(30) DEF IceInv, ChecksInv, AnswersInv, NetType, Nominations, Works
<1>4. DriverInv' BY DEF IceInv, AgentsInv, DriverInv, Becomes
<1> QED BY <1>2, <1>3, <1>4 DEF IceInv

LEMMA CheckTimesOutKeeps ==
    ASSUME IceInv, NEW x \in Agents, CheckTimesOut(x) PROVE IceInv'
<1>1. PICK c \in agent[x].pending :
          LET a == [agent[x] EXCEPT !.pending = @ \ {c}] IN
          Becomes(x, UpdateFailure(
              IF a.pair[c.pair] = "Succeeded" THEN [a EXCEPT !.inflight = @ /\ ~c.nominating]
              ELSE CheckFails(a, c)))
    BY DEF CheckTimesOut
<1>2. PICK g : g = agent[x] OBVIOUS
<1>3. g \in AgentRec /\ AgentOk(x, g) BY <1>2 DEF IceInv, AgentsInv
<1>4. c \in Checks BY <1>2, <1>3 DEF AgentRec
<1>5. PICK a : a = [g EXCEPT !.pending = @ \ {c}] OBVIOUS
<1>6. a \in AgentRec /\ AgentOk(x, a) BY <1>3, <1>5, ForgetOk
<1> DEFINE i == a.inflight /\ ~c.nominating
           f == [a EXCEPT !.inflight = i]
<1>7. f = [a EXCEPT !.inflight = @ /\ ~c.nominating] OBVIOUS
<1>8. f \in AgentRec /\ AgentOk(x, f)
  <2>1. i \in BOOLEAN BY <1>6 DEF AgentRec
  <2> HIDE DEF i
  <2>2. f \in AgentRec /\ f.pair = a.pair /\ f.state = a.state /\ f.asked = a.asked
        /\ f.triggered = a.triggered /\ f.pending = a.pending /\ f.selected = a.selected
    BY <1>6, <2>1 DEF AgentRec
  <2> HIDE DEF f
  <2> QED BY <1>6, <2>2 DEF AgentOk
<1> HIDE DEF f
<1>9. PICK b : b = IF a.pair[c.pair] = "Succeeded" THEN f ELSE CheckFails(a, c) OBVIOUS
<1>10. b \in AgentRec /\ AgentOk(x, b) BY <1>4, <1>6, <1>8, <1>9, CheckFailsOk
<1>11. PICK d : d = UpdateFailure(b) OBVIOUS
<1>12. d \in AgentRec /\ AgentOk(x, d) BY <1>10, <1>11, UpdateFailureOk
<1>13. Becomes(x, d) BY <1>1, <1>2, <1>5, <1>7, <1>9, <1>11
<1> QED BY <1>12, <1>13, QuietStep DEF CheckTimesOut, Checking

LEMMA TickIdleKeeps == ASSUME IceInv, NEW x \in Agents, TickIdle(x) PROVE IceInv'
<1>1. PICK g : g = agent[x] OBVIOUS
<1>2. g \in AgentRec /\ AgentOk(x, g) BY <1>1 DEF IceInv, AgentsInv
<1>3. PICK a : a = [g EXCEPT !.triggered = <<>>] OBVIOUS
<1>4. a \in AgentRec /\ AgentOk(x, a) BY <1>2, <1>3, EmptyQueueOk
<1>5. PICK d : d = UpdateFailure(a) OBVIOUS
<1>6. d \in AgentRec /\ AgentOk(x, d) BY <1>4, <1>5, UpdateFailureOk
<1>7. Becomes(x, d) BY <1>1, <1>3, <1>5 DEF TickIdle
<1> QED BY <1>6, <1>7, QuietStep DEF TickIdle, Checking

LEMMA TrickleKeeps == ASSUME IceInv, NEW x \in Agents, Trickle(x) PROVE IceInv'
<1>1. PICK g : g = agent[x] OBVIOUS
<1>2. g \in AgentRec /\ AgentOk(x, g) BY <1>1 DEF IceInv, AgentsInv
<1>3. PICK d : d = AddRemoteCandidate(g, Mapped) OBVIOUS
<1>4. d \in AgentRec /\ AgentOk(x, d) /\ (g.state = "Completed" => d.state = "Completed")
    BY <1>2, <1>3, AddRemoteOk DEF Addrs
<1>5. Becomes(x, d) BY <1>1, <1>3 DEF Trickle
<1> QED BY <1>1, <1>4, <1>5, QuietStep DEF Trickle

LEMMA HandleConflictKeeps == ASSUME IceInv, NEW x \in Agents, HandleConflict(x) PROVE IceInv'
<1>1. PICK c \in agent[x].pending :
          Becomes(x, [agent[x] EXCEPT !.pending = @ \ {c}, !.role = Other(@),
                                      !.pair[c.pair] = "Waiting", !.inflight = FALSE,
                                      !.triggered = Append(@, Trigger(c.pair, FALSE))])
    BY DEF HandleConflict
<1>2. PICK g : g = agent[x] OBVIOUS
<1>3. g \in AgentRec /\ AgentOk(x, g) BY <1>2 DEF IceInv, AgentsInv
<1>4. c \in Checks BY <1>2, <1>3 DEF AgentRec
<1>5. c.pair \in Pairs BY <1>4 DEF Checks
<1>6. PICK a : a = [g EXCEPT !.pending = @ \ {c}] OBVIOUS
<1>7. a \in AgentRec /\ AgentOk(x, a) BY <1>3, <1>6, ForgetOk
<1>8. PICK r \in Roles : r = Other(g.role) BY <1>3 DEF AgentRec, Other, Roles
<1>9. PICK i \in BOOLEAN : i = FALSE OBVIOUS
<1>10. PICK d : d = Recheck(a, c.pair, r, i) OBVIOUS
<1>11. d \in AgentRec /\ AgentOk(x, d) BY <1>5, <1>7, <1>10, CheckAgainOk
<1>12. d = [g EXCEPT !.pending = @ \ {c}, !.role = Other(@),
                     !.pair[c.pair] = "Waiting", !.inflight = FALSE,
                     !.triggered = Append(@, Trigger(c.pair, FALSE))]
    BY <1>3, <1>6, <1>8, <1>9, <1>10 DEF Recheck, AgentRec
<1>13. Becomes(x, d) BY <1>1, <1>2, <1>12
<1> QED BY <1>11, <1>13, QuietStep DEF HandleConflict, Checking

(* The answer to a check that is still pending came back along its way, so *)
(* an answer from where the check went shows that the pair works.          *)
LEMMA HandleSuccessKeeps == ASSUME IceInv, NEW x \in Agents, HandleSuccess(x) PROVE IceInv'
<1>1. PICK c \in agent[x].pending, m \in answersSent :
          /\ m.to = x /\ m.id = c.id /\ m.kind = "success"
          /\ Becomes(x, Succeeds([agent[x] EXCEPT !.pending = @ \ {c}], c, m))
    BY DEF HandleSuccess
<1>2. PICK g : g = agent[x] OBVIOUS
<1>3. g \in AgentRec /\ AgentOk(x, g) BY <1>2 DEF IceInv, AgentsInv
<1>4. c \in Checks /\ c \in checksSent /\ c.src = x BY <1>2, <1>3 DEF AgentRec, AgentOk
<1>5. PICK a : a = [g EXCEPT !.pending = @ \ {c}] OBVIOUS
<1>6. a \in AgentRec /\ AgentOk(x, a) BY <1>3, <1>5, ForgetOk
<1>7. m.mapped = net[x][c.pair[2]] /\ m.mapped # 0 /\ m.from = net[Peer(x)][m.mapped]
  <2>1. PICK d \in checksSent : d.src = x /\ d.id = c.id /\ m.mapped = net[d.src][d.pair[2]]
            /\ m.mapped # 0 /\ m.from = net[Peer(d.src)][m.mapped]
    BY <1>1 DEF IceInv, AnswersInv
  <2>2. d = c BY <1>4, <2>1 DEF IceInv, ChecksInv
  <2> QED BY <1>4, <2>1, <2>2
<1>8. m.mapped \in Addrs
  <2>1. c.pair[2] \in Addrs BY <1>4 DEF Checks, Pairs
  <2> QED BY <1>7, <2>1 DEF IceInv, NetType
<1>9. Symmetric(c, m) => Works(x, c.pair) BY <1>7 DEF Symmetric, Works
<1>10. c.nominating => Nominated(x, c.pair) BY <1>4 DEF Nominated, Nominations
<1>11. PICK d : d = Succeeds(a, c, m) OBVIOUS
<1>12. d \in AgentRec /\ AgentOk(x, d) BY <1>4, <1>6, <1>8, <1>9, <1>10, <1>11, SucceedsOk
<1>13. Becomes(x, d) BY <1>1, <1>2, <1>5, <1>11
<1> QED BY <1>12, <1>13, QuietStep DEF HandleSuccess, Checking


(* A new check has a number of its own. *)
LEMMA ChecksGrow ==
    ASSUME IceInv, NEW x \in Agents, NEW c \in Checks, c.src = x,
           c.id = Cardinality({q \in checksSent : q.src = x}) + 1,
           c.nominating => Works(x, c.pair), checksSent' = checksSent \cup {c},
           UNCHANGED <<net, answersSent>>
    PROVE  ChecksInv' /\ AnswersInv'
<1> DEFINE of(y) == {q \in checksSent : q.src = y}
<1>1. checksSent \subseteq Checks /\ IsFiniteSet(checksSent) BY DEF IceInv, ChecksInv
<1>2. \A y \in Agents : IsFiniteSet(of(y)) /\ Cardinality(of(y)) \in Nat
    BY <1>1, FS_Subset, FS_CardinalityType
<1>3. \A d \in checksSent : d.src \in Agents /\ d.id \in Nat /\ d.id <= Cardinality(of(d.src))
    BY <1>1 DEF IceInv, ChecksInv, Checks
<1>4. \A d \in checksSent : d.src = x => d.id # c.id BY <1>2, <1>3
<1>5. c \notin checksSent BY <1>4
<1>6. IsFiniteSet(checksSent') BY <1>1, FS_AddElement
<1>7. \A y \in Agents : of(y)' = IF y = x THEN of(y) \cup {c} ELSE of(y) OBVIOUS
<1>8. Cardinality(of(x)') = Cardinality(of(x)) + 1 BY <1>2, <1>5, <1>7, FS_AddElement
<1>9. PICK N : N = [y \in Agents |-> Cardinality(of(y))] OBVIOUS
<1>10. PICK M : M = [y \in Agents |-> Cardinality(of(y)')] OBVIOUS
<1>11. \A y \in Agents : N[y] = Cardinality(of(y)) /\ M[y] = Cardinality(of(y)') BY <1>9, <1>10
<1>12. \A d \in checksSent' : d.id <= Cardinality({q \in checksSent' : q.src = d.src})
  <2>1. ASSUME NEW y \in Agents PROVE N[y] \in Nat /\ M[y] = IF y = x THEN N[y] + 1 ELSE N[y]
    <3>1. CASE y = x BY <1>2, <1>8, <1>11, <3>1
    <3>2. CASE y # x
      <4>1. of(y)' = of(y) BY <1>7, <3>2
      <4> QED BY <1>2, <1>11, <3>2, <4>1
    <3> QED BY <3>1, <3>2
  <2>2. \A d \in checksSent : d.src \in Agents /\ d.id \in Nat /\ d.id <= N[d.src] BY <1>3, <1>11
  <2>3. c.id = N[x] + 1 /\ c.src = x BY <1>11
  <2> HIDE DEF of
  <2>4. \A d \in checksSent' : d.src \in Agents /\ d.id <= M[d.src] BY <2>1, <2>2, <2>3
  <2>5. \A d \in checksSent' : d.id <= Cardinality(of(d.src)') BY <1>11, <2>4
  <2> QED BY <2>5 DEF of
<1>13. \A d, f \in checksSent' : d.src = f.src /\ d.id = f.id => d = f
    BY <1>4 DEF IceInv, ChecksInv
<1>14. Nominations' \subseteq Nominations \cup (IF c.nominating THEN {c} ELSE {}) BY DEF Nominations
<1>15. ASSUME NEW d \in Nominations' PROVE net'[d.src][d.pair[2]] # 0 /\ net'[Peer(d.src)][net'[d.src][d.pair[2]]] = d.pair[2]
    BY <1>14, <1>15 DEF IceInv, ChecksInv, Works
<1>16. ChecksInv' BY <1>1, <1>6, <1>12, <1>13, <1>15 DEF ChecksInv, Works
<1>17. AnswersInv' BY DEF IceInv, AnswersInv
<1> QED BY <1>16, <1>17

LEMMA SendCheckKeeps ==
    ASSUME IceInv, NEW x \in Agents, NEW a \in AgentRec, AgentOk(x, a), NEW p \in Pairs,
           NEW n \in BOOLEAN, n => Works(x, p), SendCheck(x, a, p, n), Checking(x),
           UNCHANGED <<net, gathered, driver, answersSent>>
    PROVE  IceInv'
<1>1. CASE ~HasSocket(x, p)
  <2>1. PICK d : d = UpdateFailure(a) OBVIOUS
  <2>2. d \in AgentRec /\ AgentOk(x, d) BY <2>1, UpdateFailureOk
  <2>3. Becomes(x, d) /\ UNCHANGED checksSent BY <1>1, <2>1 DEF SendCheck
  <2> QED BY <2>2, <2>3, QuietStep DEF Checking
<1>2. CASE HasSocket(x, p)
  <2>1. PICK k : k = Cardinality({q \in checksSent : q.src = x}) + 1 OBVIOUS
  <2>2. PICK c : c = [src |-> x, id |-> k, pair |-> p, role |-> a.role, nominating |-> n] OBVIOUS
  <2> DEFINE f == [a.pair EXCEPT ![p] = IF @ = "Succeeded" THEN @ ELSE "InProgress"]
  <2>3. PICK b : b = [a EXCEPT !.pending = @ \cup {c}, !.pair = f] OBVIOUS
  <2>4. /\ k <= MaxChecks /\ checksSent' = checksSent \cup {c} /\ Becomes(x, b)
    BY <1>2, <2>1, <2>2, <2>3 DEF SendCheck
  <2>5. k \in 1 .. MaxChecks
    <3>1. IsFiniteSet(checksSent) BY DEF IceInv, ChecksInv
    <3>2. IsFiniteSet({q \in checksSent : q.src = x}) BY <3>1, FS_Subset
    <3>3. Cardinality({q \in checksSent : q.src = x}) \in Nat BY <3>2, FS_CardinalityType
    <3> QED BY <2>1, <2>4, <3>3, BoundsAssumption
  <2>6. a.role \in Roles /\ a.pair \in [Pairs -> PairStates] BY DEF AgentRec
  <2>7. c \in Checks BY <2>2, <2>5, <2>6 DEF Checks
  <2>8. c.src = x /\ c.id = k /\ c.pair = p BY <2>2
  <2>9. c.nominating = n BY <2>2
  <2>10. ChecksInv' /\ AnswersInv'
    <3>1. c.nominating => Works(x, c.pair) BY <2>8, <2>9
    <3> QED BY <2>1, <2>4, <2>7, <2>8, <3>1, ChecksGrow
  <2>11. f \in [Pairs -> PairStates] /\ \A q \in Pairs : f[q] = "Succeeded" => a.pair[q] = "Succeeded"
    BY <2>6 DEF PairStates
  <2> HIDE DEF f
  <2>12. b \in AgentRec /\ b.pair = f /\ b.state = a.state /\ b.asked = a.asked
        /\ b.triggered = a.triggered /\ b.pending = a.pending \cup {c} /\ b.selected = a.selected
    BY <2>3, <2>7, <2>11 DEF AgentRec
  <2>13. AgentOk(x, a)' BY <2>4, StaysOk
  <2>14. AgentOk(x, b)' BY <2>4, <2>8, <2>11, <2>12, <2>13 DEF AgentOk
  <2>15. AgentsInv' BY <2>4, <2>12, <2>14, AgentMoves
  <2>16. NetType' BY DEF IceInv, NetType
  <2>17. DriverInv' BY <2>4 DEF IceInv, AgentsInv, DriverInv, Becomes, Checking
  <2> QED BY <2>10, <2>15, <2>16, <2>17 DEF IceInv
<1> QED BY <1>1, <1>2

LEMMA TickTriggeredKeeps == ASSUME IceInv, NEW x \in Agents, TickTriggered(x) PROVE IceInv'
<1>1. PICK i \in Eligible(agent[x]) :
          SendCheck(x, [agent[x] EXCEPT !.triggered = SubSeq(@, i + 1, Len(@))],
                    agent[x].triggered[i].pair, agent[x].triggered[i].nominate)
    BY DEF TickTriggered
<1>2. PICK g : g = agent[x] OBVIOUS
<1>3. g \in AgentRec /\ AgentOk(x, g) BY <1>2 DEF IceInv, AgentsInv
<1>4. i \in DOMAIN g.triggered BY <1>1, <1>2 DEF Eligible
<1>5. g.triggered[i] \in Triggers
  <2> HIDE DEF Triggers
  <2>1. g.triggered \in Seq(Triggers) BY <1>3 DEF AgentRec
  <2> QED BY <1>4, <2>1
<1>6. PICK p \in Pairs, n \in BOOLEAN : p = g.triggered[i].pair /\ n = g.triggered[i].nominate
    BY <1>5 DEF Triggers
<1>7. n => Works(x, p) BY <1>3, <1>4, <1>6 DEF AgentOk
<1>8. PICK a : a = [g EXCEPT !.triggered = SubSeq(@, i + 1, Len(@))] OBVIOUS
<1>9. a \in AgentRec /\ AgentOk(x, a) BY <1>3, <1>4, <1>8, DequeueOk
<1>10. SendCheck(x, a, p, n) BY <1>1, <1>2, <1>6, <1>8
<1> QED BY <1>7, <1>9, <1>10, SendCheckKeeps DEF TickTriggered

LEMMA TickOrdinaryKeeps == ASSUME IceInv, NEW x \in Agents, TickOrdinary(x) PROVE IceInv'
<1>1. PICK p \in Pairs : SendCheck(x, [agent[x] EXCEPT !.triggered = <<>>], p, FALSE)
    BY DEF TickOrdinary
<1>2. PICK g : g = agent[x] OBVIOUS
<1>3. g \in AgentRec /\ AgentOk(x, g) BY <1>2 DEF IceInv, AgentsInv
<1>4. PICK a : a = [g EXCEPT !.triggered = <<>>] OBVIOUS
<1>5. a \in AgentRec /\ AgentOk(x, a) BY <1>3, <1>4, EmptyQueueOk
<1>6. PICK n \in BOOLEAN : n = FALSE OBVIOUS
<1>7. SendCheck(x, a, p, n) BY <1>1, <1>2, <1>4, <1>6
<1> QED BY <1>5, <1>6, <1>7, SendCheckKeeps DEF TickOrdinary


(* An answer is sent along the way of the check. *)
LEMMA ReplyKeeps ==
    ASSUME IceInv, NEW x \in Agents, NEW c \in checksSent, c.src = Peer(x), NEW from,
           from = net[c.src][c.pair[2]], from # 0, NEW kind, Reply(x, c, kind, from),
           UNCHANGED <<net, checksSent>>
    PROVE  AnswersInv'
<1>1. Peer(c.src) = x BY PeerFacts
<1> DEFINE m == [to |-> c.src, id |-> c.id, kind |-> kind, from |-> net[x][from], mapped |-> from]
<1>2. m.to = c.src /\ m.id = c.id /\ m.from = net[x][from] /\ m.mapped = from OBVIOUS
<1>3. answersSent' \subseteq answersSent \cup {m} BY DEF Reply
<1> HIDE DEF m
<1> QED BY <1>1, <1>2, <1>3 DEF IceInv, AnswersInv

(* A pair the peer nominates is one that works for the peer, so from       *)
(* either end it is the path of that check.                                *)
LEMMA HandleRequestKeeps == ASSUME IceInv, NEW x \in Agents, HandleRequest(x) PROVE IceInv'
<1>1. PICK g : g = agent[x] OBVIOUS
<1>2. g \in AgentRec /\ AgentOk(x, g) BY <1>1 DEF IceInv, AgentsInv
<1>3. PICK c \in checksSent :
          LET a == agent[x]
              from == net[c.src][c.pair[2]]
              p == <<Host, from>>
              conflict == c.role = a.role
              keeps == conflict /\ (a.role = "controlling" <=> x = Large)
              b == AddRemoteCandidate([a EXCEPT !.role = IF conflict THEN Other(@) ELSE @], from)
              nominates == c.nominating /\ c.role = "controlling" /\ b.role = "controlled"
          IN  /\ c.src = Peer(x)
              /\ from # 0
              /\ IF keeps
                 THEN Reply(x, c, "conflict", from) /\ UNCHANGED agent
                 ELSE /\ Reply(x, c, "success", from)
                      /\ Len(a.triggered) < MaxTriggered
                      /\ Becomes(x, Checked(IF nominates THEN [b EXCEPT !.asked = @ \cup {p}] ELSE b, p))
    BY DEF HandleRequest
<1>4. PICK from : from = net[c.src][c.pair[2]] OBVIOUS
<1>5. c.src = Peer(x) /\ from # 0 BY <1>3, <1>4
<1>6. c.pair[2] \in Addrs /\ c.src \in Agents BY DEF IceInv, ChecksInv, Checks, Pairs
<1>7. from \in Addrs BY <1>4, <1>5, <1>6 DEF IceInv, NetType
<1>8. UNCHANGED <<net, driver, checksSent>> BY DEF HandleRequest
<1>9. Reply(x, c, "conflict", from) \/ Reply(x, c, "success", from) BY <1>3, <1>4
<1>10. AnswersInv' BY <1>4, <1>5, <1>8, <1>9, ReplyKeeps
<1>11. ChecksInv' /\ NetType' BY <1>8 DEF IceInv, ChecksInv, NetType, Nominations, Works
<1>12. CASE UNCHANGED agent
  <2>1. AgentsInv' BY <1>8, <1>12, AgentsStay DEF IceInv
  <2>2. DriverInv' BY <1>8, <1>12 DEF IceInv, DriverInv, HandleRequest, Checking
  <2> QED BY <1>8, <1>10, <1>11, <2>1, <2>2 DEF IceInv
<1>13. CASE agent' # agent
  <2>1. PICK r \in Roles : r = IF c.role = g.role THEN Other(g.role) ELSE g.role
    BY <1>2 DEF AgentRec, Other, Roles
  <2>2. PICK h : h = [g EXCEPT !.role = r] OBVIOUS
  <2>3. h = [g EXCEPT !.role = IF c.role = g.role THEN Other(@) ELSE @] BY <2>1, <2>2
  <2>4. h \in AgentRec /\ h.pair = g.pair /\ h.state = g.state /\ h.asked = g.asked
        /\ h.triggered = g.triggered /\ h.pending = g.pending /\ h.selected = g.selected
    BY <1>2, <2>2 DEF AgentRec
  <2>5. AgentOk(x, h) BY <1>2, <2>4 DEF AgentOk
  <2>6. PICK b : b = AddRemoteCandidate(h, from) OBVIOUS
  <2>7. b \in AgentRec /\ AgentOk(x, b) BY <1>7, <2>4, <2>5, <2>6, AddRemoteOk
  <2>8. PICK p : p = <<Host, from>> OBVIOUS
  <2>9. p \in Pairs /\ p[2] = from BY <1>7, <2>8 DEF Pairs, Addrs
  <2>10. PICK f : f = IF c.nominating /\ c.role = "controlling" /\ b.role = "controlled"
                      THEN [b EXCEPT !.asked = @ \cup {p}] ELSE b
    OBVIOUS
  <2>11. f \in AgentRec /\ AgentOk(x, f)
    <3>1. CASE f = b BY <2>7, <3>1
    <3>2. CASE f # b
      <4>1. c.nominating /\ f = [b EXCEPT !.asked = @ \cup {p}] BY <2>10, <3>2
      <4>2. Works(c.src, c.pair) /\ c \in Nominations BY <4>1 DEF IceInv, ChecksInv, Nominations
      <4>3. Peer(c.src) = x BY <1>5, PeerFacts
      <4>4. PICK q : q = c.pair OBVIOUS
      <4>5. PICK y \in Agents : y = c.src BY <1>6
      <4>6. Ends(Peer(y), p) = Ends(y, q) BY <1>4, <2>9, <4>2, <4>4, <4>5, BothEnds
      <4>7. Nominated(x, p) BY <4>2, <4>3, <4>4, <4>5, <4>6 DEF Nominated
      <4>8. f \in AgentRec /\ f.pair = b.pair /\ f.state = b.state /\ f.asked = b.asked \cup {p}
            /\ f.triggered = b.triggered /\ f.pending = b.pending /\ f.selected = b.selected
        BY <2>7, <2>9, <4>1, SMTT(30) DEF AgentRec
      <4> QED BY <2>7, <4>7, <4>8 DEF AgentOk
    <3> QED BY <3>1, <3>2
  <2>12. PICK d : d = Checked(f, p) OBVIOUS
  <2>13. d \in AgentRec /\ AgentOk(x, d) BY <2>9, <2>11, <2>12, CheckedOk
  <2>14. Becomes(x, d) BY <1>1, <1>3, <1>4, <1>13, <2>3, <2>6, <2>8, <2>10, <2>12
  <2>15. AgentOk(x, d)' BY <1>8, <2>13, StaysOk
  <2>16. AgentsInv' BY <1>8, <2>13, <2>14, <2>15, AgentMoves
  <2>17. DriverInv' BY <1>8, <2>14 DEF IceInv, AgentsInv, DriverInv, HandleRequest, Checking, Becomes
  <2> QED BY <1>8, <1>10, <1>11, <2>16, <2>17 DEF IceInv
<1> QED BY <1>12, <1>13, SMTT(30)

LEMMA DriverStepKeeps ==
    ASSUME IceInv, NEW x \in Agents, DriverReturns(x) \/ DriverTimesOut(x) PROVE IceInv'
<1>1. UNCHANGED <<net, agent, checksSent, answersSent>> BY DEF DriverReturns, DriverTimesOut
<1>2. AgentsInv' /\ ChecksInv' /\ AnswersInv' /\ NetType'
    BY <1>1, AgentsStay DEF IceInv, ChecksInv, AnswersInv, NetType, Nominations, Works
<1>3. DOMAIN driver' = Agents /\ DriverInv'
    BY <1>1 DEF IceInv, DriverInv, DriverReturns, DriverTimesOut, Checking
<1> QED BY <1>2, <1>3 DEF IceInv

LEMMA StartKeeps ==
    ASSUME IceInv, NEW topology \in Topologies, NEW knows \in SUBSET Agents,
           NEW roles \in [Agents -> Roles], Start(topology, knows, roles)
    PROVE  IceInv'
<1>1. net' = topology.net /\ driver' = [x \in Agents |-> "running"]
      /\ agent' = [x \in Agents |-> NewAgent(roles[x], Gathered(x, knows))]
      /\ \A x \in Agents : driver[x] = "new"
    BY DEF Start
<1>2. checksSent' = {} /\ answersSent' = {}
  <2>1. Small \in Agents BY DEF Agents
  <2> QED BY <1>1, <2>1 DEF Start, IceInv, DriverInv
<1>3. NetType' BY <1>1, TopologiesAssumption DEF NetType
<1>4. \A x \in Agents : Gathered(x, knows) \in SUBSET Addrs BY DEF Gathered, Addrs
<1>5. agent' \in [Agents -> AgentRec] BY <1>1, <1>4, NewAgentOk
<1>6. ASSUME NEW x \in Agents PROVE AgentOk(x, agent[x])'
  <2>1. PICK a : a = agent'[x] BY SMTT(30)
  <2>3. a \in AgentRec /\ a = NewAgent(roles[x], Gathered(x, knows)) BY <1>1, <1>5, <2>1
  <2>2. a \in AgentRec /\ a.pending = {} /\ a.asked = {} /\ a.triggered = <<>> /\ a.state = "Checking"
        /\ \A p \in Pairs : a.pair[p] # "Succeeded"
    BY <2>3 DEF NewAgent, AddRemoteCandidate, Form
  <2> QED BY <2>1, <2>2 DEF AgentOk
<1>7. ChecksInv' /\ AnswersInv' BY <1>2, FS_EmptySet DEF ChecksInv, AnswersInv, Nominations
<1>8. DriverInv' /\ DOMAIN driver' = Agents BY <1>1 DEF DriverInv
<1> QED BY <1>3, <1>5, <1>6, <1>7, <1>8 DEF IceInv, AgentsInv

LEMMA IceStarts == IceInit => IceInv
<1> SUFFICES ASSUME IceInit PROVE IceInv OBVIOUS
<1>1. NetType BY DEF IceInit, NetType
<1>2. {Host} \in SUBSET Addrs /\ "controlled" \in Roles BY DEF Addrs, Roles
<1>3. \A x \in Agents : NewAgent("controlled", {Host}) \in AgentRec
                        /\ AgentOk(x, NewAgent("controlled", {Host}))
    BY <1>2, NewAgentOk
<1>4. AgentsInv BY <1>3 DEF IceInit, AgentsInv
<1>5. ChecksInv /\ AnswersInv BY FS_EmptySet DEF IceInit, ChecksInv, AnswersInv, Nominations
<1>6. DriverInv /\ DOMAIN driver = Agents BY DEF IceInit, DriverInv
<1> QED BY <1>1, <1>4, <1>5, <1>6 DEF IceInv

LEMMA IceStepKeeps == IceInv /\ [IceNext]_iceVars => IceInv'
<1> SUFFICES ASSUME IceInv, [IceNext]_iceVars PROVE IceInv' OBVIOUS
<1>1. ASSUME NEW x \in Agents, AgentStep(x) PROVE IceInv'
    BY <1>1, CheckTimesOutKeeps, TickTriggeredKeeps, TickOrdinaryKeeps, TickIdleKeeps,
       HandleRequestKeeps, HandleSuccessKeeps, HandleConflictKeeps, TrickleKeeps, DriverStepKeeps
    DEF AgentStep
<1>2. CASE UNCHANGED iceVars
  <2>1. UNCHANGED <<net, driver, agent, checksSent, answersSent>> BY <1>2 DEF iceVars
  <2>2. AgentsInv' BY <2>1, AgentsStay DEF IceInv
  <2> QED BY <2>1, <2>2 DEF IceInv, ChecksInv, AnswersInv, NetType, DriverInv, Nominations, Works
<1> QED BY <1>1, <1>2, StartKeeps DEF IceNext

(* Over every network between two sockets of two addresses each, whatever  *)
(* is lost, delayed, repeated or reordered, and however roles conflict, a  *)
(* pair an agent completes on carries packets both ways and lies on a path *)
(* one of the two nominated (agent.rs: handle_success, handle_request,     *)
(* nominate).                                                              *)
THEOREM SelectedPathsWork == IceSpec => []SelectedPathWorks
<1>1. IceInv => SelectedPathWorks
    BY DEF IceInv, AgentsInv, AgentOk, SelectedPathWorks, Nominated
<1> QED BY <1>1, IceStarts, IceStepKeeps, PTL DEF IceSpec
=============================================================================
